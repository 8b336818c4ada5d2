------------------------ MODULE LongTermMemory_proofs ------------------------
(***************************************************************************)
(* Proofs about LongTermMemory, for any number of loops, items, values,     *)
(* batches, dreams, failures and restarts: the index stays exact, MEMORY.md *)
(* and the vector index follow, an agent's word stands, and no change       *)
(* reuses a version, overrides a more confident value or blanks a fact.     *)
(***************************************************************************)
EXTENDS LongTermMemory, FiniteSetTheorems, WellFoundedInduction, TLAPS

(* Numbers. *)

(* A set of numbers has a least element. *)
LEMMA Least ==
  ASSUME NEW S, S \subseteq Nat, S # {}
  PROVE  \E n \in S : \A m \in S : n <= m
<1> DEFINE T == {1 .. n : n \in S}
<1>1. T \subseteq FiniteSubsetsOf(Nat)
  BY FS_Interval DEF FiniteSubsetsOf
<1>2. PICK X \in T : \A Y \in T : ~ (<<Y, X>> \in StrictSubsetOrdering(Nat))
  <2>1. T # {}
    OBVIOUS
  <2> HIDE DEF T
  <2> QED BY <1>1, <2>1, FS_StrictSubsetOrderingWellFounded, WFMin
<1>3. PICK n \in S : X = 1 .. n
  OBVIOUS
<1>4. ASSUME NEW m \in S, m < n PROVE FALSE
  <2>1. 1 .. m \in T /\ 1 .. m \subseteq 1 .. n /\ n \notin 1 .. m /\ n \in 1 .. n
    BY <1>4
  <2>2. 1 .. m # 1 .. n
    BY <2>1
  <2>3. 1 .. m \in SUBSET Nat /\ 1 .. n \in SUBSET Nat
    BY <1>4
  <2> QED BY <1>2, <1>3, <2>1, <2>2, <2>3 DEF StrictSubsetOrdering
<1> QED BY <1>3, <1>4

(* Induction: a set with 0 and every successor has all numbers. *)
LEMMA Inductive ==
  ASSUME NEW S, 0 \in S, \A n \in Nat : n \in S => n + 1 \in S
  PROVE  Nat \subseteq S
<1> SUFFICES ASSUME Nat \ S # {} PROVE FALSE
  OBVIOUS
<1>1. PICK n \in Nat \ S : \A m \in Nat \ S : n <= m
  BY Least
<1>2. n # 0 /\ n - 1 \in Nat /\ n - 1 \notin S => FALSE
  BY <1>1
<1> QED BY <1>1, <1>2

(* The greater of two numbers, and the smaller. *)
LEMMA OfTwo ==
  ASSUME NEW a \in Int, NEW b \in Int
  PROVE  /\ Max({a, b}) = IF a >= b THEN a ELSE b
         /\ Min({a, b}) = IF a <= b THEN a ELSE b
BY DEF Max, Min
-----------------------------------------------------------------------------
(* The order of MEMORY.md. *)

(* The places of p and of all that come before it, by f and then by place.  *)
Upto(n, f, p) == {q \in 1 .. n : f[q] < f[p] \/ (f[q] = f[p] /\ q <= p)}

(* Every rank is the rank of one place. *)
LEMMA Ranks ==
  ASSUME NEW n \in Nat, NEW f \in [1 .. n -> Nat]
  PROVE  /\ \A p \in 1 .. n : Cardinality(Upto(n, f, p)) \in 1 .. n
         /\ \A k \in 1 .. n : \E p \in 1 .. n : Cardinality(Upto(n, f, p)) = k
         /\ \A p, q \in 1 .. n : Cardinality(Upto(n, f, p)) = Cardinality(Upto(n, f, q)) => p = q
<1> DEFINE R == [p \in 1 .. n |-> Cardinality(Upto(n, f, p))]
<1>1. IsFiniteSet(1 .. n) /\ Cardinality(1 .. n) = n
  BY FS_Interval
<1>2. ASSUME NEW p \in 1 .. n
      PROVE  IsFiniteSet(Upto(n, f, p)) /\ Cardinality(Upto(n, f, p)) \in 1 .. n
  <2>1. Upto(n, f, p) \in SUBSET (1 .. n) /\ p \in Upto(n, f, p)
    BY DEF Upto
  <2>2. IsFiniteSet(Upto(n, f, p)) /\ Cardinality(Upto(n, f, p)) <= n
    BY <1>1, <2>1, FS_Subset
  <2>3. Cardinality(Upto(n, f, p)) \in Nat /\ Cardinality(Upto(n, f, p)) # 0
    BY <2>1, <2>2, FS_CardinalityType, FS_EmptySet
  <2> QED BY <2>2, <2>3
<1>3. ASSUME NEW p \in 1 .. n, NEW q \in 1 .. n, f[p] < f[q] \/ (f[p] = f[q] /\ p < q)
      PROVE  Cardinality(Upto(n, f, p)) # Cardinality(Upto(n, f, q))
  <2>1. Upto(n, f, p) \in SUBSET Upto(n, f, q) /\ q \in Upto(n, f, q) /\ q \notin Upto(n, f, p)
    BY <1>3 DEF Upto
  <2> QED BY <1>2, <2>1, FS_Subset
<1>4. \A p, q \in 1 .. n : Cardinality(Upto(n, f, p)) = Cardinality(Upto(n, f, q)) => p = q
  BY <1>3
<1>5. R \in Injection(1 .. n, 1 .. n)
  BY <1>2, <1>4 DEF Injection, IsInjective
<1>6. R \in Surjection(1 .. n, 1 .. n)
  BY <1>1, <1>5, FS_Injection
<1>7. ASSUME NEW k \in 1 .. n PROVE \E p \in 1 .. n : Cardinality(Upto(n, f, p)) = k
  BY <1>6 DEF Surjection
<1> QED BY <1>2, <1>4, <1>7

(* c tells which item is at each place of MEMORY.md: every one, and once.   *)
Places(c, items, n) ==
  /\ c \in [1 .. n -> 1 .. n]
  /\ Grouped(items) = [k \in 1 .. n |-> items[c[k]]]
  /\ \A j, k \in 1 .. n : c[j] = c[k] => j = k
  /\ \A p \in 1 .. n : \E k \in 1 .. n : c[k] = p

(* Grouped puts every item at one place. *)
LEMMA GroupedIs ==
  ASSUME NEW items, NEW n \in Nat, DOMAIN items = 1 .. n
  PROVE  \E c : Places(c, items, n)
<1> DEFINE Same(q, p) == SectionOf[items[q].name] = SectionOf[items[p].name]
           f == [p \in 1 .. n |-> Min({q \in 1 .. n : Same(q, p)})]
           c == [k \in 1 .. n |-> CHOOSE p \in 1 .. n : Cardinality(Upto(n, f, p)) = k]
<1>1. f \in [1 .. n -> Nat]
  <2>1. ASSUME NEW p \in 1 .. n PROVE Min({q \in 1 .. n : Same(q, p)}) \in Nat
    <3> DEFINE S == {q \in 1 .. n : Same(q, p)}
    <3>1. S \subseteq Nat /\ p \in S
      OBVIOUS
    <3> HIDE DEF S
    <3>2. \E x \in S : \A y \in S : x <= y
      BY <3>1, Least
    <3>3. Min(S) \in S
      BY <3>2 DEF Min
    <3> QED BY <3>1, <3>3 DEF S
  <2> QED BY <2>1
<1>2. Grouped(items) = [k \in 1 .. n |-> items[c[k]]]
  BY DEF Grouped, Upto
<1> HIDE DEF f
<1>3. \A k \in 1 .. n : c[k] \in 1 .. n /\ Cardinality(Upto(n, f, c[k])) = k
  BY <1>1, Ranks
<1>4. c \in [1 .. n -> 1 .. n]
  BY <1>3
<1> HIDE DEF c
<1>5. \A j, k \in 1 .. n : c[j] = c[k] => j = k
  BY <1>3
<1>6. ASSUME NEW p \in 1 .. n PROVE \E k \in 1 .. n : c[k] = p
  <2> DEFINE k == Cardinality(Upto(n, f, p))
  <2>1. k \in 1 .. n
    BY <1>1, Ranks
  <2> HIDE DEF k
  <2>2. c[k] \in 1 .. n /\ Cardinality(Upto(n, f, c[k])) = Cardinality(Upto(n, f, p))
    BY <1>3, <2>1 DEF k
  <2> QED BY <1>1, <2>1, <2>2, Ranks
<1> QED BY <1>2, <1>4, <1>5, <1>6 DEF Places

-----------------------------------------------------------------------------
(* One memory. *)

(* Every item is where the index says, and every entry has an item. *)
Exact(s, x) ==
  /\ s \in Seq(ItemType)
  /\ x \in [DOMAIN x -> 1 .. Len(s)]
  /\ \A n \in DOMAIN x : s[x[n]].name = n
  /\ \A p \in 1 .. Len(s) : s[p].name \in DOMAIN x /\ x[s[p].name] = p

Sound(m) == m = [items |-> m.items, index |-> m.index] /\ Exact(m.items, m.index)

(* m is sound and answers like old, but for n, for which it answers it. *)
PutIn(m, old, n, it) ==
  /\ Sound(m) /\ DOMAIN m.index = DOMAIN old.index \cup {n} /\ Get(m, n) = it
  /\ \A k \in DOMAIN old.index \ {n} : Get(m, k) = Get(old, k)

(* A memory is its items and its index. *)
LEMMA Parts ==
  ASSUME NEW m, Sound(m)
  PROVE  \E s, x : m = [items |-> s, index |-> x] /\ Exact(s, x)
BY DEF Sound

(* Two such parts make a memory. *)
LEMMA Whole ==
  ASSUME NEW s, NEW x, Exact(s, x)
  PROVE  Sound([items |-> s, index |-> x])
BY DEF Sound

(* What is found is an item of that name. *)
LEMMA Found ==
  ASSUME NEW m, Sound(m), NEW n, Has(m, n)
  PROVE  Get(m, n) \in ItemType /\ Get(m, n).name = n /\ n \in Names
<1>1. PICK s, x : m = [items |-> s, index |-> x] /\ Exact(s, x)
  BY Parts
<1>2. x[n] \in 1 .. Len(s) /\ s[x[n]] \in ItemType /\ s[x[n]].name = n
  BY <1>1 DEF Exact, Has
<1> QED BY <1>1, <1>2 DEF Get, ItemType

(* A new item is put in. *)
LEMMA AddedIs ==
  ASSUME NEW m, Sound(m), NEW it \in ItemType, ~Has(m, it.name)
  PROVE  PutIn(Added(m, it), m, it.name, it)
<1>1. PICK s, x : m = [items |-> s, index |-> x] /\ Exact(s, x)
  BY Parts
<1>2. PICK l \in Nat : l = Len(s)
  BY <1>1 DEF Exact
<1> DEFINE a == Append(s, it)
           y == [n \in DOMAIN x \cup {it.name} |-> IF n = it.name THEN l + 1 ELSE x[n]]
<1>3. Added(m, it) = [items |-> a, index |-> y]
  BY <1>1, <1>2 DEF Added
<1>4. /\ a \in Seq(ItemType) /\ Len(a) = l + 1
      /\ a[l + 1] = it /\ \A p \in 1 .. l : a[p] = s[p]
  BY <1>1, <1>2 DEF Exact
<1>5. /\ DOMAIN y = DOMAIN x \cup {it.name} /\ y[it.name] = l + 1 /\ it.name \notin DOMAIN x
      /\ \A n \in DOMAIN x : y[n] = x[n] /\ x[n] \in 1 .. l /\ s[x[n]].name = n
      /\ \A p \in 1 .. l : s[p].name \in DOMAIN x /\ x[s[p].name] = p
  BY <1>1, <1>2 DEF Exact, Has
<1>6. \A n \in DOMAIN y : y[n] \in 1 .. l + 1 /\ a[y[n]].name = n
  BY <1>4, <1>5
<1>7. y = [n \in DOMAIN y |-> y[n]]
  OBVIOUS
<1> HIDE DEF a, y
<1>8. \A p \in 1 .. l + 1 : a[p].name \in DOMAIN y /\ y[a[p].name] = p
  <2> TAKE p \in 1 .. l + 1
  <2>1. p \in 1 .. l \/ p = l + 1
    OBVIOUS
  <2> QED BY <1>4, <1>5, <2>1
<1>9. y \in [DOMAIN y -> 1 .. l + 1]
  BY <1>6, <1>7
<1>10. Sound(Added(m, it))
  <2>1. Exact(a, y)
    BY <1>4, <1>6, <1>8, <1>9 DEF Exact
  <2> QED BY <1>3, <2>1, Whole
<1> QED BY <1>1, <1>3, <1>4, <1>5, <1>10 DEF PutIn, Get

(* An item takes the place of the one of its name. *)
LEMMA ReplacedIs ==
  ASSUME NEW m, Sound(m), NEW it \in ItemType, Has(m, it.name)
  PROVE  PutIn(Replaced(m, it), m, it.name, it)
<1>1. PICK s, x : m = [items |-> s, index |-> x] /\ Exact(s, x)
  BY Parts
<1>2. PICK l \in Nat : l = Len(s)
  BY <1>1 DEF Exact
<1>3. PICK q : q = x[it.name]
  OBVIOUS
<1> DEFINE a == [s EXCEPT ![q] = it]
<1>4. Replaced(m, it) = [items |-> a, index |-> x]
  BY <1>1, <1>3 DEF Replaced
<1>5. /\ q \in 1 .. l /\ it.name \in DOMAIN x
      /\ \A n \in DOMAIN x : x[n] \in 1 .. l /\ s[x[n]].name = n
      /\ \A p \in 1 .. l : s[p].name \in DOMAIN x /\ x[s[p].name] = p
  BY <1>1, <1>2, <1>3 DEF Exact, Has
<1>6. a \in Seq(ItemType) /\ Len(a) = l /\ a[q] = it /\ \A p \in 1 .. l : p # q => a[p] = s[p]
  BY <1>1, <1>2, <1>5 DEF Exact
<1> HIDE DEF a
<1>7. \A n \in DOMAIN x : a[x[n]].name = n
  BY <1>3, <1>5, <1>6
<1>8. \A p \in 1 .. l : a[p].name \in DOMAIN x /\ x[a[p].name] = p
  BY SMTT(30), <1>3, <1>5, <1>6
<1>9. Sound(Replaced(m, it))
  <2>1. Exact(a, x)
    BY <1>1, <1>2, <1>6, <1>7, <1>8 DEF Exact
  <2> QED BY <1>4, <2>1, Whole
<1>10. \A k \in DOMAIN x \ {it.name} : x[k] # q
  BY <1>3, <1>5
<1> QED BY <1>1, <1>3, <1>4, <1>5, <1>6, <1>9, <1>10 DEF PutIn, Get

(* Put does one or the other. *)
LEMMA PutIs ==
  ASSUME NEW m, Sound(m), NEW it \in ItemType
  PROVE  PutIn(Put(m, it), m, it.name, it)
BY AddedIs, ReplacedIs DEF Put

(* Store puts the value in, at a new version, or leaves all as it is. *)
LEMMA StoreIs ==
  ASSUME NEW m, Sound(m), NEW n \in Names, NEW v \in Values, day \in 0 .. MaxDay
  PROVE  LET new == Item(n, v, IF Has(m, n) THEN Get(m, n).version + 1 ELSE 1, Full) IN
         /\ new \in ItemType
         /\ (Has(m, n) /\ Store(m, n, v) = m) \/ PutIn(Store(m, n, v), m, n, new)
<1> DEFINE new == Item(n, v, IF Has(m, n) THEN Get(m, n).version + 1 ELSE 1, Full)
<1>1. Has(m, n) => Get(m, n) \in ItemType
  BY Found
<1>2. new \in ItemType /\ new.name = n
  <2>1. Has(m, n) => Get(m, n).version + 1 \in Nat \ {0}
    BY <1>1 DEF ItemType
  <2>2. day \in 0 .. MaxDay + 1 /\ Full \in 1 .. Full
    BY MemoryAssumption DEF Full
  <2> QED BY <2>1, <2>2 DEF Item, ItemType
<1>3. CASE ~Has(m, n)
  <2>1. Store(m, n, v) = Added(m, new)
    BY <1>3 DEF Store
  <2> QED BY <1>2, <1>3, <2>1, AddedIs
<1>4. CASE Has(m, n)
  <2>1. Store(m, n, v) = m \/ Store(m, n, v) = Replaced(m, new)
    BY <1>4 DEF Store
  <2> QED BY <1>2, <1>4, <2>1, ReplacedIs
<1> QED BY <1>2, <1>3, <1>4

(* Remove removes the one item. *)
LEMMA RemovedIs ==
  ASSUME NEW m, Sound(m), NEW n
  PROVE  /\ Sound(Removed(m, n)) /\ DOMAIN Removed(m, n).index = DOMAIN m.index \ {n}
         /\ \A k \in DOMAIN m.index \ {n} : Get(Removed(m, n), k) = Get(m, k)
<1>1. CASE ~Has(m, n)
  BY <1>1 DEF Removed, Has
<1>2. CASE Has(m, n)
  <2>1. PICK s, x : m = [items |-> s, index |-> x] /\ Exact(s, x)
    BY Parts
  <2>2. PICK l \in Nat : l = Len(s)
    BY <2>1 DEF Exact
  <2>3. PICK q, w : q = x[n] /\ w = s[l].name
    OBVIOUS
  <2>4. /\ q \in 1 .. l /\ s[q].name = n /\ w \in DOMAIN x /\ x[w] = l
        /\ \A k \in DOMAIN x : x[k] \in 1 .. l /\ s[x[k]].name = k
        /\ \A p \in 1 .. l : s[p].name \in DOMAIN x /\ x[s[p].name] = p
    BY <1>2, <2>1, <2>2, <2>3 DEF Exact, Has
  <2> DEFINE b == [s EXCEPT ![q] = s[l]]
             a == SubSeq(b, 1, l - 1)
             y == [k \in DOMAIN x \ {n} |-> IF k = w THEN q ELSE x[k]]
  <2>5. Removed(m, n) = [items |-> a, index |-> y]
    BY <1>2, <2>1, <2>2, <2>3 DEF Removed
  <2>6. b \in Seq(ItemType) /\ Len(b) = l /\ \A p \in 1 .. l : b[p] = IF p = q THEN s[l] ELSE s[p]
    BY <2>1, <2>2, <2>4 DEF Exact
  <2>7. /\ DOMAIN y = DOMAIN x \ {n} /\ y = [k \in DOMAIN y |-> y[k]]
        /\ \A k \in DOMAIN x \ {n} : y[k] = IF k = w THEN q ELSE x[k]
    OBVIOUS
  <2> HIDE DEF b, y
  <2>8. a \in Seq(ItemType) /\ Len(a) = l - 1 /\ \A p \in 1 .. l - 1 : a[p] = b[p]
    BY SMTT(30), <2>2, <2>4, <2>6
  <2> HIDE DEF a
  <2>9. \A k \in DOMAIN x \ {n} : y[k] \in 1 .. l - 1 /\ a[y[k]] = s[x[k]]
    <3> TAKE k \in DOMAIN x \ {n}
    <3>1. CASE k = w
      <4>1. q \in 1 .. l - 1 /\ y[k] = q
        BY <2>3, <2>4, <2>7, <3>1
      <4> QED BY <2>4, <2>6, <2>8, <3>1, <4>1
    <3>2. CASE k # w
      <4>1. x[k] \in 1 .. l /\ x[k] # l /\ x[k] # q /\ y[k] = x[k]
        BY <2>3, <2>4, <2>7, <3>2
      <4>2. x[k] \in 1 .. l - 1
        BY <4>1
      <4> QED BY <2>6, <2>8, <4>1, <4>2
    <3> QED BY <3>1, <3>2
  <2>10. \A p \in 1 .. l - 1 : a[p].name \in DOMAIN y /\ y[a[p].name] = p
    <3> TAKE p \in 1 .. l - 1
    <3>1. p \in 1 .. l /\ p # l
      OBVIOUS
    <3>2. CASE p = q
      <4>1. a[p].name = w /\ w # n
        BY <2>3, <2>4, <2>6, <2>8, <3>1, <3>2
      <4> QED BY <2>4, <2>7, <3>2, <4>1
    <3>3. CASE p # q
      <4>1. a[p] = s[p] /\ s[p].name # n /\ s[p].name # w
        BY <2>3, <2>4, <2>6, <2>8, <3>1, <3>3
      <4> QED BY <2>4, <2>7, <3>1, <4>1
    <3> QED BY <3>2, <3>3
  <2>11. \A k \in DOMAIN y : a[y[k]].name = k
    BY <2>4, <2>7, <2>9
  <2>12. Sound(Removed(m, n))
    <3>1. y \in [DOMAIN y -> 1 .. Len(a)]
      BY <2>7, <2>8, <2>9
    <3>2. Exact(a, y)
      BY <2>8, <2>10, <2>11, <3>1 DEF Exact
    <3> QED BY <2>5, <3>2, Whole
  <2> QED BY <2>1, <2>5, <2>7, <2>9, <2>12 DEF Get
<1> QED BY <1>1, <1>2

-----------------------------------------------------------------------------
(* Winners. *)

Facts == [name : Names, spelling : {"normal", "other"}, value : Values,
          version : Nat \ {0}, conf : 1 .. Full, seen : SUBSET SUBSET ItemType]

(* What a new value has to exceed by the gap. *)
Low(it) == Min({it.conf, Decayed(it)})

(* A winner says what the item it was resolved against says, or is surer.   *)
Justified(f) ==
  \E h : /\ f.seen = {h}
         /\ \A it \in h : SemanticMatch(it.value, f.value) \/ f.conf >= Low(it) + Gap

(* A winner that was found to be no duplicate of the same item is surer.    *)
Accepted(f) ==
  \A it \in ItemType :
    f.seen = {{it}} => ~SemanticMatch(it.value, f.value) /\ f.conf >= Low(it) + Gap

(* Putting an item in from what was put in before: the version, when there  *)
(* was one, has grown.                                                      *)
Bulked(acc, m, batch, i) ==
  /\ Sound(acc)
  /\ DOMAIN acc.index = DOMAIN m.index \cup {batch[p].name : p \in 1 .. i}
  /\ \A n \in DOMAIN acc.index :
       \/ /\ n \in DOMAIN m.index /\ Get(acc, n) = Get(m, n)
          /\ \A p \in 1 .. i : batch[p].name # n
       \/ \E p \in 1 .. i :
            /\ batch[p].name = n
            /\ Get(acc, n).value = batch[p].value /\ Get(acc, n).conf = batch[p].conf
            /\ Has(m, n) => Get(acc, n).version > Get(m, n).version

(* What is put in for a fact is an item. *)
LEMMA BumpedIs ==
  ASSUME NEW m, Sound(m), NEW f \in Facts, day \in 0 .. MaxDay
  PROVE  /\ Bumped(m, f) \in ItemType
         /\ Bumped(m, f).name = f.name /\ Bumped(m, f).value = f.value
         /\ Bumped(m, f).conf = f.conf
         /\ Has(m, f.name) => Bumped(m, f).version = Get(m, f.name).version + 1
<1>1. PICK ver : ver = IF Has(m, f.name) THEN Get(m, f.name).version + 1 ELSE f.version
  OBVIOUS
<1>2. ver \in Nat \ {0}
  <2>1. CASE Has(m, f.name)
    <3>1. Get(m, f.name) \in ItemType
      BY <2>1, Found
    <3>2. Get(m, f.name).version \in Nat
      BY <3>1 DEF ItemType
    <3> QED BY <1>1, <2>1, <3>2
  <2>2. CASE ~Has(m, f.name)
    BY <1>1, <2>2 DEF Facts
  <2> QED BY <2>1, <2>2
<1>3. day \in 0 .. MaxDay + 1
  BY MemoryAssumption
<1>4. Bumped(m, f) = [name |-> f.name, value |-> f.value, version |-> ver, conf |-> f.conf,
                      at |-> day]
  BY <1>1 DEF Bumped, Item
<1>5. f.name \in Names /\ f.value \in Values /\ f.conf \in 1 .. Full
  BY DEF Facts
<1> QED BY <1>1, <1>2, <1>3, <1>4, <1>5 DEF ItemType

(* One more fact is put in. *)
LEMMA BulkedMore ==
  ASSUME NEW m, Sound(m), NEW batch \in Seq(Facts), day \in 0 .. MaxDay,
         NEW i \in Nat, i < Len(batch), NEW acc, Bulked(acc, m, batch, i)
  PROVE  Bulked(Put(acc, Bumped(acc, batch[i + 1])), m, batch, i + 1)
<1>1. PICK f \in Facts : f = batch[i + 1]
  OBVIOUS
<1>2. Sound(acc)
  BY DEF Bulked
<1>3. PICK it \in ItemType : /\ it = Bumped(acc, f) /\ it.name = f.name
                             /\ it.value = f.value /\ it.conf = f.conf
                             /\ Has(acc, f.name) => it.version = Get(acc, f.name).version + 1
  BY <1>2, BumpedIs
<1>4. PICK new : new = Put(acc, it)
  OBVIOUS
<1>5. PutIn(new, acc, f.name, it)
  BY <1>2, <1>3, <1>4, PutIs
<1>6. {batch[p].name : p \in 1 .. i + 1} = {batch[p].name : p \in 1 .. i} \cup {f.name}
  <2>1. 1 .. i + 1 = 1 .. i \cup {i + 1}
    OBVIOUS
  <2> QED BY <1>1, <2>1
<1>7. DOMAIN new.index = DOMAIN m.index \cup {batch[p].name : p \in 1 .. i + 1}
  BY <1>5, <1>6 DEF PutIn, Bulked
<1>8. \A p : p \in 1 .. i => p \in 1 .. i + 1
  OBVIOUS
<1>9. ASSUME NEW n \in DOMAIN new.index
      PROVE  \/ /\ n \in DOMAIN m.index /\ Get(new, n) = Get(m, n)
                /\ \A p \in 1 .. i + 1 : batch[p].name # n
             \/ \E p \in 1 .. i + 1 :
                  /\ batch[p].name = n
                  /\ Get(new, n).value = batch[p].value /\ Get(new, n).conf = batch[p].conf
                  /\ Has(m, n) => Get(new, n).version > Get(m, n).version
  <2>1. CASE n = f.name
    <3>1. Get(new, n) = it
      BY <1>5, <2>1 DEF PutIn
    <3>2. ASSUME Has(m, n) PROVE it.version > Get(m, n).version
      <4>1. Has(acc, n) /\ it.version = Get(acc, n).version + 1
        BY <1>3, <2>1, <3>2 DEF Bulked, Has
      <4>2. Get(acc, n) = Get(m, n) \/ Get(acc, n).version > Get(m, n).version
        BY <3>2, <4>1 DEF Bulked, Has
      <4>3. Get(acc, n) \in ItemType /\ Get(m, n) \in ItemType
        BY <1>2, <3>2, <4>1, Found
      <4>4. Get(acc, n).version \in Nat /\ Get(m, n).version \in Nat
        BY <4>3 DEF ItemType
      <4> QED BY <4>1, <4>2, <4>4
    <3>3. i + 1 \in 1 .. i + 1
      OBVIOUS
    <3> QED BY <1>1, <1>3, <2>1, <3>1, <3>2, <3>3
  <2>2. CASE n # f.name
    <3>1. n \in DOMAIN acc.index /\ Get(new, n) = Get(acc, n)
      BY <1>5, <2>2 DEF PutIn
    <3>2. CASE /\ n \in DOMAIN m.index /\ Get(acc, n) = Get(m, n)
               /\ \A p \in 1 .. i : batch[p].name # n
      <4>1. \A p \in 1 .. i + 1 : p \in 1 .. i \/ p = i + 1
        OBVIOUS
      <4> QED BY <1>1, <2>2, <3>1, <3>2, <4>1
    <3>3. CASE \E p \in 1 .. i :
            /\ batch[p].name = n
            /\ Get(acc, n).value = batch[p].value /\ Get(acc, n).conf = batch[p].conf
            /\ Has(m, n) => Get(acc, n).version > Get(m, n).version
      BY <1>8, <3>1, <3>3
    <3> QED BY <3>1, <3>2, <3>3 DEF Bulked
  <2> QED BY <2>1, <2>2
<1>10. Bulked(new, m, batch, i + 1)
  BY <1>5, <1>7, <1>9 DEF Bulked, PutIn
<1> QED BY <1>1, <1>3, <1>4, <1>10

(* The memories on the way of BulkStore. *)
Way(m, batch, g) ==
  g = [p \in 0 .. Len(batch) |->
         IF p = 0 THEN m ELSE Put(g[p - 1], Bumped(g[p - 1], batch[p]))]

(* There is a way for as many facts as one likes, by induction. *)
LEMMA WayExists ==
  ASSUME NEW m, NEW batch, Len(batch) \in Nat
  PROVE  \E g : Way(m, batch, g)
<1> DEFINE Part(i, g) == g = [p \in 0 .. i |->
              IF p = 0 THEN m ELSE Put(g[p - 1], Bumped(g[p - 1], batch[p]))]
           S == {i \in Nat : \E g : Part(i, g)}
<1>1. 0 \in S
  <2> DEFINE g == [p \in 0 .. 0 |-> m]
  <2>1. g = [p \in 0 .. 0 |->
              IF p = 0 THEN m ELSE Put(g[p - 1], Bumped(g[p - 1], batch[p]))]
    OBVIOUS
  <2> HIDE DEF g
  <2> QED BY <2>1
<1>2. ASSUME NEW i \in Nat, i \in S PROVE i + 1 \in S
  <2>1. PICK g : Part(i, g)
    BY <1>2
  <2> DEFINE h == [p \in 0 .. i + 1 |->
                    IF p = i + 1 THEN Put(g[i], Bumped(g[i], batch[i + 1])) ELSE g[p]]
  <2>2. h = [p \in 0 .. i + 1 |->
              IF p = 0 THEN m ELSE Put(h[p - 1], Bumped(h[p - 1], batch[p]))]
    <3>1. ASSUME NEW p \in 0 .. i + 1
          PROVE  h[p] = IF p = 0 THEN m ELSE Put(h[p - 1], Bumped(h[p - 1], batch[p]))
      <4>1. CASE p = i + 1
        <5>1. p # 0 /\ p - 1 = i /\ i \in 0 .. i + 1 /\ i # i + 1
          BY <4>1
        <5>2. h[p - 1] = g[i] /\ h[p] = Put(g[i], Bumped(g[i], batch[p]))
          BY <4>1, <5>1
        <5> HIDE DEF h
        <5> QED BY <5>1, <5>2
      <4>2. CASE p # i + 1
        <5>1. p \in 0 .. i /\ h[p] = g[p]
          BY <4>2
        <5>2. g[p] = IF p = 0 THEN m ELSE Put(g[p - 1], Bumped(g[p - 1], batch[p]))
          BY <2>1, <5>1
        <5>3. p # 0 => p - 1 \in 0 .. i + 1 /\ p - 1 # i + 1
          BY <5>1
        <5>4. p # 0 => h[p - 1] = g[p - 1]
          BY <5>3
        <5> HIDE DEF h
        <5> QED BY <5>1, <5>2, <5>4
      <4> QED BY <4>1, <4>2
    <3>2. DOMAIN h = 0 .. i + 1 /\ h = [p \in 0 .. i + 1 |-> h[p]]
      OBVIOUS
    <3> HIDE DEF h
    <3> QED BY <3>1, <3>2
  <2> HIDE DEF h
  <2> QED BY <2>2
<1> HIDE DEF S
<1>3. Nat \subseteq S
  BY <1>1, <1>2, Inductive
<1> QED BY <1>3 DEF S, Way

(* BulkStore puts in the facts of the batch, and nothing else. *)
LEMMA BulkIs ==
  ASSUME NEW m, Sound(m), NEW batch \in Seq(Facts), day \in 0 .. MaxDay
  PROVE  Bulked(BulkStore(m, batch), m, batch, Len(batch))
<1> DEFINE g == CHOOSE h : Way(m, batch, h)
<1>1. PICK l \in Nat : l = Len(batch)
  OBVIOUS
<1>2. Way(m, batch, g)
  BY WayExists
<1>3. BulkStore(m, batch) = g[Len(batch)]
  BY DEF BulkStore, Way
<1> HIDE DEF g
<1>4. /\ g[0] = m
      /\ \A i \in Nat : i < l => g[i + 1] = Put(g[i], Bumped(g[i], batch[i + 1]))
  BY <1>1, <1>2 DEF Way
<1> DEFINE S == {i \in Nat : i <= l => Bulked(g[i], m, batch, i)}
<1>5. 0 \in S
  <2>1. 1 .. 0 = {}
    OBVIOUS
  <2>2. Bulked(m, m, batch, 0)
    BY <2>1 DEF Bulked
  <2> QED BY <1>4, <2>2
<1>6. ASSUME NEW i \in Nat, i \in S PROVE i + 1 \in S
  <2>1. SUFFICES ASSUME i + 1 <= l PROVE Bulked(g[i + 1], m, batch, i + 1)
    OBVIOUS
  <2>2. i < Len(batch) /\ Bulked(g[i], m, batch, i)
    BY <1>1, <1>6, <2>1
  <2>3. Bulked(Put(g[i], Bumped(g[i], batch[i + 1])), m, batch, i + 1)
    BY <2>2, BulkedMore
  <2> QED BY <1>1, <1>4, <2>2, <2>3
<1> HIDE DEF S
<1>7. Nat \subseteq S
  BY <1>5, <1>6, Inductive
<1> QED BY <1>1, <1>3, <1>7 DEF S

(* What fades stays in range. *)
LEMMA DecayedIs ==
  ASSUME NEW it \in ItemType, day \in Nat
  PROVE  Decayed(it) \in 1 .. Full /\ Low(it) \in 1 .. Full /\ Low(it) <= Decayed(it)
<1>1. it.at \in Int /\ it.conf \in 1 .. Full
  BY MemoryAssumption DEF ItemType
<1>2. PICK e \in Int : e = it.conf - 1 - Fade * (day - it.at)
  BY <1>1 DEF Full, Fade
<1>3. Max({Floor, e}) = IF Floor >= e THEN Floor ELSE e
  BY <1>2, OfTwo DEF Floor
<1>4. PICK x : x = Decayed(it)
  OBVIOUS
<1>5. x = IF it.at > day THEN it.conf ELSE Max({Floor, e})
  BY <1>2, <1>4 DEF Decayed
<1>6. it.at <= day => e <= Full
  BY <1>1, <1>2 DEF Full, Fade
<1>7. x \in 1 .. Full
  BY <1>1, <1>3, <1>5, <1>6 DEF Full, Floor
<1>8. x \in Int /\ it.conf \in Int
  BY <1>1, <1>7 DEF Full
<1>9. Low(it) = IF it.conf <= x THEN it.conf ELSE x
  BY <1>4, <1>8, OfTwo DEF Low
<1> QED BY <1>1, <1>4, <1>7, <1>8, <1>9

(* From one day to the next, it only fades. *)
LEMMA LowFalls ==
  ASSUME NEW it \in ItemType, day \in Nat, day' = day + 1
  PROVE  Low(it)' \in Int /\ Low(it)' <= Low(it)
<1>1. it.at \in Int /\ it.conf \in 1 .. Full
  BY MemoryAssumption DEF ItemType
<1>2. PICK e \in Int : e = it.conf - 1 - Fade * (day - it.at)
  BY <1>1 DEF Full, Fade
<1>3. PICK d \in Int : d = it.conf - 1 - Fade * (day' - it.at)
  BY <1>1 DEF Full, Fade
<1>4. d <= e
  BY <1>1, <1>2, <1>3 DEF Full, Fade
<1>5. /\ Max({Floor, e}) = IF Floor >= e THEN Floor ELSE e
      /\ Max({Floor, d}) = IF Floor >= d THEN Floor ELSE d
  BY OfTwo DEF Floor
<1>6. Decayed(it) = IF it.at > day THEN it.conf ELSE Max({Floor, e})
  BY <1>2 DEF Decayed
<1>7. Decayed(it)' = IF it.at > day' THEN it.conf ELSE Max({Floor, d})
  BY <1>3 DEF Decayed
<1>8. PICK x, y \in Int : x = Decayed(it) /\ y = Decayed(it)'
  BY <1>1, <1>5, <1>6, <1>7 DEF Full, Floor
<1>9. it.conf \in Int
  BY <1>1 DEF Full
<1>10. /\ Low(it) = IF it.conf <= x THEN it.conf ELSE x
       /\ Low(it)' = IF it.conf <= y THEN it.conf ELSE y
  BY <1>8, <1>9, OfTwo DEF Low
<1>11. it.at <= day => y <= x
  BY <1>1, <1>4, <1>5, <1>6, <1>7, <1>8 DEF Floor
<1>12. it.at > day => x = it.conf
  BY <1>6, <1>8
<1> QED BY <1>8, <1>9, <1>10, <1>11, <1>12, <1>1

(* A confidence given is brought in range. *)
LEMMA ClampIs ==
  ASSUME NEW c \in Int
  PROVE  Clamp(c) \in 1 .. Full
<1>1. Min({c, Full}) = IF c <= Full THEN c ELSE Full
  BY OfTwo DEF Full
<1> QED BY <1>1 DEF Clamp, Full, Half

(* What justifies a winner. *)
LEMMA JustifiedIs ==
  ASSUME NEW f, NEW h, f.seen = {h},
         \A it \in h : SemanticMatch(it.value, f.value) \/ f.conf >= Low(it) + Gap
  PROVE  Justified(f)
BY Zenon DEF Justified

(* The winner is a fact of the candidate's name, and justified. *)
LEMMA ResolvedIs ==
  ASSUME NEW m, Sound(m), NEW c \in Candidates, day \in Nat
  PROVE  Resolved(m, c) \in Facts /\ Justified(Resolved(m, c))
<1>1. /\ c.name \in Names /\ c.spelling \in {"normal", "other"} /\ c.value \in Values
      /\ Clamp(c.conf) \in 1 .. Full
  BY ClampIs DEF Candidates
<1>2. PICK h : h = Held(m, c.name)
  OBVIOUS
<1>3. h \in SUBSET ItemType
  BY <1>2, Found DEF Held
<1>4. PICK ver : ver = IF Has(m, c.name) THEN Get(m, c.name).version + 1 ELSE 1
  OBVIOUS
<1>5. PICK new : new = [name |-> c.name, spelling |-> c.spelling, value |-> c.value,
                        version |-> ver, conf |-> Clamp(c.conf), seen |-> {h}]
  OBVIOUS
<1>6. CASE ~Has(m, c.name)
  <2>1. Resolved(m, c) = new /\ h = {} /\ ver = 1
    BY <1>2, <1>4, <1>5, <1>6 DEF Resolved, Held
  <2>2. new \in Facts
    BY <1>1, <1>3, <1>5, <2>1 DEF Facts
  <2>3. Justified(new)
    BY <1>5, <2>1, JustifiedIs
  <2> QED BY <2>1, <2>2, <2>3
<1>7. CASE Has(m, c.name)
  <2>1. PICK old \in ItemType : old = Get(m, c.name)
    BY <1>7, Found
  <2>2. /\ old.value \in Values /\ old.version \in Nat \ {0} /\ ver \in Nat \ {0}
    BY <1>4, <1>7, <2>1 DEF ItemType
  <2>3. PICK d \in 1 .. Full : d = Decayed(old) /\ Low(old) <= d /\ Low(old) \in Int
    BY DecayedIs DEF Full
  <2>4. h = {old}
    BY <1>2, <1>7, <2>1 DEF Held
  <2>5. CASE SemanticMatch(old.value, c.value)
    <3>1. PICK t : t = Min({Full, d + Step})
      OBVIOUS
    <3>2. t \in 1 .. Full
      <4>1. PICK e \in Int : e = d + Step /\ e >= 1
        BY DEF Full, Step
      <4>2. t = IF Full <= e THEN Full ELSE e
        BY <3>1, <4>1, OfTwo DEF Full
      <4> QED BY <4>1, <4>2 DEF Full
    <3>3. Resolved(m, c) = [name |-> c.name, spelling |-> "normal", value |-> c.value,
                            version |-> ver, conf |-> t, seen |-> {h}]
      BY <1>2, <1>4, <1>5, <1>7, <2>1, <2>3, <2>5, <3>1 DEF Resolved
    <3>4. Resolved(m, c) \in Facts
      BY <1>1, <1>3, <2>2, <3>2, <3>3 DEF Facts
    <3>5. Justified(Resolved(m, c))
      BY <2>4, <2>5, <3>3, JustifiedIs
    <3> QED BY <3>4, <3>5
  <2>6. CASE ~SemanticMatch(old.value, c.value) /\ new.conf - d >= Gap
    <3>1. Resolved(m, c) = new
      BY <1>2, <1>4, <1>5, <1>7, <2>1, <2>3, <2>6 DEF Resolved
    <3>2. new \in Facts
      BY <1>1, <1>3, <1>5, <2>2 DEF Facts
    <3>3. new.conf >= Low(old) + Gap
      BY <1>1, <1>5, <2>3, <2>6 DEF Gap, Full
    <3>4. Justified(new)
      BY <1>5, <2>4, <3>3, JustifiedIs
    <3> QED BY <3>1, <3>2, <3>4
  <2>7. CASE ~SemanticMatch(old.value, c.value) /\ ~(new.conf - d >= Gap)
    <3>1. Resolved(m, c) = [name |-> c.name, spelling |-> "normal", value |-> old.value,
                            version |-> old.version, conf |-> d, seen |-> {h}]
      BY <1>2, <1>4, <1>5, <1>7, <2>1, <2>3, <2>7 DEF Resolved
    <3>2. Resolved(m, c) \in Facts
      BY <1>1, <1>3, <2>2, <2>3, <3>1 DEF Facts
    <3>3. Justified(Resolved(m, c))
      <4>1. PICK r : r = Resolved(m, c)
        OBVIOUS
      <4>2. r.seen = {h} /\ r.value = old.value
        BY <3>1, <4>1
      <4>3. \A it \in h : SemanticMatch(it.value, r.value)
        BY <2>4, <4>2 DEF SemanticMatch
      <4>4. Justified(r)
        BY <4>2, <4>3, JustifiedIs
      <4> QED BY <4>1, <4>4
    <3> QED BY <3>2, <3>3
  <2> QED BY <2>5, <2>6, <2>7
<1> QED BY <1>6, <1>7

(* A winner let through, with what it was deduplicated against, is sure.    *)
LEMMA LetThrough ==
  ASSUME NEW m, NEW f \in Facts, Justified(f), NEW done, ~Duplicate(m, f, done), Sound(m)
  PROVE  LET g == [f EXCEPT !.seen = @ \cup {Held(m, f.name)}] IN
         g \in Facts /\ Accepted(g)
<1>1. PICK h : /\ f.seen = {h}
               /\ \A it \in h : SemanticMatch(it.value, f.value) \/ f.conf >= Low(it) + Gap
  BY DEF Justified
<1>2. PICK k : k = Held(m, f.name)
  OBVIOUS
<1>3. k \in SUBSET ItemType
  BY <1>2, Found DEF Held
<1>4. \A it \in k : ~SemanticMatch(it.value, f.value)
  BY <1>2 DEF Held, Duplicate
<1>5. PICK g : g = [f EXCEPT !.seen = @ \cup {k}]
  OBVIOUS
<1>6. /\ g = [name |-> f.name, spelling |-> f.spelling, value |-> f.value,
              version |-> f.version, conf |-> f.conf, seen |-> f.seen \cup {k}]
      /\ f.name \in Names /\ f.spelling \in {"normal", "other"} /\ f.value \in Values
      /\ f.version \in Nat \ {0} /\ f.conf \in 1 .. Full /\ f.seen \in SUBSET SUBSET ItemType
  BY <1>5 DEF Facts
<1>7. g \in Facts
  BY <1>3, <1>6 DEF Facts
<1>8. g.value = f.value /\ g.conf = f.conf /\ g.seen = {h, k}
  BY <1>1, <1>6
<1>9. Accepted(g)
  BY <1>1, <1>4, <1>8 DEF Accepted
<1> QED BY <1>2, <1>5, <1>7, <1>9
-----------------------------------------------------------------------------
(* The index and the file. *)

(* No item is in the file twice. *)
Distinct(s) == \A p, q \in 1 .. Len(s) : s[p].name = s[q].name => p = q
FileOk == file \in Seq(ItemType) /\ Distinct(file)

(* The only one is the greatest. *)
LEMMA OfOne ==
  ASSUME NEW a \in Int
  PROVE  Max({a}) = a
BY DEF Max

(* The index of a memory is the one rebuildIndex makes, of as many names as *)
(* there are items.                                                         *)
LEMMA IndexIs ==
  ASSUME NEW m, Sound(m)
  PROVE  m.index = IndexOf(m.items) /\ Cardinality(DOMAIN m.index) = Len(m.items)
<1>1. PICK s, x : m = [items |-> s, index |-> x] /\ Exact(s, x)
  BY Parts
<1>2. PICK l \in Nat : l = Len(s) /\ DOMAIN s = 1 .. l
  BY <1>1 DEF Exact
<1>3. /\ x = [n \in DOMAIN x |-> x[n]]
      /\ \A n \in DOMAIN x : x[n] \in 1 .. l /\ s[x[n]].name = n
      /\ \A p \in 1 .. l : s[p].name \in DOMAIN x /\ x[s[p].name] = p
  BY <1>1, <1>2 DEF Exact
<1>4. DOMAIN x = {s[p].name : p \in 1 .. l}
  BY <1>3
<1>5. ASSUME NEW n \in DOMAIN x PROVE Max({p \in 1 .. l : s[p].name = n}) = x[n]
  <2>1. {p \in 1 .. l : s[p].name = n} = {x[n]} /\ x[n] \in Int
    BY <1>3
  <2> QED BY <2>1, OfOne
<1>6. IndexOf(s) = [n \in {s[p].name : p \in 1 .. l} |-> Max({p \in 1 .. l : s[p].name = n})]
  BY <1>2 DEF IndexOf
<1>7. IndexOf(s) = [n \in DOMAIN x |-> x[n]]
  BY <1>4, <1>5, <1>6
<1> DEFINE f == [p \in 1 .. l |-> s[p].name]
<1>8. f \in Injection(1 .. l, DOMAIN x)
  BY <1>3 DEF Injection, IsInjective
<1>9. f \in Surjection(1 .. l, DOMAIN x)
  BY <1>3, <1>4 DEF Surjection
<1>10. IsFiniteSet(1 .. l) /\ Cardinality(1 .. l) = l
  BY FS_Interval
<1>11. Cardinality(DOMAIN x) = l
  BY <1>8, <1>9, <1>10, FS_Surjection
<1> QED BY <1>1, <1>2, <1>3, <1>7, <1>11

(* What is written holds every item once. *)
LEMMA WrittenIs ==
  ASSUME NEW m, Sound(m)
  PROVE  /\ Grouped(m.items) \in Seq(ItemType) /\ Distinct(Grouped(m.items))
         /\ \A n \in DOMAIN m.index :
              \E p \in 1 .. Len(Grouped(m.items)) : Grouped(m.items)[p] = Get(m, n)
<1>1. PICK s, x : m = [items |-> s, index |-> x] /\ Exact(s, x)
  BY Parts
<1>2. PICK l \in Nat : l = Len(s) /\ DOMAIN s = 1 .. l
  BY <1>1 DEF Exact
<1>3. /\ \A n \in DOMAIN x : x[n] \in 1 .. l /\ s[x[n]].name = n
      /\ \A p \in 1 .. l : s[p] \in ItemType /\ s[p].name \in DOMAIN x /\ x[s[p].name] = p
  BY <1>1, <1>2 DEF Exact
<1>4. PICK c : Places(c, s, l)
  BY <1>2, GroupedIs
<1>5. PICK g : g = Grouped(s)
  OBVIOUS
<1>6. g \in Seq(ItemType) /\ Len(g) = l /\ \A k \in 1 .. l : g[k] = s[c[k]] /\ c[k] \in 1 .. l
  <2>1. \A k \in 1 .. l : c[k] \in 1 .. l /\ s[c[k]] \in ItemType
    BY <1>3, <1>4 DEF Places
  <2> QED BY <1>4, <1>5, <2>1 DEF Places
<1>7. Distinct(g)
  <2>1. ASSUME NEW p \in 1 .. l, NEW q \in 1 .. l, g[p].name = g[q].name PROVE p = q
    <3>1. c[p] = c[q]
      <4>1. g[p] = s[c[p]] /\ g[q] = s[c[q]]
        BY <1>6
      <4>2. c[p] \in 1 .. l /\ c[q] \in 1 .. l
        BY <1>6
      <4>3. x[s[c[p]].name] = c[p] /\ x[s[c[q]].name] = c[q]
        BY <1>3, <4>2
      <4> QED BY <2>1, <4>1, <4>3
    <3> QED BY <1>4, <3>1 DEF Places
  <2> QED BY <1>6, <2>1 DEF Distinct
<1>8. ASSUME NEW n \in DOMAIN x PROVE \E p \in 1 .. l : g[p] = s[x[n]]
  <2>1. PICK k \in 1 .. l : c[k] = x[n]
    BY <1>3, <1>4 DEF Places
  <2> QED BY <1>6, <2>1
<1>9. \A n \in DOMAIN m.index : Get(m, n) = s[x[n]] /\ n \in DOMAIN x
  BY <1>1 DEF Get
<1> QED BY <1>1, <1>5, <1>6, <1>7, <1>8, <1>9

(* What is read back of an item is an item of its name. *)
LEMMA ParsedIs ==
  ASSUME NEW it \in ItemType, NEW ahead \in BOOLEAN, day \in 0 .. MaxDay
  PROVE  /\ Parsed(it, ahead) \in ItemType
         /\ Parsed(it, ahead).name = it.name /\ Parsed(it, ahead).value = Reload[it.value]
<1>1. PICK ver, c, t :
        /\ ver = IF Reload[it.value] = it.value THEN it.version ELSE 1
        /\ c = IF Reload[it.value] = it.value THEN it.conf ELSE Full
        /\ t = IF it.at = day /\ ahead /\ Reload[it.value] = it.value THEN day + 1 ELSE it.at
  OBVIOUS
<1>2. /\ it.name \in Names /\ it.value \in Values /\ it.version \in Nat \ {0}
      /\ it.conf \in 1 .. Full /\ it.at \in 0 .. MaxDay + 1
      /\ it = [name |-> it.name, value |-> it.value, version |-> it.version,
               conf |-> it.conf, at |-> it.at]
  BY DEF ItemType
<1>3. Parsed(it, ahead) = [name |-> it.name, value |-> Reload[it.value], version |-> ver,
                           conf |-> c, at |-> t]
  <2>1. Parsed(it, ahead) = [it EXCEPT !.value = Reload[it.value], !.version = ver, !.conf = c,
                                       !.at = t]
    BY <1>1, Zenon DEF Parsed
  <2> QED BY <1>2, <2>1
<1>4. Reload[it.value] \in Values
  BY <1>2, MemoryAssumption
<1>5. ver \in Nat \ {0}
  BY <1>1, <1>2
<1>6. c \in 1 .. Full
  BY <1>1, <1>2 DEF Full
<1>7. t \in 0 .. MaxDay + 1
  BY <1>1, <1>2, MemoryAssumption
<1> QED BY <1>2, <1>3, <1>4, <1>5, <1>6, <1>7 DEF ItemType

(* What is loaded answers with what the file holds. *)
LEMMA LoadedIs ==
  ASSUME FileOk, NEW ahead \in BOOLEAN, day \in 0 .. MaxDay
  PROVE  /\ Sound(Loaded(ahead))
         /\ DOMAIN Loaded(ahead).index = {file[p].name : p \in DOMAIN file}
         /\ \A p \in 1 .. Len(file) : /\ Has(Loaded(ahead), file[p].name)
                                      /\ Get(Loaded(ahead), file[p].name) = Parsed(file[p], ahead)
<1>1. PICK l \in Nat : l = Len(file) /\ DOMAIN file = 1 .. l
  BY DEF FileOk
<1>2. \A p \in 1 .. l : file[p] \in ItemType
  BY <1>1 DEF FileOk
<1>3. \A p, q \in 1 .. l : file[p].name = file[q].name => p = q
  BY <1>1 DEF FileOk, Distinct
<1> DEFINE s == [p \in 1 .. l |-> Parsed(file[p], ahead)]
           x == IndexOf(s)
<1>4. Loaded(ahead) = [items |-> s, index |-> x]
  BY <1>1 DEF Loaded
<1>5. \A p \in 1 .. l : s[p] = Parsed(file[p], ahead) /\ s[p] \in ItemType /\ s[p].name = file[p].name
  BY <1>2, ParsedIs
<1>6. s \in Seq(ItemType) /\ Len(s) = l /\ DOMAIN s = 1 .. l
  BY <1>5
<1> HIDE DEF s
<1>7. x = [n \in {s[p].name : p \in 1 .. l} |-> Max({p \in 1 .. l : s[p].name = n})]
  BY <1>6 DEF IndexOf
<1>8. DOMAIN x = {s[p].name : p \in 1 .. l}
  BY <1>7
<1>9. ASSUME NEW p \in 1 .. l PROVE s[p].name \in DOMAIN x /\ x[s[p].name] = p
  <2>1. {q \in 1 .. l : s[q].name = s[p].name} = {p} /\ p \in Int
    BY <1>3, <1>5
  <2>2. Max({q \in 1 .. l : s[q].name = s[p].name}) = p
    BY <2>1, OfOne
  <2> QED BY <1>7, <1>8, <2>2
<1> HIDE DEF x
<1>10. \A n \in DOMAIN x : x[n] \in 1 .. l /\ s[x[n]].name = n
  BY <1>8, <1>9
<1>11. x \in [DOMAIN x -> 1 .. l]
  BY <1>7, <1>8, <1>10
<1>12. Sound(Loaded(ahead))
  <2>1. Exact(s, x)
    BY <1>6, <1>9, <1>10, <1>11 DEF Exact
  <2> QED BY <1>4, <2>1, Whole
<1>13. DOMAIN Loaded(ahead).index = {file[p].name : p \in DOMAIN file}
  BY <1>1, <1>4, <1>5, <1>8
<1>14. ASSUME NEW p \in 1 .. l
       PROVE  /\ Has(Loaded(ahead), file[p].name)
              /\ Get(Loaded(ahead), file[p].name) = Parsed(file[p], ahead)
  <2>1. file[p].name = s[p].name /\ s[p] = Parsed(file[p], ahead)
    BY <1>5
  <2>2. s[p].name \in DOMAIN x /\ x[s[p].name] = p
    BY <1>9
  <2> QED BY <1>4, <2>1, <2>2 DEF Has, Get
<1> QED BY <1>1, <1>12, <1>13, <1>14
-----------------------------------------------------------------------------
(* What always holds. *)

(* The winners, and those that go to the store. *)
Winners == {f \in Facts : Justified(f)}
Stored == {f \in Facts : Accepted(f)}

(* What each stage of a run has in hand. *)
RunOk(r) ==
  \/ r = NoRun
  \/ /\ r.stage = "resolve" /\ r.todo \in Seq(Candidates) /\ r.todo # <<>>
     /\ r.done \in Seq(Winners)
  \/ /\ r.stage = "dedup" /\ r.todo \in Seq(Winners) /\ r.todo # <<>>
     /\ r.done \in Seq(Stored)
  \/ r.stage = "store" /\ r.todo \in Seq(Stored)

(* What Get answered is what the item it found says. *)
Readings ==
  {g \in [name : Names, scored : Values, seen : SUBSET ItemType, value : Values] :
     \A it \in g.seen : g.value = it.value}
DreamType ==
  [stage : {"awake", "deep", "got"}, seen : SUBSET ItemType, left : Int, got : SUBSET Readings]

Types ==
  /\ day \in 0 .. MaxDay /\ failures \in Nat /\ restarts \in Nat
  /\ dream \in [Loops -> DreamType]
  /\ rebuilds \in [Loops -> [waiting : Nat, read : SUBSET SUBSET Names]]
  /\ docs \subseteq Names
  /\ lag \in [Loops -> BOOLEAN] /\ said \in [Loops -> [Names -> Values \cup {None}]]
  /\ odd \in [Loops -> SUBSET Names] /\ unindexed \in [Loops -> SUBSET Names]

Memories == mem = [l \in Loops |-> mem[l]] /\ \A l \in Loops : Sound(mem[l])

(* What the vector index lacks will be read, is read, or was stored by the  *)
(* tools or a dream.                                                        *)
Covered ==
  failures = 0 =>
    \A l \in Loops :
      rebuilds[l].waiting > 0
      \/ DOMAIN mem[l].index \subseteq docs \cup unindexed[l] \cup UNION rebuilds[l].read

Runs == pipe = [l \in Loops |-> pipe[l]] /\ \A l \in Loops : RunOk(pipe[l])

MemInv ==
  /\ Types /\ Memories /\ FileOk /\ DiskFollows /\ Covered /\ Runs /\ AgentsWord

(* A write of l changes its memory only, and MEMORY.md follows or lags. *)
LEMMA Commits ==
  ASSUME MemInv, NEW l \in Loops, NEW m, Sound(m), Commit(l, m)
  PROVE  /\ Memories' /\ FileOk' /\ DiskFollows'
         /\ mem'[l] = m /\ \A k \in Loops \ {l} : mem'[k] = mem[k]
         /\ lag' \in [Loops -> BOOLEAN] /\ failures' \in Nat
         /\ failures' = 0 => failures = 0 /\ Written(l, m)
<1>1. /\ Memories /\ FileOk /\ DiskFollows /\ lag \in [Loops -> BOOLEAN] /\ failures \in Nat
  BY DEF MemInv, Types
<1>2. mem' = [mem EXCEPT ![l] = m]
  BY DEF Commit
<1>3. /\ mem' = [k \in Loops |-> mem'[k]]
      /\ mem'[l] = m /\ \A k \in Loops \ {l} : mem'[k] = mem[k]
  BY <1>1, <1>2 DEF Memories
<1>4. Memories'
  BY <1>1, <1>3 DEF Memories
<1>5. CASE m = mem[l] /\ UNCHANGED <<file, owner, lag, failures>>
  <2>1. \A k \in Loops : mem'[k] = mem[k]
    BY <1>3, <1>5
  <2>2. FileOk'
    BY <1>1, <1>5 DEF FileOk, Distinct
  <2>3. DiskFollows'
    BY <1>1, <1>5, <2>1 DEF DiskFollows
  <2> QED BY <1>1, <1>3, <1>4, <1>5, <2>2, <2>3 DEF Written
<1>6. CASE /\ file' = Grouped(m.items) /\ owner' = l /\ lag' = [lag EXCEPT ![l] = FALSE]
           /\ UNCHANGED failures
  <2>1. FileOk'
    BY <1>6, WrittenIs DEF FileOk, Distinct
  <2>2. DiskFollows'
    BY <1>3, <1>6 DEF DiskFollows
  <2>3. lag' \in [Loops -> BOOLEAN] /\ ~lag'[l]
    BY <1>1, <1>6
  <2> QED BY <1>1, <1>3, <1>4, <1>6, <2>1, <2>2, <2>3 DEF Written
<1>7. CASE Failure /\ lag' = [lag EXCEPT ![l] = TRUE] /\ UNCHANGED <<file, owner>>
  <2>1. FileOk'
    BY <1>1, <1>7 DEF FileOk, Distinct
  <2>2. lag' \in [Loops -> BOOLEAN] /\ lag'[l] /\ \A k \in Loops \ {l} : lag'[k] = lag[k]
    BY <1>1, <1>7
  <2>3. DiskFollows'
    BY <1>1, <1>3, <1>7, <2>2 DEF DiskFollows
  <2>4. failures' \in Nat /\ failures' # 0
    BY <1>1, <1>7 DEF Failure
  <2> QED BY <1>3, <1>4, <2>1, <2>2, <2>3, <2>4
<1> QED BY <1>5, <1>6, <1>7 DEF Commit

(* When nothing is written, nothing changes there. *)
LEMMA Unwritten ==
  ASSUME MemInv, UNCHANGED ltmVars
  PROVE  Memories' /\ FileOk' /\ DiskFollows' /\ lag' \in [Loops -> BOOLEAN]
BY DEF MemInv, Types, ltmVars, Memories, FileOk, Distinct, DiskFollows

(* What a batch of winners is made of. *)
LEMMA BatchIs ==
  ASSUME MemInv, NEW l \in Loops, pipe[l].stage = "store"
  PROVE  pipe[l].todo \in Seq(Stored) /\ pipe[l].todo \in Seq(Facts)
<1>1. pipe[l].todo \in Seq(Stored)
  <2>1. RunOk(pipe[l])
    BY DEF MemInv, Runs
  <2> QED BY <2>1 DEF RunOk, NoRun
<1> QED BY <1>1 DEF Stored

(* Every step keeps the memories sound, and the file in step. *)
LEMMA MemoriesKept ==
  ASSUME MemInv, [Next]_vars
  PROVE  Memories' /\ FileOk' /\ DiskFollows' /\ lag' \in [Loops -> BOOLEAN]
<1>1. ASSUME NEW l \in Loops, NEW n \in Names, NEW v \in Told, MemoryStore(l, n, v)
      PROVE  Memories' /\ FileOk' /\ DiskFollows' /\ lag' \in [Loops -> BOOLEAN]
  <2>1. v \in Values /\ day \in 0 .. MaxDay /\ Sound(mem[l])
    BY MemoryAssumption DEF MemInv, Types, Memories
  <2>2. Sound(Store(mem[l], n, v))
    BY <2>1, StoreIs DEF PutIn
  <2> QED BY <1>1, <2>2, Commits DEF MemoryStore
<1>2. ASSUME NEW l \in Loops, NEW n \in Names, MemoryRemove(l, n)
      PROVE  Memories' /\ FileOk' /\ DiskFollows' /\ lag' \in [Loops -> BOOLEAN]
  <2>1. Sound(Removed(mem[l], n))
    BY RemovedIs DEF MemInv, Memories
  <2> QED BY <1>2, <2>1, Commits DEF MemoryRemove
<1>3. ASSUME NEW l \in Loops, NEW b \in Batches, Extract(l, b)
      PROVE  Memories' /\ FileOk' /\ DiskFollows' /\ lag' \in [Loops -> BOOLEAN]
  BY <1>3, Unwritten DEF Extract
<1>4. ASSUME NEW l \in Loops, Resolve(l)
      PROVE  Memories' /\ FileOk' /\ DiskFollows' /\ lag' \in [Loops -> BOOLEAN]
  BY <1>4, Unwritten DEF Resolve
<1>5. ASSUME NEW l \in Loops, Dedup(l)
      PROVE  Memories' /\ FileOk' /\ DiskFollows' /\ lag' \in [Loops -> BOOLEAN]
  BY <1>5, Unwritten DEF Dedup
<1>6. ASSUME NEW l \in Loops, StoreBatch(l)
      PROVE  Memories' /\ FileOk' /\ DiskFollows' /\ lag' \in [Loops -> BOOLEAN]
  <2>1. pipe[l].todo \in Seq(Facts) /\ day \in 0 .. MaxDay /\ Sound(mem[l])
    BY <1>6, BatchIs DEF MemInv, Types, Memories, StoreBatch
  <2>2. Sound(BulkStore(mem[l], pipe[l].todo))
    BY <2>1, BulkIs DEF Bulked
  <2> QED BY <1>6, <2>2, Commits DEF StoreBatch
<1>7. ASSUME NEW l \in Loops, ReadItems(l)
      PROVE  Memories' /\ FileOk' /\ DiskFollows' /\ lag' \in [Loops -> BOOLEAN]
  BY <1>7, Unwritten DEF ReadItems
<1>8. ASSUME NEW l \in Loops, NEW names \in rebuilds[l].read, Upsert(l, names)
      PROVE  Memories' /\ FileOk' /\ DiskFollows' /\ lag' \in [Loops -> BOOLEAN]
  BY <1>8, Unwritten DEF Upsert
<1>9. ASSUME NEW l \in Loops, LightSleep(l)
      PROVE  Memories' /\ FileOk' /\ DiskFollows' /\ lag' \in [Loops -> BOOLEAN]
  BY <1>9, Unwritten DEF LightSleep
<1>10. ASSUME NEW l \in Loops, Awake(l)
      PROVE  Memories' /\ FileOk' /\ DiskFollows' /\ lag' \in [Loops -> BOOLEAN]
  BY <1>10, Unwritten DEF Awake
<1>11. ASSUME NEW l \in Loops, NEW it \in dream[l].seen, PromoteGet(l, it)
      PROVE  Memories' /\ FileOk' /\ DiskFollows' /\ lag' \in [Loops -> BOOLEAN]
  BY <1>11, Unwritten DEF PromoteGet
<1>12. ASSUME NEW l \in Loops, NEW got \in dream[l].got, PromoteStore(l, got)
      PROVE  Memories' /\ FileOk' /\ DiskFollows' /\ lag' \in [Loops -> BOOLEAN]
  <2>1. got.name \in Names /\ got.value \in Values /\ day \in 0 .. MaxDay /\ Sound(mem[l])
    BY DEF MemInv, Types, Memories, DreamType, Readings
  <2>2. Sound(Store(mem[l], got.name, got.value))
    BY <2>1, StoreIs DEF PutIn
  <2> QED BY <1>12, <2>2, Commits DEF PromoteStore
<1>13. ASSUME NEW l \in Loops, NEW it \in dream[l].seen, DeprecateItem(l, it)
      PROVE  Memories' /\ FileOk' /\ DiskFollows' /\ lag' \in [Loops -> BOOLEAN]
  <2>1. Sound(Removed(mem[l], it.name))
    BY RemovedIs DEF MemInv, Memories
  <2> QED BY <1>13, <2>1, Commits DEF DeprecateItem
<1>14. ASSUME NEW l \in Loops, NEW ins \in Insights, StoreInsight(l, ins)
      PROVE  Memories' /\ FileOk' /\ DiskFollows' /\ lag' \in [Loops -> BOOLEAN]
  <2>1. ins.name \in Names /\ ins.value \in Values /\ day \in 0 .. MaxDay /\ Sound(mem[l])
    BY MemoryAssumption DEF MemInv, Types, Memories
  <2>2. Sound(Store(mem[l], ins.name, ins.value))
    BY <2>1, StoreIs DEF PutIn
  <2> QED BY <1>14, <2>2, Commits DEF StoreInsight
<1>15. ASSUME Day
      PROVE  Memories' /\ FileOk' /\ DiskFollows' /\ lag' \in [Loops -> BOOLEAN]
  BY <1>15, Unwritten DEF Day
<1>16. ASSUME NEW gone \in SUBSET Loops, NEW ahead \in BOOLEAN, Restart(gone, ahead)
      PROVE  Memories' /\ FileOk' /\ DiskFollows' /\ lag' \in [Loops -> BOOLEAN]
  <2>1. Sound(Loaded(ahead)) /\ Memories /\ FileOk /\ lag \in [Loops -> BOOLEAN]
    BY LoadedIs DEF MemInv, Types
  <2>2. Memories'
    BY <1>16, <2>1 DEF Restart, Memories
  <2>3. FileOk'
    BY <1>16, <2>1 DEF Restart, FileOk, Distinct
  <2>4. lag' \in [Loops -> BOOLEAN]
    BY <1>16, <2>1 DEF Restart
  <2>5. DiskFollows'
    <3>1. ASSUME NEW l \in Loops, owner' = l, ~lag'[l] PROVE file' = Grouped(mem'[l].items)
      <4>1. owner = l /\ l \notin gone
        BY <1>16, <3>1, MemoryAssumption DEF Restart
      <4>2. ~lag[l] /\ mem'[l] = mem[l] /\ file' = file
        BY <1>16, <3>1, <4>1 DEF Restart
      <4> QED BY <4>1, <4>2 DEF MemInv, DiskFollows
    <3> QED BY <3>1 DEF DiskFollows
  <2> QED BY <2>2, <2>3, <2>4, <2>5
<1>17. ASSUME UNCHANGED vars
      PROVE  Memories' /\ FileOk' /\ DiskFollows' /\ lag' \in [Loops -> BOOLEAN]
  BY <1>17, Unwritten DEF vars, ltmVars
<1> QED BY <1>1, <1>2, <1>3, <1>4, <1>5, <1>6, <1>7, <1>8, <1>9, <1>10, <1>11,
  <1>12, <1>13, <1>14, <1>15, <1>16, <1>17 DEF Next

(* What the steps of a dream leave of it. *)
LEMMA DreamsAre ==
  /\ NoDream \in DreamType
  /\ \A s \in SUBSET ItemType :
       [stage |-> "deep", seen |-> s, left |-> MaxScores, got |-> {}] \in DreamType
  /\ \A f \in [Loops -> DreamType], l \in Loops :
       /\ [f EXCEPT ![l].stage = "deep", ![l].left = @ - 1, ![l].got = {}] \in [Loops -> DreamType]
       /\ \A g \in Readings :
            [f EXCEPT ![l].stage = "got", ![l].got = {g}] \in [Loops -> DreamType]
<1>1. NoDream \in DreamType
  BY DEF NoDream, DreamType
<1>2. \A s \in SUBSET ItemType :
        [stage |-> "deep", seen |-> s, left |-> MaxScores, got |-> {}] \in DreamType
  <2>1. MaxScores \in Int
    BY MemoryAssumption
  <2> QED BY <2>1 DEF DreamType
<1>3. ASSUME NEW f \in [Loops -> DreamType], NEW l \in Loops
      PROVE  /\ [f EXCEPT ![l].stage = "deep", ![l].left = @ - 1, ![l].got = {}]
                  \in [Loops -> DreamType]
             /\ \A g \in Readings :
                  [f EXCEPT ![l].stage = "got", ![l].got = {g}] \in [Loops -> DreamType]
  <2>1. /\ f[l].left - 1 \in Int /\ f[l].seen \in SUBSET ItemType /\ f[l].left \in Int
        /\ f[l] = [stage |-> f[l].stage, seen |-> f[l].seen, left |-> f[l].left, got |-> f[l].got]
    BY DEF DreamType
  <2>2. [stage |-> "deep", seen |-> f[l].seen, left |-> f[l].left - 1, got |-> {}] \in DreamType
    BY <2>1 DEF DreamType
  <2>3. \A g \in Readings :
          [stage |-> "got", seen |-> f[l].seen, left |-> f[l].left, got |-> {g}] \in DreamType
    BY <2>1 DEF DreamType
  <2>4. PICK h : h = [f EXCEPT ![l].stage = "deep", ![l].left = @ - 1, ![l].got = {}]
    OBVIOUS
  <2>5. h \in [Loops -> DreamType]
    <3>1. h[l] = [stage |-> "deep", seen |-> f[l].seen, left |-> f[l].left - 1, got |-> {}]
      BY <2>1, <2>4
    <3>2. h = [k \in Loops |-> h[k]] /\ \A k \in Loops \ {l} : h[k] = f[k]
      BY <2>4
    <3> QED BY <2>2, <3>1, <3>2
  <2>6. ASSUME NEW g \in Readings
        PROVE  [f EXCEPT ![l].stage = "got", ![l].got = {g}] \in [Loops -> DreamType]
    <3>1. PICK r : r = [f EXCEPT ![l].stage = "got", ![l].got = {g}]
      OBVIOUS
    <3>2. r[l] = [stage |-> "got", seen |-> f[l].seen, left |-> f[l].left, got |-> {g}]
      BY <2>1, <3>1
    <3>3. r = [k \in Loops |-> r[k]] /\ \A k \in Loops \ {l} : r[k] = f[k]
      BY <3>1
    <3> QED BY <2>3, <3>1, <3>2, <3>3
  <2> QED BY <2>4, <2>5, <2>6
<1> QED BY <1>1, <1>2, <1>3

(* Every step keeps the types. *)
LEMMA TypesKept ==
  ASSUME MemInv, [Next]_vars
  PROVE  Types'
<1>1. ASSUME NEW l \in Loops, NEW n \in Names, NEW v \in Told, MemoryStore(l, n, v)
      PROVE  Types'
  <2>1. lag' \in [Loops -> BOOLEAN] /\ failures' \in Nat
    <3>1. failures' \in Nat
      BY <1>1 DEF MemInv, Types, MemoryStore, Commit, Failure
    <3> QED BY <3>1, MemoriesKept
  <2>2. said' \in [Loops -> [Names -> Values \cup {None}]]
    <3>1. said' = said \/ said' = [said EXCEPT ![l][n] = v]
      BY <1>1 DEF MemoryStore, Says, wordVars
    <3>2. v \in Values \cup {None}
      BY MemoryAssumption
    <3>3. [said EXCEPT ![l][n] = v] \in [Loops -> [Names -> Values \cup {None}]]
      BY <3>2 DEF MemInv, Types
    <3> QED BY <3>1, <3>3 DEF MemInv, Types
  <2>3. odd' \in [Loops -> SUBSET Names] /\ unindexed' \in [Loops -> SUBSET Names]
    BY <1>1 DEF MemInv, Types, MemoryStore, NotIndexed, wordVars
  <2> QED BY <1>1, <2>1, <2>2, <2>3 DEF MemInv, Types, MemoryStore, workVars, indexVars
<1>2. ASSUME NEW l \in Loops, NEW n \in Names, MemoryRemove(l, n)
      PROVE  Types'
  <2>1. lag' \in [Loops -> BOOLEAN] /\ failures' \in Nat
    <3>1. failures' \in Nat
      BY <1>2 DEF MemInv, Types, MemoryRemove, Commit, Failure
    <3> QED BY <3>1, MemoriesKept
  <2>2. said' \in [Loops -> [Names -> Values \cup {None}]]
    BY <1>2 DEF MemInv, Types, MemoryRemove, Says
  <2>3. odd' \in [Loops -> SUBSET Names]
    BY <1>2 DEF MemInv, Types, MemoryRemove
  <2> QED BY <1>2, <2>1, <2>2, <2>3 DEF MemInv, Types, MemoryRemove, workVars, indexVars
<1>3. ASSUME NEW l \in Loops, NEW b \in Batches, Extract(l, b)
      PROVE  Types'
  BY <1>3 DEF MemInv, Types, Extract, Call, ltmVars, indexVars, wordVars
<1>4. ASSUME NEW l \in Loops, Resolve(l)
      PROVE  Types'
  BY <1>4 DEF MemInv, Types, Resolve, ltmVars, indexVars, boundVars, wordVars
<1>5. ASSUME NEW l \in Loops, Dedup(l)
      PROVE  Types'
  BY <1>5 DEF MemInv, Types, Dedup, ltmVars, indexVars, boundVars, wordVars
<1>6. ASSUME NEW l \in Loops, StoreBatch(l)
      PROVE  Types'
  <2>1. lag' \in [Loops -> BOOLEAN] /\ failures' \in Nat
    <3>1. failures' \in Nat
      BY <1>6 DEF MemInv, Types, StoreBatch, Commit, Failure
    <3> QED BY <3>1, MemoriesKept
  <2>2. PICK batch \in Seq(Facts) : batch = pipe[l].todo
    BY <1>6, BatchIs DEF StoreBatch
  <2>3. {f.name : f \in Range(batch)} \subseteq Names /\ Undecided(l, batch) \subseteq Names
    <3>1. \A f \in Range(batch) : f \in Facts
      BY DEF Range
    <3>2. {f.name : f \in Range(batch)} \subseteq Names
      BY <3>1 DEF Facts
    <3> QED BY <3>2 DEF Undecided
  <2>4. said' \in [Loops -> [Names -> Values \cup {None}]]
    BY <1>6 DEF MemInv, Types, StoreBatch
  <2>5. odd' \in [Loops -> SUBSET Names]
    BY <1>6, <2>2, <2>3 DEF MemInv, Types, StoreBatch
  <2>6. unindexed' \in [Loops -> SUBSET Names]
    BY <1>6, <2>2, <2>3 DEF MemInv, Types, StoreBatch
  <2>7. rebuilds' \in [Loops -> [waiting : Nat, read : SUBSET SUBSET Names]]
    <3>1. rebuilds' = rebuilds \/ rebuilds' = [rebuilds EXCEPT ![l].waiting = @ + 1]
      BY <1>6 DEF StoreBatch, StartRebuild
    <3>2. PICK w : w = rebuilds[l].waiting + 1
      OBVIOUS
    <3>3. w \in Nat
      BY <3>2 DEF MemInv, Types
    <3>4. PICK r : r = [waiting |-> w, read |-> rebuilds[l].read]
      OBVIOUS
    <3>5. rebuilds[l] = [waiting |-> rebuilds[l].waiting, read |-> rebuilds[l].read]
      BY DEF MemInv, Types
    <3>6. rebuilds' = rebuilds \/ rebuilds' = [rebuilds EXCEPT ![l] = r]
      BY <3>1, <3>2, <3>4, <3>5
    <3>7. r \in [waiting : Nat, read : SUBSET SUBSET Names]
      BY <3>3, <3>4 DEF MemInv, Types
    <3> QED BY <3>6, <3>7 DEF MemInv, Types
  <2> QED BY <1>6, <2>1, <2>4, <2>5, <2>6, <2>7 DEF MemInv, Types, StoreBatch, boundVars
<1>7. ASSUME NEW l \in Loops, ReadItems(l)
      PROVE  Types'
  <2>1. DOMAIN mem[l].index \subseteq Names
    BY Found DEF MemInv, Memories, Has
  <2>2. /\ rebuilds[l] \in [waiting : Nat, read : SUBSET SUBSET Names] /\ rebuilds[l].waiting > 0
        /\ rebuilds' = [rebuilds EXCEPT ![l].waiting = @ - 1,
                                        ![l].read = @ \cup {DOMAIN mem[l].index}]
    BY <1>7 DEF MemInv, Types, ReadItems
  <2>3. PICK r \in [waiting : Nat, read : SUBSET SUBSET Names] :
          /\ r.waiting = rebuilds[l].waiting - 1
          /\ r.read = rebuilds[l].read \cup {DOMAIN mem[l].index}
    <3> DEFINE r == [waiting |-> rebuilds[l].waiting - 1,
                    read |-> rebuilds[l].read \cup {DOMAIN mem[l].index}]
    <3>1. r.waiting \in Nat /\ r.read \in SUBSET SUBSET Names
      BY <2>1, <2>2
    <3>2. r \in [waiting : Nat, read : SUBSET SUBSET Names]
      BY <3>1
    <3> HIDE DEF r
    <3>3. r.waiting = rebuilds[l].waiting - 1 /\ r.read = rebuilds[l].read \cup {DOMAIN mem[l].index}
      BY DEF r
    <3> QED BY <3>2, <3>3
  <2>4. rebuilds' = [rebuilds EXCEPT ![l] = r]
    BY <2>2, <2>3
  <2>5. rebuilds' \in [Loops -> [waiting : Nat, read : SUBSET SUBSET Names]]
    BY <2>4 DEF MemInv, Types
  <2>6. unindexed' \in [Loops -> SUBSET Names]
    BY <1>7 DEF MemInv, Types, ReadItems
  <2> QED BY <1>7, <2>5, <2>6 DEF MemInv, Types, ReadItems, ltmVars, workVars, boundVars, wordVars
<1>8. ASSUME NEW l \in Loops, NEW names \in rebuilds[l].read, Upsert(l, names)
      PROVE  Types'
  <2>1. rebuilds' \in [Loops -> [waiting : Nat, read : SUBSET SUBSET Names]]
    BY <1>8 DEF MemInv, Types, Upsert
  <2>2. docs' \subseteq Names /\ failures' \in Nat
    <3>1. names \in SUBSET Names
      BY DEF MemInv, Types
    <3> QED BY <1>8, <3>1 DEF MemInv, Types, Upsert, Failure
  <2> QED BY <1>8, <2>1, <2>2 DEF MemInv, Types, Upsert, ltmVars, workVars, boundVars, wordVars
<1>9. ASSUME NEW l \in Loops, LightSleep(l)
      PROVE  Types'
  <2>1. Range(mem[l].items) \subseteq ItemType
    BY DEF MemInv, Memories, Sound, Exact, Range
  <2>2. dream' \in [Loops -> DreamType]
    BY <1>9, <2>1, DreamsAre DEF MemInv, Types, LightSleep
  <2> QED BY <1>9, <2>2 DEF MemInv, Types, LightSleep, Call, ltmVars, indexVars, wordVars
<1>10. ASSUME NEW l \in Loops, Awake(l)
      PROVE  Types'
  <2>1. dream' \in [Loops -> DreamType]
    BY <1>10, DreamsAre DEF MemInv, Types, Awake
  <2> QED BY <1>10, <2>1 DEF MemInv, Types, Awake, ltmVars, indexVars, boundVars, wordVars
<1>11. ASSUME NEW l \in Loops, NEW it \in dream[l].seen, PromoteGet(l, it)
      PROVE  Types'
  <2>1. PICK g : g = [name |-> it.name, scored |-> it.value, seen |-> Held(mem[l], it.name),
                      value |-> IF Has(mem[l], it.name) THEN Get(mem[l], it.name).value
                                ELSE Empty]
    OBVIOUS
  <2>2. g \in Readings
    <3>1. it \in ItemType
      BY DEF MemInv, Types, DreamType
    <3>2. it.name \in Names /\ it.value \in Values
      BY <3>1 DEF ItemType
    <3>3. CASE Has(mem[l], it.name)
      <4>1. PICK old \in ItemType : old = Get(mem[l], it.name)
        BY <3>3, Found DEF MemInv, Memories
      <4>2. old.value \in Values
        BY DEF ItemType
      <4>3. g = [name |-> it.name, scored |-> it.value, seen |-> {old}, value |-> old.value]
        BY <2>1, <3>3, <4>1 DEF Held
      <4> QED BY <3>2, <4>2, <4>3 DEF Readings
    <3>4. CASE ~Has(mem[l], it.name)
      <4>1. g = [name |-> it.name, scored |-> it.value, seen |-> {}, value |-> Empty]
        BY <2>1, <3>4 DEF Held
      <4> QED BY <3>2, <4>1, MemoryAssumption DEF Readings
    <3> QED BY <3>3, <3>4
  <2>3. dream' = [dream EXCEPT ![l].stage = "got", ![l].got = {g}]
    BY <1>11, <2>1 DEF PromoteGet
  <2>4. dream' \in [Loops -> DreamType]
    BY <2>2, <2>3, DreamsAre DEF MemInv, Types
  <2> QED BY <1>11, <2>4 DEF MemInv, Types, PromoteGet, ltmVars, indexVars, boundVars, wordVars
<1>12. ASSUME NEW l \in Loops, NEW got \in dream[l].got, PromoteStore(l, got)
      PROVE  Types'
  <2>1. lag' \in [Loops -> BOOLEAN] /\ failures' \in Nat
    <3>1. failures' \in Nat
      BY <1>12 DEF MemInv, Types, PromoteStore, Commit, Failure
    <3> QED BY <3>1, MemoriesKept
  <2>2. got.name \in Names
    BY DEF MemInv, Types, DreamType, Readings
  <2>3. odd' \in [Loops -> SUBSET Names] /\ unindexed' \in [Loops -> SUBSET Names]
    BY <1>12, <2>2 DEF MemInv, Types, PromoteStore, Raced, NotIndexed
  <2>4. dream' \in [Loops -> DreamType]
    BY <1>12, DreamsAre DEF MemInv, Types, PromoteStore, Acted
  <2> QED BY <1>12, <2>1, <2>3, <2>4 DEF MemInv, Types, PromoteStore, indexVars, boundVars
<1>13. ASSUME NEW l \in Loops, NEW it \in dream[l].seen, DeprecateItem(l, it)
      PROVE  Types'
  <2>1. lag' \in [Loops -> BOOLEAN] /\ failures' \in Nat
    <3>1. failures' \in Nat
      BY <1>13 DEF MemInv, Types, DeprecateItem, Commit, Failure
    <3> QED BY <3>1, MemoriesKept
  <2>2. it.name \in Names
    BY DEF MemInv, Types, DreamType, ItemType
  <2>3. odd' \in [Loops -> SUBSET Names]
    BY <1>13, <2>2 DEF MemInv, Types, DeprecateItem, Raced
  <2>4. said' \in [Loops -> [Names -> Values \cup {None}]]
    BY <1>13, <2>2 DEF MemInv, Types, DeprecateItem, Says
  <2>5. dream' \in [Loops -> DreamType]
    BY <1>13, DreamsAre DEF MemInv, Types, DeprecateItem, Acted
  <2> QED BY <1>13, <2>1, <2>3, <2>4, <2>5 DEF MemInv, Types, DeprecateItem, indexVars, boundVars
<1>14. ASSUME NEW l \in Loops, NEW ins \in Insights, StoreInsight(l, ins)
      PROVE  Types'
  <2>1. lag' \in [Loops -> BOOLEAN] /\ failures' \in Nat
    <3>1. failures' \in Nat
      BY <1>14 DEF MemInv, Types, StoreInsight, Commit, Failure
    <3> QED BY <3>1, MemoriesKept
  <2>2. ins.name \in Names
    BY MemoryAssumption
  <2>3. unindexed' \in [Loops -> SUBSET Names]
    BY <1>14, <2>2 DEF MemInv, Types, StoreInsight, NotIndexed
  <2>4. said' \in [Loops -> [Names -> Values \cup {None}]]
    BY <1>14, <2>2 DEF MemInv, Types, StoreInsight, Says
  <2>5. dream' \in [Loops -> DreamType]
    BY <1>14, DreamsAre DEF MemInv, Types, StoreInsight
  <2> QED BY <1>14, <2>1, <2>3, <2>4, <2>5 DEF MemInv, Types, StoreInsight, indexVars, boundVars
<1>15. ASSUME Day
      PROVE  Types'
  <2>1. day' \in 0 .. MaxDay
    BY <1>15, MemoryAssumption DEF MemInv, Types, Day
  <2> QED BY <1>15, <2>1 DEF MemInv, Types, Day, ltmVars, workVars, indexVars, boundVars, wordVars
<1>16. ASSUME NEW gone \in SUBSET Loops, NEW ahead \in BOOLEAN, Restart(gone, ahead)
      PROVE  Types'
  <2>1. lag' \in [Loops -> BOOLEAN]
    BY MemoriesKept
  <2>2. docs' \subseteq Names
    <3>1. \A p \in DOMAIN file : file[p] \in ItemType
      BY DEF MemInv, FileOk
    <3>2. \A p \in DOMAIN file : file[p].name \in Names
      BY <3>1 DEF ItemType
    <3> QED BY <1>16, <3>2 DEF MemInv, Types, Restart
  <2>3. \A l \in Loops : Kept(l) \in [Names -> Values \cup {None}]
    BY DEF MemInv, Types, Kept
  <2>4. said' \in [Loops -> [Names -> Values \cup {None}]]
    BY <1>16, <2>3 DEF MemInv, Types, Restart
  <2>5. odd' \in [Loops -> SUBSET Names] /\ unindexed' \in [Loops -> SUBSET Names]
    BY <1>16 DEF MemInv, Types, Restart
  <2>6. dream' \in [Loops -> DreamType]
    BY <1>16, DreamsAre DEF MemInv, Types, Restart
  <2>7. rebuilds' \in [Loops -> [waiting : Nat, read : SUBSET SUBSET Names]]
    BY <1>16 DEF MemInv, Types, Restart
  <2> QED BY <1>16, <2>1, <2>2, <2>4, <2>5, <2>6, <2>7 DEF MemInv, Types, Restart
<1>17. ASSUME UNCHANGED vars
      PROVE  Types'
  BY <1>17 DEF MemInv, Types, vars, ltmVars, workVars, indexVars, boundVars, wordVars
<1> QED BY <1>1, <1>2, <1>3, <1>4, <1>5, <1>6, <1>7, <1>8, <1>9, <1>10, <1>11,
  <1>12, <1>13, <1>14, <1>15, <1>16, <1>17 DEF Next

(* Names that a write adds are noted, or the write starts a rebuild. *)
LEMMA CoverStep ==
  ASSUME MemInv, NEW l \in Loops, NEW m, Sound(m), Commit(l, m),
         DOMAIN m.index \subseteq DOMAIN mem[l].index \cup unindexed'[l],
         unindexed[l] \subseteq unindexed'[l],
         \A k \in Loops \ {l} : unindexed'[k] = unindexed[k],
         UNCHANGED <<rebuilds, docs>>
  PROVE  Covered'
<1>1. /\ mem'[l] = m /\ \A k \in Loops \ {l} : mem'[k] = mem[k]
      /\ failures' = 0 => failures = 0
  BY Commits
<1> QED BY <1>1 DEF MemInv, Covered

(* What the vector index lacks stays accounted for. *)
LEMMA CoveredKept ==
  ASSUME MemInv, [Next]_vars
  PROVE  Covered'
<1>1. ASSUME NEW l \in Loops, NEW n \in Names, NEW v \in Told, MemoryStore(l, n, v)
      PROVE  Covered'
  <2>1. n \in Names /\ v \in Values /\ day \in 0 .. MaxDay /\ Sound(mem[l])
    BY MemoryAssumption DEF MemInv, Types, Memories
  <2>2. PICK m : m = Store(mem[l], n, v)
    OBVIOUS
  <2>3. Sound(m) /\ DOMAIN m.index \subseteq DOMAIN mem[l].index \cup {n}
    BY <2>1, <2>2, StoreIs DEF PutIn
  <2>4. Commit(l, m) /\ UNCHANGED <<rebuilds, docs>>
    BY <1>1, <2>2 DEF MemoryStore, indexVars
  <2>5. /\ unindexed'[l] = unindexed[l] \cup {n}
        /\ \A k \in Loops \ {l} : unindexed'[k] = unindexed[k]
    BY <1>1 DEF MemoryStore, NotIndexed, MemInv, Types
  <2> QED BY <2>3, <2>4, <2>5, CoverStep
<1>2. ASSUME NEW l \in Loops, NEW n \in Names, MemoryRemove(l, n)
      PROVE  Covered'
  <2>1. PICK m : m = Removed(mem[l], n)
    OBVIOUS
  <2>2. Sound(m) /\ DOMAIN m.index \subseteq DOMAIN mem[l].index
    BY <2>1, RemovedIs DEF MemInv, Memories
  <2>3. Commit(l, m) /\ UNCHANGED <<rebuilds, docs, unindexed>>
    BY <1>2, <2>1 DEF MemoryRemove, indexVars
  <2> QED BY <2>2, <2>3, CoverStep
<1>3. ASSUME NEW l \in Loops, NEW b \in Batches, Extract(l, b)
      PROVE  Covered'
  BY <1>3 DEF MemInv, Covered, Extract, ltmVars, indexVars
<1>4. ASSUME NEW l \in Loops, Resolve(l)
      PROVE  Covered'
  BY <1>4 DEF MemInv, Covered, Resolve, ltmVars, indexVars
<1>5. ASSUME NEW l \in Loops, Dedup(l)
      PROVE  Covered'
  BY <1>5 DEF MemInv, Covered, Dedup, ltmVars, indexVars
<1>6. ASSUME NEW l \in Loops, StoreBatch(l)
      PROVE  Covered'
  <2>1. PICK m : m = BulkStore(mem[l], pipe[l].todo)
    OBVIOUS
  <2>2. pipe[l].todo \in Seq(Facts) /\ day \in 0 .. MaxDay /\ Sound(mem[l])
    BY <1>6, BatchIs DEF MemInv, Types, Memories, StoreBatch
  <2>3. Sound(m) /\ Commit(l, m)
    BY <1>6, <2>1, <2>2, BulkIs DEF Bulked, StoreBatch
  <2>4. SUFFICES ASSUME failures' = 0
                 PROVE  \A k \in Loops :
                          rebuilds'[k].waiting > 0
                          \/ DOMAIN mem'[k].index
                               \subseteq docs' \cup unindexed'[k] \cup UNION rebuilds'[k].read
    BY DEF Covered
  <2>5. failures = 0 /\ Written(l, m) /\ \A k \in Loops \ {l} : mem'[k] = mem[k]
    BY <2>3, <2>4, Commits
  <2>6. /\ rebuilds' = [rebuilds EXCEPT ![l].waiting = @ + 1]
        /\ unindexed' = unindexed /\ docs' = docs
    BY <1>6, <2>1, <2>5 DEF StoreBatch, StartRebuild
  <2>7. rebuilds'[l].waiting > 0
    <3>1. rebuilds[l] \in [waiting : Nat, read : SUBSET SUBSET Names]
      BY DEF MemInv, Types
    <3>2. rebuilds'[l] = [rebuilds[l] EXCEPT !.waiting = @ + 1]
      BY <2>6 DEF MemInv, Types
    <3>3. rebuilds'[l].waiting = rebuilds[l].waiting + 1 /\ rebuilds[l].waiting \in Nat
      BY <3>1, <3>2
    <3> QED BY <3>3
  <2>8. \A k \in Loops \ {l} : rebuilds'[k] = rebuilds[k]
    BY <2>6 DEF MemInv, Types
  <2> QED BY <2>5, <2>6, <2>7, <2>8 DEF MemInv, Covered
<1>7. ASSUME NEW l \in Loops, ReadItems(l)
      PROVE  Covered'
  <2>1. /\ rebuilds' = [rebuilds EXCEPT ![l].waiting = @ - 1,
                                       ![l].read = @ \cup {DOMAIN mem[l].index}]
        /\ \A k \in Loops \ {l} : unindexed'[k] = unindexed[k]
        /\ UNCHANGED <<mem, docs, failures>>
    BY <1>7 DEF ReadItems, ltmVars, MemInv, Types
  <2>2. /\ DOMAIN mem[l].index \in rebuilds'[l].read
        /\ \A k \in Loops \ {l} : rebuilds'[k] = rebuilds[k]
    BY <2>1 DEF MemInv, Types
  <2>3. DOMAIN mem[l].index \subseteq UNION rebuilds'[l].read
    BY <2>2
  <2> QED BY <2>1, <2>2, <2>3 DEF MemInv, Covered
<1>8. ASSUME NEW l \in Loops, NEW names \in rebuilds[l].read, Upsert(l, names)
      PROVE  Covered'
  <2>1. /\ rebuilds' = [rebuilds EXCEPT ![l].read = @ \ {names}]
        /\ UNCHANGED <<mem, unindexed>> /\ names \in rebuilds[l].read
    BY <1>8 DEF Upsert, ltmVars
  <2>2. /\ rebuilds'[l].waiting = rebuilds[l].waiting
        /\ rebuilds'[l].read = rebuilds[l].read \ {names}
        /\ \A k \in Loops \ {l} : rebuilds'[k] = rebuilds[k]
    BY <2>1 DEF MemInv, Types
  <2>3. CASE docs' = docs \cup names /\ UNCHANGED failures
    <3>1. UNION rebuilds[l].read \subseteq names \cup UNION rebuilds'[l].read
      <4>1. ASSUME NEW x \in UNION rebuilds[l].read, x \notin names
            PROVE  x \in UNION rebuilds'[l].read
        <5>1. PICK r \in rebuilds[l].read : x \in r
          OBVIOUS
        <5>2. r \in rebuilds'[l].read
          BY <2>2, <4>1, <5>1
        <5> QED BY <5>1, <5>2
      <4> QED BY <4>1
    <3> QED BY <2>1, <2>2, <2>3, <3>1 DEF MemInv, Covered
  <2>4. CASE Failure
    <3>1. failures' # 0
      BY <2>4 DEF Failure, MemInv, Types
    <3> QED BY <3>1 DEF Covered
  <2> QED BY <1>8, <2>3, <2>4 DEF Upsert
<1>9. ASSUME NEW l \in Loops, LightSleep(l)
      PROVE  Covered'
  BY <1>9 DEF MemInv, Covered, LightSleep, ltmVars, indexVars
<1>10. ASSUME NEW l \in Loops, Awake(l)
      PROVE  Covered'
  BY <1>10 DEF MemInv, Covered, Awake, ltmVars, indexVars
<1>11. ASSUME NEW l \in Loops, NEW it \in dream[l].seen, PromoteGet(l, it)
      PROVE  Covered'
  BY <1>11 DEF MemInv, Covered, PromoteGet, ltmVars, indexVars
<1>12. ASSUME NEW l \in Loops, NEW got \in dream[l].got, PromoteStore(l, got)
      PROVE  Covered'
  <2>1. got.name \in Names /\ got.value \in Values /\ day \in 0 .. MaxDay /\ Sound(mem[l])
    BY DEF MemInv, Types, Memories, DreamType, Readings
  <2>2. PICK m : m = Store(mem[l], got.name, got.value)
    OBVIOUS
  <2>3. Sound(m) /\ DOMAIN m.index \subseteq DOMAIN mem[l].index \cup {got.name}
    BY <2>1, <2>2, StoreIs DEF PutIn
  <2>4. Commit(l, m) /\ UNCHANGED <<rebuilds, docs>>
    BY <1>12, <2>2 DEF PromoteStore, indexVars
  <2>5. /\ unindexed'[l] = unindexed[l] \cup {got.name}
        /\ \A k \in Loops \ {l} : unindexed'[k] = unindexed[k]
    BY <1>12 DEF PromoteStore, NotIndexed, MemInv, Types
  <2> QED BY <2>3, <2>4, <2>5, CoverStep
<1>13. ASSUME NEW l \in Loops, NEW it \in dream[l].seen, DeprecateItem(l, it)
      PROVE  Covered'
  <2>1. PICK m : m = Removed(mem[l], it.name)
    OBVIOUS
  <2>2. Sound(m) /\ DOMAIN m.index \subseteq DOMAIN mem[l].index
    BY <2>1, RemovedIs DEF MemInv, Memories
  <2>3. Commit(l, m) /\ UNCHANGED <<rebuilds, docs, unindexed>>
    BY <1>13, <2>1 DEF DeprecateItem, indexVars
  <2> QED BY <2>2, <2>3, CoverStep
<1>14. ASSUME NEW l \in Loops, NEW ins \in Insights, StoreInsight(l, ins)
      PROVE  Covered'
  <2>1. ins.name \in Names /\ ins.value \in Values /\ day \in 0 .. MaxDay /\ Sound(mem[l])
    BY MemoryAssumption DEF MemInv, Types, Memories
  <2>2. PICK m : m = Store(mem[l], ins.name, ins.value)
    OBVIOUS
  <2>3. Sound(m) /\ DOMAIN m.index \subseteq DOMAIN mem[l].index \cup {ins.name}
    BY <2>1, <2>2, StoreIs DEF PutIn
  <2>4. Commit(l, m) /\ UNCHANGED <<rebuilds, docs>>
    BY <1>14, <2>2 DEF StoreInsight, indexVars
  <2>5. /\ unindexed'[l] = unindexed[l] \cup {ins.name}
        /\ \A k \in Loops \ {l} : unindexed'[k] = unindexed[k]
    BY <1>14 DEF StoreInsight, NotIndexed, MemInv, Types
  <2> QED BY <2>3, <2>4, <2>5, CoverStep
<1>15. ASSUME Day
      PROVE  Covered'
  BY <1>15 DEF MemInv, Covered, Day, ltmVars, indexVars
<1>16. ASSUME NEW gone \in SUBSET Loops, NEW ahead \in BOOLEAN, Restart(gone, ahead)
      PROVE  Covered'
  <2>1. DOMAIN Loaded(ahead).index = {file[p].name : p \in DOMAIN file}
    BY LoadedIs DEF MemInv, Types
  <2>2. /\ docs' = docs \cup {file[p].name : p \in DOMAIN file} /\ failures' = failures
        /\ \A k \in gone : mem'[k] = Loaded(ahead)
        /\ \A k \in Loops \ gone : /\ mem'[k] = mem[k] /\ rebuilds'[k] = rebuilds[k]
                                  /\ unindexed'[k] = unindexed[k]
    BY <1>16 DEF Restart
  <2> QED BY <2>1, <2>2 DEF MemInv, Covered
<1>17. ASSUME UNCHANGED vars
      PROVE  Covered'
  BY <1>17 DEF MemInv, Covered, vars, ltmVars, indexVars
<1> QED BY <1>1, <1>2, <1>3, <1>4, <1>5, <1>6, <1>7, <1>8, <1>9, <1>10, <1>11,
  <1>12, <1>13, <1>14, <1>15, <1>16, <1>17 DEF Next

(* Facts are judged alike while the day is the same. *)
LEMMA SameDay ==
  ASSUME day' = day
  PROVE  Winners' = Winners /\ Stored' = Stored
BY DEF Winners, Stored, Justified, Accepted, Low, Decayed

(* And no harder on the next day. *)
LEMMA LaterDay ==
  ASSUME day \in Nat, day' = day + 1
  PROVE  Winners \subseteq Winners' /\ Stored \subseteq Stored'
<1>1. ASSUME NEW f \in Facts, NEW it \in ItemType, f.conf >= Low(it) + Gap
      PROVE  f.conf >= Low(it)' + Gap
  <2>1. PICK x, y \in Int : x = Low(it) /\ y = Low(it)' /\ y <= x
    BY LowFalls, DecayedIs DEF Full
  <2>2. f.conf \in Int
    BY DEF Facts, Full
  <2> QED BY <1>1, <2>1, <2>2 DEF Gap
<1>2. ASSUME NEW f \in Winners PROVE f \in Winners'
  <2>1. f \in Facts /\ Justified(f)
    BY DEF Winners
  <2>2. PICK h : /\ f.seen = {h}
                 /\ \A it \in h : SemanticMatch(it.value, f.value) \/ f.conf >= Low(it) + Gap
    BY <2>1 DEF Justified
  <2>3. h \subseteq ItemType
    BY <2>1, <2>2 DEF Facts
  <2>4. \A it \in h : SemanticMatch(it.value, f.value) \/ f.conf >= Low(it)' + Gap
    BY <1>1, <2>1, <2>2, <2>3
  <2>5. Justified(f)'
    BY <2>2, <2>4, Zenon DEF Justified
  <2> QED BY <2>1, <2>5 DEF Winners
<1>3. ASSUME NEW f \in Stored PROVE f \in Stored'
  <2>1. f \in Facts /\ Accepted(f)
    BY DEF Stored
  <2>2. Accepted(f)'
    BY <1>1, <2>1 DEF Accepted
  <2> QED BY <2>1, <2>2 DEF Stored
<1> QED BY <1>2, <1>3

(* A run that no step advances stays as it is. *)
LEMMA RunStays ==
  ASSUME NEW r, RunOk(r), Winners \subseteq Winners', Stored \subseteq Stored'
  PROVE  RunOk(r)'
<1>1. \A s : s \in Seq(Winners) => s \in Seq(Winners')
  OBVIOUS
<1>2. \A s : s \in Seq(Stored) => s \in Seq(Stored')
  OBVIOUS
<1> QED BY <1>1, <1>2 DEF RunOk

(* Runs that are right as they are judged today stay right. *)
LEMMA RunsStand ==
  ASSUME pipe' = [k \in Loops |-> pipe'[k]], \A k \in Loops : RunOk(pipe'[k]),
         Winners \subseteq Winners', Stored \subseteq Stored'
  PROVE  Runs'
<1>1. ASSUME NEW k \in Loops PROVE RunOk(pipe[k])'
  <2>1. PICK r : r = pipe'[k]
    OBVIOUS
  <2>2. RunOk(r)
    BY <2>1
  <2>3. RunOk(r)'
    BY <2>2, RunStays
  <2> QED BY <2>1, <2>3 DEF RunOk
<1> QED BY <1>1 DEF Runs

(* No run changes. *)
LEMMA RunsStay ==
  ASSUME MemInv, pipe' = pipe, day' = day
  PROVE  Runs'
BY SameDay, RunsStand DEF MemInv, Runs

(* What is left after the first of several. *)
LEMMA TailIs ==
  ASSUME NEW S, NEW s \in Seq(S), Len(s) > 1
  PROVE  Tail(s) \in Seq(S) /\ Tail(s) # <<>>
<1>1. Tail(s) \in Seq(S) /\ Len(Tail(s)) = Len(s) - 1
  OBVIOUS
<1>2. Len(Tail(s)) # 0
  BY <1>1
<1>3. Len(<<>>) = 0
  OBVIOUS
<1> QED BY <1>1, <1>2, <1>3

(* A run goes on with one item less, or from one stage to the next. *)
LEMMA Advanced ==
  ASSUME MemInv, NEW l \in Loops, NEW todo, NEW taken, NEW stage, NEW next,
         Advance(l, todo, taken, stage, next), day' = day,
         \/ /\ stage = "resolve" /\ next = "dedup" /\ todo \in Seq(Candidates) /\ todo # <<>>
            /\ pipe[l].done \in Seq(Winners) /\ \E w \in Winners : taken = <<w>>
         \/ /\ stage = "dedup" /\ next = "store" /\ todo \in Seq(Winners) /\ todo # <<>>
            /\ pipe[l].done \in Seq(Stored) /\ taken \in Seq(Stored)
  PROVE  Runs'
<1>1. PICK done : done = pipe[l].done \o taken
  OBVIOUS
<1>2. PICK r : r = IF Len(todo) > 1 THEN [stage |-> stage, todo |-> Tail(todo), done |-> done]
                   ELSE [stage |-> next, todo |-> done, done |-> <<>>]
  OBVIOUS
<1>3. pipe' = [pipe EXCEPT ![l] = r]
  BY <1>1, <1>2 DEF Advance
<1>4. RunOk(r)
  <2>1. CASE /\ stage = "resolve" /\ next = "dedup" /\ todo \in Seq(Candidates) /\ todo # <<>>
             /\ pipe[l].done \in Seq(Winners) /\ \E w \in Winners : taken = <<w>>
    <3>1. done \in Seq(Winners) /\ done # <<>>
      BY <1>1, <2>1
    <3>2. <<>> \in Seq(Stored)
      OBVIOUS
    <3>3. Len(todo) > 1 => Tail(todo) \in Seq(Candidates) /\ Tail(todo) # <<>>
      BY <2>1, TailIs
    <3> QED BY <1>2, <2>1, <3>1, <3>2, <3>3 DEF RunOk
  <2>2. CASE /\ stage = "dedup" /\ next = "store" /\ todo \in Seq(Winners) /\ todo # <<>>
             /\ pipe[l].done \in Seq(Stored) /\ taken \in Seq(Stored)
    <3>1. done \in Seq(Stored)
      BY <1>1, <2>2
    <3>2. Len(todo) > 1 => Tail(todo) \in Seq(Winners) /\ Tail(todo) # <<>>
      BY <2>2, TailIs
    <3> QED BY <1>2, <2>2, <3>1, <3>2 DEF RunOk
  <2> QED BY <2>1, <2>2
<1>5. \A k \in Loops : RunOk(pipe[k]) /\ pipe = [j \in Loops |-> pipe[j]]
  BY DEF MemInv, Runs
<1>6. pipe' = [k \in Loops |-> pipe'[k]] /\ \A k \in Loops : RunOk(pipe'[k])
  BY <1>3, <1>4, <1>5
<1> QED BY <1>6, SameDay, RunsStand

(* Every step keeps what the runs have in hand. *)
LEMMA RunsKept ==
  ASSUME MemInv, [Next]_vars
  PROVE  Runs'
<1>1. ASSUME NEW l \in Loops, NEW n \in Names, NEW v \in Told, MemoryStore(l, n, v)
      PROVE  Runs'
  BY <1>1, RunsStay DEF MemoryStore, workVars
<1>2. ASSUME NEW l \in Loops, NEW n \in Names, MemoryRemove(l, n)
      PROVE  Runs'
  BY <1>2, RunsStay DEF MemoryRemove, workVars
<1>3. ASSUME NEW l \in Loops, NEW b \in Batches, Extract(l, b)
      PROVE  Runs'
  <2>1. b \in Seq(Candidates) /\ b # <<>> /\ day \in Nat /\ Sound(mem[l])
    BY MemoryAssumption DEF MemInv, Types, Memories
  <2>2. PICK w : w = Resolved(mem[l], Head(b))
    OBVIOUS
  <2>3. w \in Winners
    BY <2>1, <2>2, ResolvedIs DEF Winners
  <2>4. pipe[l].done \in Seq(Winners)
    BY <1>3 DEF Extract, NoRun
  <2>5. Advance(l, b, <<w>>, "resolve", "dedup") /\ day' = day
    BY <1>3, <2>2 DEF Extract
  <2> QED BY <2>1, <2>3, <2>4, <2>5, Advanced
<1>4. ASSUME NEW l \in Loops, Resolve(l)
      PROVE  Runs'
  <2>1. /\ pipe[l].todo \in Seq(Candidates) /\ pipe[l].todo # <<>> /\ pipe[l].done \in Seq(Winners)
        /\ day \in Nat /\ Sound(mem[l])
    BY <1>4 DEF MemInv, Types, Memories, Runs, RunOk, Resolve, NoRun
  <2>2. PICK w : w = Resolved(mem[l], Head(pipe[l].todo))
    OBVIOUS
  <2>3. w \in Winners
    BY <2>1, <2>2, ResolvedIs DEF Winners
  <2>4. Advance(l, pipe[l].todo, <<w>>, "resolve", "dedup") /\ day' = day
    BY <1>4, <2>2 DEF Resolve
  <2> QED BY <2>1, <2>3, <2>4, Advanced
<1>5. ASSUME NEW l \in Loops, Dedup(l)
      PROVE  Runs'
  <2>1. /\ pipe[l].todo \in Seq(Winners) /\ pipe[l].todo # <<>> /\ pipe[l].done \in Seq(Stored)
        /\ Sound(mem[l])
    BY <1>5 DEF MemInv, Memories, Runs, RunOk, Dedup, NoRun
  <2>2. PICK f : f = Head(pipe[l].todo)
    OBVIOUS
  <2>3. PICK g : g = [f EXCEPT !.seen = @ \cup {Held(mem[l], f.name)}]
    OBVIOUS
  <2>4. PICK taken : taken = IF Duplicate(mem[l], f, pipe[l].done) THEN <<>> ELSE <<g>>
    OBVIOUS
  <2>5. Advance(l, pipe[l].todo, taken, "dedup", "store") /\ day' = day
    BY <1>5, <2>2, <2>3, <2>4 DEF Dedup
  <2>6. f \in Facts /\ Justified(f)
    BY <2>1, <2>2 DEF Winners
  <2>7. ~Duplicate(mem[l], f, pipe[l].done) => g \in Stored
    BY <2>1, <2>3, <2>6, LetThrough DEF Stored
  <2>8. taken \in Seq(Stored)
    BY <2>4, <2>7
  <2> QED BY <2>1, <2>5, <2>8, Advanced
<1>6. ASSUME NEW l \in Loops, StoreBatch(l)
      PROVE  Runs'
  <2>1. pipe' = [pipe EXCEPT ![l] = NoRun] /\ day' = day
    BY <1>6 DEF StoreBatch
  <2>2. pipe' = [k \in Loops |-> pipe'[k]] /\ \A k \in Loops : RunOk(pipe'[k])
    BY <2>1 DEF MemInv, Runs, RunOk
  <2> QED BY <2>1, <2>2, SameDay, RunsStand
<1>7. ASSUME NEW l \in Loops, ReadItems(l)
      PROVE  Runs'
  BY <1>7, RunsStay DEF ReadItems, workVars
<1>8. ASSUME NEW l \in Loops, NEW names \in rebuilds[l].read, Upsert(l, names)
      PROVE  Runs'
  BY <1>8, RunsStay DEF Upsert, workVars
<1>9. ASSUME NEW l \in Loops, LightSleep(l)
      PROVE  Runs'
  BY <1>9, RunsStay DEF LightSleep, workVars
<1>10. ASSUME NEW l \in Loops, Awake(l)
      PROVE  Runs'
  BY <1>10, RunsStay DEF Awake, workVars
<1>11. ASSUME NEW l \in Loops, NEW it \in dream[l].seen, PromoteGet(l, it)
      PROVE  Runs'
  BY <1>11, RunsStay DEF PromoteGet, workVars
<1>12. ASSUME NEW l \in Loops, NEW got \in dream[l].got, PromoteStore(l, got)
      PROVE  Runs'
  BY <1>12, RunsStay DEF PromoteStore, workVars
<1>13. ASSUME NEW l \in Loops, NEW it \in dream[l].seen, DeprecateItem(l, it)
      PROVE  Runs'
  BY <1>13, RunsStay DEF DeprecateItem, workVars
<1>14. ASSUME NEW l \in Loops, NEW ins \in Insights, StoreInsight(l, ins)
      PROVE  Runs'
  BY <1>14, RunsStay DEF StoreInsight, workVars
<1>15. ASSUME Day
      PROVE  Runs'
  <2>1. day \in Nat /\ day' = day + 1 /\ pipe' = pipe
    BY <1>15 DEF MemInv, Types, Day, workVars
  <2> QED BY <2>1, LaterDay, RunsStand DEF MemInv, Runs
<1>16. ASSUME NEW gone \in SUBSET Loops, NEW ahead \in BOOLEAN, Restart(gone, ahead)
      PROVE  Runs'
  <2>1. pipe' = [k \in Loops |-> pipe'[k]] /\ day' = day
    BY <1>16 DEF Restart
  <2>2. \A k \in Loops : RunOk(pipe'[k])
    BY <1>16 DEF MemInv, Runs, RunOk, Restart
  <2> QED BY <2>1, <2>2, SameDay, RunsStand
<1>17. ASSUME UNCHANGED vars
      PROVE  Runs'
  BY <1>17, RunsStay DEF vars, workVars
<1> QED BY <1>1, <1>2, <1>3, <1>4, <1>5, <1>6, <1>7, <1>8, <1>9, <1>10, <1>11,
  <1>12, <1>13, <1>14, <1>15, <1>16, <1>17 DEF Next

(* A write of l that keeps the word of its agents. *)
LEMMA WordStep ==
  ASSUME MemInv, NEW l \in Loops, NEW m, Sound(m), Commit(l, m),
         \A k \in Loops \ {l} : said'[k] = said[k] /\ odd'[k] = odd[k],
         \A k \in Names : said'[l][k] # None /\ k \notin odd'[l]
                            => Has(m, k) /\ Get(m, k).value = said'[l][k]
  PROVE  AgentsWord'
<1>1. mem'[l] = m /\ \A k \in Loops \ {l} : mem'[k] = mem[k]
  BY Commits
<1>2. ASSUME NEW k \in Loops, NEW n \in Names, said'[k][n] # None, n \notin odd'[k]
      PROVE  Has(mem'[k], n) /\ Get(mem'[k], n).value = said'[k][n]
  <2>1. CASE k = l
    BY <1>1, <1>2, <2>1
  <2>2. CASE k # l
    <3>1. mem'[k] = mem[k] /\ said'[k] = said[k] /\ odd'[k] = odd[k]
      BY <1>1, <2>2
    <3> QED BY <1>2, <3>1 DEF MemInv, AgentsWord
  <2> QED BY <2>1, <2>2
<1> QED BY <1>2 DEF AgentsWord, Has, Get

(* The same, when nothing is written and nothing said. *)
LEMMA WordStays ==
  ASSUME MemInv, UNCHANGED <<mem, said, odd>>
  PROVE  AgentsWord'
BY DEF MemInv, AgentsWord, Has, Get

(* Every step keeps the word of the agents. *)
LEMMA WordKept ==
  ASSUME MemInv, [Next]_vars
  PROVE  AgentsWord'
<1>1. ASSUME NEW l \in Loops, NEW n \in Names, NEW v \in Told, MemoryStore(l, n, v)
      PROVE  AgentsWord'
  <2>1. v \in Values /\ day \in 0 .. MaxDay /\ Sound(mem[l])
    BY MemoryAssumption DEF MemInv, Types, Memories
  <2>2. PICK m : m = Store(mem[l], n, v)
    OBVIOUS
  <2>3. PICK new : /\ new = Item(n, v, IF Has(mem[l], n) THEN Get(mem[l], n).version + 1 ELSE 1, Full)
                   /\ (Has(mem[l], n) /\ m = mem[l]) \/ PutIn(m, mem[l], n, new)
    BY <2>1, <2>2, StoreIs
  <2>4. Sound(m) /\ Commit(l, m)
    BY <1>1, <2>1, <2>2, <2>3 DEF PutIn, MemoryStore
  <2>5. CASE m = mem[l]
    <3>1. said' = said /\ odd' = odd
      BY <1>1, <2>2, <2>5 DEF MemoryStore, wordVars
    <3> QED BY <2>4, <2>5, <3>1, WordStep DEF MemInv, AgentsWord
  <2>6. CASE m # mem[l]
    <3>1. PutIn(m, mem[l], n, new) /\ new.value = v
      BY <2>3, <2>6 DEF Item
    <3>2. said' = [said EXCEPT ![l][n] = v] /\ odd' = [odd EXCEPT ![l] = @ \ {n}]
      BY <1>1, <2>2, <2>6 DEF MemoryStore, Says
    <3>3. /\ \A k \in Loops \ {l} : said'[k] = said[k] /\ odd'[k] = odd[k]
          /\ said'[l][n] = v /\ odd'[l] = odd[l] \ {n}
          /\ \A k \in Names \ {n} : said'[l][k] = said[l][k]
      BY <3>2 DEF MemInv, Types
    <3>4. \A k \in Names : said'[l][k] # None /\ k \notin odd'[l]
                             => Has(m, k) /\ Get(m, k).value = said'[l][k]
      BY <3>1, <3>3 DEF MemInv, AgentsWord, PutIn, Has
    <3> QED BY <2>4, <3>3, <3>4, WordStep
  <2> QED BY <2>5, <2>6
<1>2. ASSUME NEW l \in Loops, NEW n \in Names, MemoryRemove(l, n)
      PROVE  AgentsWord'
  <2>1. PICK m : m = Removed(mem[l], n)
    OBVIOUS
  <2>2. /\ Sound(m) /\ DOMAIN m.index = DOMAIN mem[l].index \ {n}
        /\ \A k \in DOMAIN mem[l].index \ {n} : Get(m, k) = Get(mem[l], k)
    BY <2>1, RemovedIs DEF MemInv, Memories
  <2>3. /\ Commit(l, m)
        /\ said' = [said EXCEPT ![l][n] = None] /\ odd' = [odd EXCEPT ![l] = @ \ {n}]
    BY <1>2, <2>1 DEF MemoryRemove, Says
  <2>4. /\ \A k \in Loops \ {l} : said'[k] = said[k] /\ odd'[k] = odd[k]
        /\ said'[l][n] = None /\ odd'[l] = odd[l] \ {n}
        /\ \A k \in Names \ {n} : said'[l][k] = said[l][k]
    BY <2>3 DEF MemInv, Types
  <2>5. \A k \in Names : said'[l][k] # None /\ k \notin odd'[l]
                           => Has(m, k) /\ Get(m, k).value = said'[l][k]
    BY <2>2, <2>4 DEF MemInv, AgentsWord, Has
  <2> QED BY <2>2, <2>3, <2>4, <2>5, WordStep
<1>3. ASSUME NEW l \in Loops, NEW b \in Batches, Extract(l, b)
      PROVE  AgentsWord'
  BY <1>3, WordStays DEF Extract, ltmVars, wordVars
<1>4. ASSUME NEW l \in Loops, Resolve(l)
      PROVE  AgentsWord'
  BY <1>4, WordStays DEF Resolve, ltmVars, wordVars
<1>5. ASSUME NEW l \in Loops, Dedup(l)
      PROVE  AgentsWord'
  BY <1>5, WordStays DEF Dedup, ltmVars, wordVars
<1>6. ASSUME NEW l \in Loops, StoreBatch(l)
      PROVE  AgentsWord'
  <2>1. PICK batch, m : batch = pipe[l].todo /\ m = BulkStore(mem[l], batch)
    OBVIOUS
  <2>2. batch \in Seq(Facts) /\ day \in 0 .. MaxDay /\ Sound(mem[l])
    BY <1>6, <2>1, BatchIs DEF MemInv, Types, Memories, StoreBatch
  <2>3. Bulked(m, mem[l], batch, Len(batch))
    BY <2>1, <2>2, BulkIs
  <2>4. /\ Commit(l, m)
        /\ said' = [said EXCEPT ![l] = [n \in Names |->
                     IF \E f \in Range(batch) : f.name = n THEN None ELSE @[n]]]
        /\ odd' = [odd EXCEPT ![l] = @ \cup Undecided(l, batch)]
    BY <1>6, <2>1 DEF StoreBatch
  <2>5. /\ \A k \in Loops \ {l} : said'[k] = said[k] /\ odd'[k] = odd[k]
        /\ odd[l] \subseteq odd'[l]
        /\ \A n \in Names : said'[l][n] = IF \E f \in Range(batch) : f.name = n THEN None
                                          ELSE said[l][n]
    BY <2>4 DEF MemInv, Types
  <2>6. ASSUME NEW k \in Names, said'[l][k] # None, k \notin odd'[l]
        PROVE  Has(m, k) /\ Get(m, k).value = said'[l][k]
    <3>1. said'[l][k] = said[l][k] /\ \A p \in 1 .. Len(batch) : batch[p].name # k
      <4>1. \A p \in 1 .. Len(batch) : batch[p] \in Range(batch)
        BY <2>2 DEF Range
      <4> QED BY <2>5, <2>6, <4>1
    <3>2. Has(mem[l], k) /\ Get(mem[l], k).value = said[l][k]
      BY <2>5, <2>6, <3>1 DEF MemInv, AgentsWord
    <3>3. k \in DOMAIN m.index
      BY <2>3, <3>2 DEF Bulked, Has
    <3>4. Get(m, k) = Get(mem[l], k)
      BY <2>3, <3>1, <3>3 DEF Bulked
    <3> QED BY <3>1, <3>2, <3>3, <3>4 DEF Has
  <2> QED BY <2>3, <2>4, <2>5, <2>6, WordStep DEF Bulked
<1>7. ASSUME NEW l \in Loops, ReadItems(l)
      PROVE  AgentsWord'
  BY <1>7, WordStays DEF ReadItems, ltmVars, wordVars
<1>8. ASSUME NEW l \in Loops, NEW names \in rebuilds[l].read, Upsert(l, names)
      PROVE  AgentsWord'
  BY <1>8, WordStays DEF Upsert, ltmVars, wordVars
<1>9. ASSUME NEW l \in Loops, LightSleep(l)
      PROVE  AgentsWord'
  BY <1>9, WordStays DEF LightSleep, ltmVars, wordVars
<1>10. ASSUME NEW l \in Loops, Awake(l)
      PROVE  AgentsWord'
  BY <1>10, WordStays DEF Awake, ltmVars, wordVars
<1>11. ASSUME NEW l \in Loops, NEW it \in dream[l].seen, PromoteGet(l, it)
      PROVE  AgentsWord'
  BY <1>11, WordStays DEF PromoteGet, ltmVars, wordVars
<1>12. ASSUME NEW l \in Loops, NEW got \in dream[l].got, PromoteStore(l, got)
      PROVE  AgentsWord'
  <2>1. /\ got.name \in Names /\ got.value \in Values /\ day \in 0 .. MaxDay /\ Sound(mem[l])
        /\ \A it \in got.seen : got.value = it.value
    BY DEF MemInv, Types, Memories, DreamType, Readings
  <2>2. PICK m, n : m = Store(mem[l], got.name, got.value) /\ n = got.name
    OBVIOUS
  <2>3. m = mem[l] \/ \E new : PutIn(m, mem[l], n, new) /\ new.value = got.value
    <3>1. PICK new : /\ new = Item(n, got.value, IF Has(mem[l], n) THEN Get(mem[l], n).version + 1
                                                 ELSE 1, Full)
                     /\ m = mem[l] \/ PutIn(m, mem[l], n, new)
      BY <2>1, <2>2, StoreIs
    <3>2. new.value = got.value
      BY <3>1 DEF Item
    <3> QED BY <3>1, <3>2
  <2>4. Sound(m) /\ \A k \in DOMAIN mem[l].index \ {n} : Has(m, k) /\ Get(m, k) = Get(mem[l], k)
    BY <2>1, <2>3 DEF PutIn, Has
  <2>5. /\ Commit(l, m) /\ said' = said
        /\ odd' = IF got.seen = {} \/ got.seen # Held(mem[l], n)
                  THEN [odd EXCEPT ![l] = @ \cup {n}] ELSE odd
    BY <1>12, <2>2 DEF PromoteStore, Raced
  <2>6. /\ \A k \in Loops \ {l} : said'[k] = said[k] /\ odd'[k] = odd[k]
        /\ odd[l] \subseteq odd'[l]
        /\ n \notin odd'[l] => got.seen # {} /\ got.seen = Held(mem[l], n)
    BY <2>5 DEF MemInv, Types
  <2>7. ASSUME NEW k \in Names, said'[l][k] # None, k \notin odd'[l]
        PROVE  Has(m, k) /\ Get(m, k).value = said'[l][k]
    <3>1. Has(mem[l], k) /\ Get(mem[l], k).value = said'[l][k]
      BY <2>5, <2>6, <2>7 DEF MemInv, AgentsWord
    <3>2. CASE k # n
      BY <2>4, <3>1, <3>2 DEF Has
    <3>3. CASE k = n
      <4>1. got.value = Get(mem[l], n).value
        BY <2>1, <2>6, <2>7, <3>3 DEF Held
      <4> QED BY <2>3, <3>1, <3>3, <4>1 DEF PutIn, Has
    <3> QED BY <3>2, <3>3
  <2> QED BY <2>4, <2>5, <2>6, <2>7, WordStep
<1>13. ASSUME NEW l \in Loops, NEW it \in dream[l].seen, DeprecateItem(l, it)
      PROVE  AgentsWord'
  <2>1. PICK m, n : m = Removed(mem[l], it.name) /\ n = it.name
    OBVIOUS
  <2>2. /\ Sound(m) /\ DOMAIN m.index = DOMAIN mem[l].index \ {n}
        /\ \A k \in DOMAIN mem[l].index \ {n} : Get(m, k) = Get(mem[l], k)
    BY <2>1, RemovedIs DEF MemInv, Memories
  <2>3. n \in Names
    BY <2>1 DEF MemInv, Types, DreamType, ItemType
  <2>4. /\ Commit(l, m) /\ said' = [said EXCEPT ![l][n] = None]
        /\ odd' = odd \/ odd' = [odd EXCEPT ![l] = @ \cup {n}]
    BY <1>13, <2>1 DEF DeprecateItem, Says, Raced
  <2>5. /\ \A k \in Loops \ {l} : said'[k] = said[k] /\ odd'[k] = odd[k]
        /\ said'[l][n] = None /\ odd[l] \subseteq odd'[l]
        /\ \A k \in Names \ {n} : said'[l][k] = said[l][k]
    BY <2>3, <2>4 DEF MemInv, Types
  <2>6. \A k \in Names : said'[l][k] # None /\ k \notin odd'[l]
                           => Has(m, k) /\ Get(m, k).value = said'[l][k]
    BY <2>2, <2>5 DEF MemInv, AgentsWord, Has
  <2> QED BY <2>2, <2>4, <2>5, <2>6, WordStep
<1>14. ASSUME NEW l \in Loops, NEW ins \in Insights, StoreInsight(l, ins)
      PROVE  AgentsWord'
  <2>1. ins.name \in Names /\ ins.value \in Values /\ day \in 0 .. MaxDay /\ Sound(mem[l])
    BY MemoryAssumption DEF MemInv, Types, Memories
  <2>2. PICK m, n : m = Store(mem[l], ins.name, ins.value) /\ n = ins.name
    OBVIOUS
  <2>3. \/ m = mem[l]
        \/ \E new : PutIn(m, mem[l], n, new)
    BY <2>1, <2>2, StoreIs
  <2>4. Sound(m) /\ \A k \in DOMAIN mem[l].index \ {n} : Has(m, k) /\ Get(m, k) = Get(mem[l], k)
    BY <2>1, <2>3 DEF PutIn, Has
  <2>5. Commit(l, m) /\ said' = [said EXCEPT ![l][n] = None] /\ odd' = odd
    BY <1>14, <2>2 DEF StoreInsight, Says
  <2>6. /\ \A k \in Loops \ {l} : said'[k] = said[k] /\ odd'[k] = odd[k]
        /\ said'[l][n] = None /\ odd[l] \subseteq odd'[l]
        /\ \A k \in Names \ {n} : said'[l][k] = said[l][k]
    BY <2>1, <2>2, <2>5 DEF MemInv, Types
  <2>7. \A k \in Names : said'[l][k] # None /\ k \notin odd'[l]
                           => Has(m, k) /\ Get(m, k).value = said'[l][k]
    BY <2>4, <2>6 DEF MemInv, AgentsWord, Has
  <2> QED BY <2>4, <2>5, <2>6, <2>7, WordStep
<1>15. ASSUME Day
      PROVE  AgentsWord'
  BY <1>15, WordStays DEF Day, ltmVars, wordVars
<1>16. ASSUME NEW gone \in SUBSET Loops, NEW ahead \in BOOLEAN, Restart(gone, ahead)
      PROVE  AgentsWord'
  <2>1. SUFFICES ASSUME NEW l \in Loops, NEW n \in Names, said'[l][n] # None, n \notin odd'[l]
                 PROVE  Has(mem'[l], n) /\ Get(mem'[l], n).value = said'[l][n]
    BY DEF AgentsWord, Has, Get
  <2>2. CASE l \notin gone
    <3>1. mem'[l] = mem[l] /\ said'[l] = said[l] /\ odd'[l] = odd[l]
      BY <1>16, <2>2 DEF Restart
    <3> QED BY <2>1, <3>1 DEF MemInv, AgentsWord
  <2>3. CASE l \in gone
    <3>1. /\ mem'[l] = Loaded(ahead) /\ said'[l] = Kept(l)
          /\ odd'[l] = {k \in odd[l] : Kept(l)[k] # None}
      BY <1>16, <2>3 DEF Restart
    <3>2. /\ owner = l /\ ~lag[l] /\ said[l][n] # None /\ Reload[said[l][n]] = said[l][n]
          /\ said'[l][n] = said[l][n]
      BY <2>1, <3>1 DEF Kept
    <3>3. n \notin odd[l]
      BY <2>1, <3>1, <3>2
    <3>4. Has(mem[l], n) /\ Get(mem[l], n).value = said[l][n]
      BY <3>2, <3>3 DEF MemInv, AgentsWord
    <3>5. file = Grouped(mem[l].items) /\ Sound(mem[l]) /\ FileOk /\ day \in 0 .. MaxDay
      BY <3>2 DEF MemInv, Types, DiskFollows, Memories
    <3>6. PICK p \in 1 .. Len(file) : file[p] = Get(mem[l], n)
      BY <3>4, <3>5, WrittenIs DEF Has
    <3>7. file[p] \in ItemType /\ file[p].name = n
      BY <3>4, <3>5, <3>6, Found
    <3>8. Has(Loaded(ahead), n) /\ Get(Loaded(ahead), n) = Parsed(file[p], ahead)
      BY <3>5, <3>7, LoadedIs
    <3>9. Parsed(file[p], ahead).value = Reload[file[p].value]
      BY <3>5, <3>7, ParsedIs
    <3> QED BY <3>1, <3>2, <3>4, <3>6, <3>8, <3>9
  <2> QED BY <2>2, <2>3
<1>17. ASSUME UNCHANGED vars
      PROVE  AgentsWord'
  BY <1>17, WordStays DEF vars, ltmVars, wordVars
<1> QED BY <1>1, <1>2, <1>3, <1>4, <1>5, <1>6, <1>7, <1>8, <1>9, <1>10, <1>11,
  <1>12, <1>13, <1>14, <1>15, <1>16, <1>17 DEF Next

(* The invariant holds at first. *)
LEMMA MemInit ==
  ASSUME Init
  PROVE  MemInv
<1>1. Types
  <2>1. 0 \in 0 .. MaxDay
    BY MemoryAssumption
  <2> QED BY <2>1, DreamsAre DEF Init, Types
<1>2. Memories
  <2>1. <<>> \in Seq(ItemType) /\ Len(<<>>) = 0
    OBVIOUS
  <2>2. PICK x : x = [n \in {} |-> 0]
    OBVIOUS
  <2>3. DOMAIN x = {} /\ x \in [DOMAIN x -> 1 .. 0]
    BY <2>2
  <2>4. Exact(<<>>, x)
    BY <2>1, <2>3 DEF Exact
  <2>5. Sound([items |-> <<>>, index |-> x])
    BY <2>4, Whole
  <2> QED BY <2>2, <2>5 DEF Init, Memories
<1>3. FileOk
  <2>1. <<>> \in Seq(ItemType) /\ 1 .. Len(<<>>) = {}
    OBVIOUS
  <2> QED BY <2>1 DEF Init, FileOk, Distinct
<1>4. DiskFollows
  BY MemoryAssumption DEF Init, DiskFollows
<1>5. Covered
  BY DEF Init, Covered
<1>6. Runs
  BY DEF Init, Runs, RunOk
<1>7. AgentsWord
  BY DEF Init, AgentsWord
<1> QED BY <1>1, <1>2, <1>3, <1>4, <1>5, <1>6, <1>7 DEF MemInv

(* The invariant holds always. *)
LEMMA Inv == Spec => []MemInv
<1>1. ASSUME MemInv, [Next]_vars PROVE MemInv'
  BY <1>1, TypesKept, MemoriesKept, CoveredKept, RunsKept, WordKept DEF MemInv
<1> QED BY <1>1, MemInit, PTL DEF Spec

(* What every change leaves in order, for every instance: the types, the    *)
(* O(1) index, MEMORY.md and the vector index (fact.go, index.go).          *)
THEOREM MemoryStaysKept == Spec => []MemoryKept
<1>1. ASSUME MemInv PROVE MemoryKept
  <2>1. \A l \in Loops : Range(mem[l].items) \subseteq ItemType
    BY <1>1 DEF MemInv, Memories, Sound, Exact, Range
  <2>2. Range(file) \subseteq ItemType
    BY <1>1 DEF MemInv, FileOk, Range
  <2>3. TypeOK
    BY <1>1, <2>1, <2>2 DEF MemInv, Types, TypeOK
  <2>4. IndexExact
    BY <1>1, IndexIs DEF MemInv, Memories, IndexExact
  <2>5. IndexCovers
    <3>1. ASSUME NEW l \in Loops, rebuilds[l] = [waiting |-> 0, read |-> {}], failures = 0
          PROVE  DOMAIN mem[l].index \subseteq docs \cup unindexed[l]
      <4>1. rebuilds[l].waiting = 0 /\ rebuilds[l].read = {} /\ ~(0 > 0)
        BY <3>1
      <4>2. UNION rebuilds[l].read = {}
        BY <4>1
      <4> QED BY <1>1, <3>1, <4>1, <4>2 DEF MemInv, Covered
    <3> QED BY <3>1 DEF IndexCovers
  <2> QED BY <1>1, <2>3, <2>4, <2>5 DEF MemInv, MemoryKept
<1> QED BY <1>1, Inv, PTL

(* The agents' word stands, for every instance: what memory_store stored is *)
(* what the memory answers, over the pipeline, dreams and restarts, but for *)
(* the races of calls that nothing makes atomic (memory_tools.go, fact.go). *)
THEOREM AgentsWordStands == Spec => []AgentsWord
<1>1. MemInv => AgentsWord
  BY DEF MemInv
<1> QED BY <1>1, Inv, PTL
-----------------------------------------------------------------------------
(* What no change does. *)

VersionStep ==
  \A l \in Loops, n \in Names :
    /\ restarts' = restarts /\ Has(mem[l], n) /\ Has(mem'[l], n)
    /\ Get(mem[l], n).value # Get(mem'[l], n).value
    => Get(mem'[l], n).version > Get(mem[l], n).version

GapStep ==
  \A l \in Loops, n \in Names :
    /\ pipe[l].stage = "store" /\ pipe'[l] = NoRun /\ restarts' = restarts
    /\ Has(mem[l], n) /\ n \notin Undecided(l, pipe[l].todo)
    /\ mem'[l] # mem[l] /\ Get(mem[l], n).value # Get(mem'[l], n).value
    => LET old == Get(mem[l], n)
       IN  Get(mem'[l], n).conf >= Min({old.conf, Decayed(old)}) + Gap

BlankStep ==
  \A l \in Loops, n \in Names :
    /\ Has(mem[l], n) /\ Has(mem'[l], n) /\ restarts' = restarts
    /\ Get(mem[l], n).value # Empty /\ Get(mem'[l], n).value = Empty
    => n \in odd'[l] \/ (dream[l].stage = "deep" /\ dream'[l] = NoDream)

(* What storing a batch changes has a higher version, and unless a race put *)
(* it in an odd order a higher confidence and another meaning.              *)
LEMMA BatchSure ==
  ASSUME MemInv, NEW l \in Loops, pipe[l].stage = "store", NEW batch, batch = pipe[l].todo,
         NEW m, m = BulkStore(mem[l], batch), NEW n \in Names, Has(mem[l], n),
         Get(m, n).value # Get(mem[l], n).value
  PROVE  /\ Get(m, n).version > Get(mem[l], n).version
         /\ n \notin Undecided(l, batch)
              => /\ Get(m, n).conf >= Low(Get(mem[l], n)) + Gap
                 /\ ~SemanticMatch(Get(mem[l], n).value, Get(m, n).value)
<1>1. batch \in Seq(Facts) /\ batch \in Seq(Stored) /\ day \in 0 .. MaxDay /\ Sound(mem[l])
  BY BatchIs DEF MemInv, Types, Memories
<1>2. Bulked(m, mem[l], batch, Len(batch))
  BY <1>1, BulkIs
<1>3. n \in DOMAIN m.index
  BY <1>2 DEF Bulked, Has
<1>4. PICK p \in 1 .. Len(batch) :
        /\ batch[p].name = n
        /\ Get(m, n).value = batch[p].value /\ Get(m, n).conf = batch[p].conf
        /\ Has(mem[l], n) => Get(m, n).version > Get(mem[l], n).version
  BY <1>2, <1>3 DEF Bulked
<1>5. ASSUME n \notin Undecided(l, batch)
      PROVE  /\ Get(m, n).conf >= Low(Get(mem[l], n)) + Gap
             /\ ~SemanticMatch(Get(mem[l], n).value, Get(m, n).value)
  <2>1. p \in DOMAIN batch /\ batch[p] \in Range(batch) /\ n \in {f.name : f \in Range(batch)}
    BY <1>1, <1>4 DEF Range
  <2>2. batch[p].seen = {Held(mem[l], n)}
    BY <1>4, <1>5, <2>1 DEF Undecided
  <2>3. PICK old \in ItemType : old = Get(mem[l], n)
    BY <1>1, Found
  <2>4. batch[p].seen = {{old}}
    BY <2>2, <2>3 DEF Held
  <2>5. Accepted(batch[p])
    BY <1>1, <1>4 DEF Stored
  <2> QED BY <1>4, <2>3, <2>4, <2>5 DEF Accepted
<1> QED BY <1>4, <1>5

(* A write of l that changes no value at its version. *)
LEMMA VersionIf ==
  ASSUME MemInv, NEW l \in Loops, NEW m, Sound(m), Commit(l, m),
         \A n \in Names : /\ Has(mem[l], n) /\ Has(m, n)
                          /\ Get(mem[l], n).value # Get(m, n).value
                          => Get(m, n).version > Get(mem[l], n).version
  PROVE  VersionStep
<1>1. mem'[l] = m /\ \A k \in Loops \ {l} : mem'[k] = mem[k]
  BY Commits
<1>2. ASSUME NEW k \in Loops, NEW n \in Names, Has(mem[k], n), Has(mem'[k], n),
             Get(mem[k], n).value # Get(mem'[k], n).value
      PROVE  Get(mem'[k], n).version > Get(mem[k], n).version
  <2>1. k = l
    BY <1>1, <1>2
  <2> QED BY <1>1, <1>2, <2>1
<1> QED BY <1>2 DEF VersionStep

(* Storing one value changes no other, and not that one at its version. *)
LEMMA StoreGrows ==
  ASSUME NEW m, Sound(m), NEW n \in Names, NEW v \in Values, day \in 0 .. MaxDay
  PROVE  /\ Sound(Store(m, n, v))
         /\ \A k \in Names :
              /\ Has(m, k) /\ Has(Store(m, n, v), k)
              /\ Get(m, k).value # Get(Store(m, n, v), k).value
              => /\ Get(Store(m, n, v), k).version > Get(m, k).version
                 /\ k = n /\ Get(Store(m, n, v), k).value = v
<1>1. PICK new, s : /\ new = Item(n, v, IF Has(m, n) THEN Get(m, n).version + 1 ELSE 1, Full)
                    /\ s = Store(m, n, v)
                    /\ (Has(m, n) /\ s = m) \/ PutIn(s, m, n, new)
  BY StoreIs
<1>2. CASE s = m
  BY <1>1, <1>2
<1>3. CASE PutIn(s, m, n, new)
  <2>1. \A k \in DOMAIN m.index \ {n} : Get(s, k) = Get(m, k)
    BY <1>3 DEF PutIn
  <2>2. Get(s, n) = new /\ Sound(s) /\ new.value = v
    BY <1>1, <1>3 DEF PutIn, Item
  <2>3. Has(m, n) => new.version > Get(m, n).version
    <3>1. Has(m, n) => Get(m, n) \in ItemType
      BY Found
    <3>2. Has(m, n) => Get(m, n).version \in Nat
      BY <3>1 DEF ItemType
    <3>3. Has(m, n) => new.version = Get(m, n).version + 1
      BY <1>1 DEF Item
    <3> QED BY <3>2, <3>3
  <2> QED BY <1>1, <2>1, <2>2, <2>3 DEF Has
<1> QED BY <1>1, <1>2, <1>3

(* Removing one item changes no other. *)
LEMMA RemovedKeeps ==
  ASSUME NEW m, Sound(m), NEW n
  PROVE  /\ Sound(Removed(m, n))
         /\ \A k \in Names : Has(m, k) /\ Has(Removed(m, n), k) => Get(Removed(m, n), k) = Get(m, k)
BY RemovedIs DEF Has

(* No step changes a value at its version. *)
LEMMA VersionsKept ==
  ASSUME MemInv, [Next]_vars
  PROVE  VersionStep
<1>1. ASSUME NEW l \in Loops, NEW n \in Names, NEW v \in Told, MemoryStore(l, n, v)
      PROVE  VersionStep
  <2>1. n \in Names /\ v \in Values /\ day \in 0 .. MaxDay /\ Sound(mem[l])
    BY MemoryAssumption DEF MemInv, Types, Memories
  <2>2. Commit(l, Store(mem[l], n, v))
    BY <1>1 DEF MemoryStore
  <2> QED BY <2>1, <2>2, StoreGrows, VersionIf
<1>2. ASSUME NEW l \in Loops, NEW n \in Names, MemoryRemove(l, n)
      PROVE  VersionStep
  <2>1. Commit(l, Removed(mem[l], n)) /\ Sound(mem[l])
    BY <1>2 DEF MemoryRemove, MemInv, Memories
  <2> QED BY <2>1, RemovedKeeps, VersionIf
<1>3. ASSUME NEW l \in Loops, NEW b \in Batches, Extract(l, b)
      PROVE  VersionStep
  BY <1>3 DEF VersionStep, Extract, ltmVars
<1>4. ASSUME NEW l \in Loops, Resolve(l)
      PROVE  VersionStep
  BY <1>4 DEF VersionStep, Resolve, ltmVars
<1>5. ASSUME NEW l \in Loops, Dedup(l)
      PROVE  VersionStep
  BY <1>5 DEF VersionStep, Dedup, ltmVars
<1>6. ASSUME NEW l \in Loops, StoreBatch(l)
      PROVE  VersionStep
  <2>1. PICK m : m = BulkStore(mem[l], pipe[l].todo)
    OBVIOUS
  <2>2. pipe[l].stage = "store" /\ Commit(l, m)
    BY <1>6, <2>1 DEF StoreBatch
  <2>3. pipe[l].todo \in Seq(Facts) /\ day \in 0 .. MaxDay /\ Sound(mem[l])
    BY <2>2, BatchIs DEF MemInv, Types, Memories
  <2>4. Sound(m)
    BY <2>1, <2>3, BulkIs DEF Bulked
  <2> QED BY <2>1, <2>2, <2>4, BatchSure, VersionIf
<1>7. ASSUME NEW l \in Loops, ReadItems(l)
      PROVE  VersionStep
  BY <1>7 DEF VersionStep, ReadItems, ltmVars
<1>8. ASSUME NEW l \in Loops, NEW names \in rebuilds[l].read, Upsert(l, names)
      PROVE  VersionStep
  BY <1>8 DEF VersionStep, Upsert, ltmVars
<1>9. ASSUME NEW l \in Loops, LightSleep(l)
      PROVE  VersionStep
  BY <1>9 DEF VersionStep, LightSleep, ltmVars
<1>10. ASSUME NEW l \in Loops, Awake(l)
      PROVE  VersionStep
  BY <1>10 DEF VersionStep, Awake, ltmVars
<1>11. ASSUME NEW l \in Loops, NEW it \in dream[l].seen, PromoteGet(l, it)
      PROVE  VersionStep
  BY <1>11 DEF VersionStep, PromoteGet, ltmVars
<1>12. ASSUME NEW l \in Loops, NEW got \in dream[l].got, PromoteStore(l, got)
      PROVE  VersionStep
  <2>1. got.name \in Names /\ got.value \in Values /\ day \in 0 .. MaxDay /\ Sound(mem[l])
    BY DEF MemInv, Types, Memories, DreamType, Readings
  <2>2. Commit(l, Store(mem[l], got.name, got.value))
    BY <1>12 DEF PromoteStore
  <2> QED BY <2>1, <2>2, StoreGrows, VersionIf
<1>13. ASSUME NEW l \in Loops, NEW it \in dream[l].seen, DeprecateItem(l, it)
      PROVE  VersionStep
  <2>1. Commit(l, Removed(mem[l], it.name)) /\ Sound(mem[l])
    BY <1>13 DEF DeprecateItem, MemInv, Memories
  <2> QED BY <2>1, RemovedKeeps, VersionIf
<1>14. ASSUME NEW l \in Loops, NEW ins \in Insights, StoreInsight(l, ins)
      PROVE  VersionStep
  <2>1. ins.name \in Names /\ ins.value \in Values /\ day \in 0 .. MaxDay /\ Sound(mem[l])
    BY MemoryAssumption DEF MemInv, Types, Memories
  <2>2. Commit(l, Store(mem[l], ins.name, ins.value))
    BY <1>14 DEF StoreInsight
  <2> QED BY <2>1, <2>2, StoreGrows, VersionIf
<1>15. ASSUME Day
      PROVE  VersionStep
  BY <1>15 DEF VersionStep, Day, ltmVars
<1>16. ASSUME NEW gone \in SUBSET Loops, NEW ahead \in BOOLEAN, Restart(gone, ahead)
      PROVE  VersionStep
  <2>1. restarts' # restarts
    BY <1>16 DEF Restart, MemInv, Types
  <2> QED BY <2>1 DEF VersionStep
<1>17. ASSUME UNCHANGED vars
      PROVE  VersionStep
  BY <1>17 DEF VersionStep, vars, ltmVars
<1> QED BY <1>1, <1>2, <1>3, <1>4, <1>5, <1>6, <1>7, <1>8, <1>9, <1>10, <1>11,
  <1>12, <1>13, <1>14, <1>15, <1>16, <1>17 DEF Next

(* No run gets to its end. *)
LEMMA NoStore ==
  ASSUME pipe' = pipe
  PROVE  GapStep
BY DEF GapStep, NoRun

(* The pipeline overrides no value that is nearly as sure. *)
LEMMA GapKept ==
  ASSUME MemInv, [Next]_vars
  PROVE  GapStep
<1>1. ASSUME NEW l \in Loops, NEW n \in Names, NEW v \in Told, MemoryStore(l, n, v)
      PROVE  GapStep
  BY <1>1, NoStore DEF MemoryStore, workVars
<1>2. ASSUME NEW l \in Loops, NEW n \in Names, MemoryRemove(l, n)
      PROVE  GapStep
  BY <1>2, NoStore DEF MemoryRemove, workVars
<1>3. ASSUME NEW l \in Loops, NEW b \in Batches, Extract(l, b)
      PROVE  GapStep
  <2>1. \A k \in Loops \ {l} : pipe'[k] = pipe[k]
    BY <1>3 DEF Extract, Advance, MemInv, Runs
  <2>2. pipe[l].stage # "store"
    BY <1>3 DEF Extract, NoRun
  <2> QED BY <2>1, <2>2 DEF GapStep, NoRun
<1>4. ASSUME NEW l \in Loops, Resolve(l)
      PROVE  GapStep
  <2>1. \A k \in Loops \ {l} : pipe'[k] = pipe[k]
    BY <1>4 DEF Resolve, Advance, MemInv, Runs
  <2>2. pipe[l].stage # "store"
    BY <1>4 DEF Resolve, NoRun
  <2> QED BY <2>1, <2>2 DEF GapStep, NoRun
<1>5. ASSUME NEW l \in Loops, Dedup(l)
      PROVE  GapStep
  <2>1. \A k \in Loops \ {l} : pipe'[k] = pipe[k]
    BY <1>5 DEF Dedup, Advance, MemInv, Runs
  <2>2. pipe[l].stage # "store"
    BY <1>5 DEF Dedup, NoRun
  <2> QED BY <2>1, <2>2 DEF GapStep, NoRun
<1>6. ASSUME NEW l \in Loops, StoreBatch(l)
      PROVE  GapStep
  <2>1. PICK batch, m : batch = pipe[l].todo /\ m = BulkStore(mem[l], batch)
    OBVIOUS
  <2>2. /\ pipe[l].stage = "store" /\ Commit(l, m)
        /\ pipe' = [pipe EXCEPT ![l] = NoRun]
    BY <1>6, <2>1 DEF StoreBatch
  <2>3. batch \in Seq(Facts) /\ day \in 0 .. MaxDay /\ Sound(mem[l])
    BY <2>1, <2>2, BatchIs DEF MemInv, Types, Memories
  <2>4. mem'[l] = m
    BY <2>1, <2>2, <2>3, BulkIs, Commits DEF Bulked
  <2>5. \A k \in Loops \ {l} : pipe'[k] = pipe[k]
    BY <2>2 DEF MemInv, Runs
  <2>6. ASSUME NEW n \in Names, Has(mem[l], n), n \notin Undecided(l, batch),
               Get(mem[l], n).value # Get(m, n).value
        PROVE  Get(m, n).conf >= Min({Get(mem[l], n).conf, Decayed(Get(mem[l], n))}) + Gap
    BY <2>1, <2>2, <2>6, BatchSure DEF Low
  <2> QED BY <2>1, <2>4, <2>5, <2>6 DEF GapStep, NoRun
<1>7. ASSUME NEW l \in Loops, ReadItems(l)
      PROVE  GapStep
  BY <1>7, NoStore DEF ReadItems, workVars
<1>8. ASSUME NEW l \in Loops, NEW names \in rebuilds[l].read, Upsert(l, names)
      PROVE  GapStep
  BY <1>8, NoStore DEF Upsert, workVars
<1>9. ASSUME NEW l \in Loops, LightSleep(l)
      PROVE  GapStep
  BY <1>9, NoStore DEF LightSleep, workVars
<1>10. ASSUME NEW l \in Loops, Awake(l)
      PROVE  GapStep
  BY <1>10, NoStore DEF Awake, workVars
<1>11. ASSUME NEW l \in Loops, NEW it \in dream[l].seen, PromoteGet(l, it)
      PROVE  GapStep
  BY <1>11, NoStore DEF PromoteGet, workVars
<1>12. ASSUME NEW l \in Loops, NEW got \in dream[l].got, PromoteStore(l, got)
      PROVE  GapStep
  BY <1>12, NoStore DEF PromoteStore, workVars
<1>13. ASSUME NEW l \in Loops, NEW it \in dream[l].seen, DeprecateItem(l, it)
      PROVE  GapStep
  BY <1>13, NoStore DEF DeprecateItem, workVars
<1>14. ASSUME NEW l \in Loops, NEW ins \in Insights, StoreInsight(l, ins)
      PROVE  GapStep
  BY <1>14, NoStore DEF StoreInsight, workVars
<1>15. ASSUME Day
      PROVE  GapStep
  BY <1>15, NoStore DEF Day, workVars
<1>16. ASSUME NEW gone \in SUBSET Loops, NEW ahead \in BOOLEAN, Restart(gone, ahead)
      PROVE  GapStep
  <2>1. restarts' # restarts
    BY <1>16 DEF Restart, MemInv, Types
  <2> QED BY <2>1 DEF GapStep
<1>17. ASSUME UNCHANGED vars
      PROVE  GapStep
  BY <1>17, NoStore DEF vars, workVars
<1> QED BY <1>1, <1>2, <1>3, <1>4, <1>5, <1>6, <1>7, <1>8, <1>9, <1>10, <1>11,
  <1>12, <1>13, <1>14, <1>15, <1>16, <1>17 DEF Next

(* A write of l that blanks nothing. *)
LEMMA BlankIf ==
  ASSUME MemInv, NEW l \in Loops, NEW m, Sound(m), Commit(l, m),
         \A n \in Names : /\ Has(mem[l], n) /\ Has(m, n)
                          /\ Get(mem[l], n).value # Empty /\ Get(m, n).value = Empty
                          => n \in odd'[l] \/ (dream[l].stage = "deep" /\ dream'[l] = NoDream)
  PROVE  BlankStep
<1>1. mem'[l] = m /\ \A k \in Loops \ {l} : mem'[k] = mem[k]
  BY Commits
<1>2. ASSUME NEW k \in Loops, NEW n \in Names, Has(mem[k], n), Has(mem'[k], n),
             Get(mem[k], n).value # Empty, Get(mem'[k], n).value = Empty
      PROVE  n \in odd'[k] \/ (dream[k].stage = "deep" /\ dream'[k] = NoDream)
  <2>1. k = l
    BY <1>1, <1>2
  <2> QED BY <1>1, <1>2, <2>1
<1> QED BY <1>2 DEF BlankStep

(* No step blanks a fact, but for an insight or a race. *)
LEMMA BlanksKept ==
  ASSUME MemInv, [Next]_vars
  PROVE  BlankStep
<1>1. ASSUME NEW l \in Loops, NEW n \in Names, NEW v \in Told, MemoryStore(l, n, v)
      PROVE  BlankStep
  <2>1. v \in Values \ {Empty} /\ day \in 0 .. MaxDay /\ Sound(mem[l])
    BY MemoryAssumption DEF MemInv, Types, Memories
  <2>2. Commit(l, Store(mem[l], n, v))
    BY <1>1 DEF MemoryStore
  <2>3. /\ Sound(Store(mem[l], n, v))
        /\ \A k \in Names : /\ Has(mem[l], k) /\ Has(Store(mem[l], n, v), k)
                            /\ Get(mem[l], k).value # Empty
                            => Get(Store(mem[l], n, v), k).value # Empty
    BY <2>1, StoreGrows
  <2> QED BY <2>2, <2>3, BlankIf
<1>2. ASSUME NEW l \in Loops, NEW n \in Names, MemoryRemove(l, n)
      PROVE  BlankStep
  <2>1. Commit(l, Removed(mem[l], n)) /\ Sound(mem[l])
    BY <1>2 DEF MemoryRemove, MemInv, Memories
  <2> QED BY <2>1, RemovedKeeps, BlankIf
<1>3. ASSUME NEW l \in Loops, NEW b \in Batches, Extract(l, b)
      PROVE  BlankStep
  BY <1>3 DEF BlankStep, Extract, ltmVars
<1>4. ASSUME NEW l \in Loops, Resolve(l)
      PROVE  BlankStep
  BY <1>4 DEF BlankStep, Resolve, ltmVars
<1>5. ASSUME NEW l \in Loops, Dedup(l)
      PROVE  BlankStep
  BY <1>5 DEF BlankStep, Dedup, ltmVars
<1>6. ASSUME NEW l \in Loops, StoreBatch(l)
      PROVE  BlankStep
  <2>1. PICK batch, m : batch = pipe[l].todo /\ m = BulkStore(mem[l], batch)
    OBVIOUS
  <2>2. /\ pipe[l].stage = "store" /\ Commit(l, m)
        /\ odd' = [odd EXCEPT ![l] = @ \cup Undecided(l, batch)]
    BY <1>6, <2>1 DEF StoreBatch
  <2>3. batch \in Seq(Facts) /\ day \in 0 .. MaxDay /\ Sound(mem[l])
    BY <2>1, <2>2, BatchIs DEF MemInv, Types, Memories
  <2>4. Sound(m)
    BY <2>1, <2>3, BulkIs DEF Bulked
  <2>5. Undecided(l, batch) \subseteq odd'[l]
    BY <2>2 DEF MemInv, Types
  <2>6. ASSUME NEW n \in Names, Has(mem[l], n), Has(m, n),
               Get(mem[l], n).value # Empty, Get(m, n).value = Empty
        PROVE  n \in odd'[l]
    <3>1. SemanticMatch(Get(mem[l], n).value, Get(m, n).value)
      BY <2>6 DEF SemanticMatch
    <3>2. n \in Undecided(l, batch)
      BY <2>1, <2>2, <2>6, <3>1, BatchSure
    <3> QED BY <2>5, <3>2
  <2> QED BY <2>2, <2>4, <2>6, BlankIf
<1>7. ASSUME NEW l \in Loops, ReadItems(l)
      PROVE  BlankStep
  BY <1>7 DEF BlankStep, ReadItems, ltmVars
<1>8. ASSUME NEW l \in Loops, NEW names \in rebuilds[l].read, Upsert(l, names)
      PROVE  BlankStep
  BY <1>8 DEF BlankStep, Upsert, ltmVars
<1>9. ASSUME NEW l \in Loops, LightSleep(l)
      PROVE  BlankStep
  BY <1>9 DEF BlankStep, LightSleep, ltmVars
<1>10. ASSUME NEW l \in Loops, Awake(l)
      PROVE  BlankStep
  BY <1>10 DEF BlankStep, Awake, ltmVars
<1>11. ASSUME NEW l \in Loops, NEW it \in dream[l].seen, PromoteGet(l, it)
      PROVE  BlankStep
  BY <1>11 DEF BlankStep, PromoteGet, ltmVars
<1>12. ASSUME NEW l \in Loops, NEW got \in dream[l].got, PromoteStore(l, got)
      PROVE  BlankStep
  <2>1. /\ got.name \in Names /\ got.value \in Values /\ day \in 0 .. MaxDay /\ Sound(mem[l])
        /\ \A it \in got.seen : got.value = it.value
    BY DEF MemInv, Types, Memories, DreamType, Readings
  <2>2. PICK m, n : m = Store(mem[l], got.name, got.value) /\ n = got.name
    OBVIOUS
  <2>3. /\ Commit(l, m)
        /\ odd' = IF got.seen = {} \/ got.seen # Held(mem[l], n)
                  THEN [odd EXCEPT ![l] = @ \cup {n}] ELSE odd
    BY <1>12, <2>2 DEF PromoteStore, Raced
  <2>4. n \notin odd'[l] => got.seen # {} /\ got.seen = Held(mem[l], n)
    BY <2>3 DEF MemInv, Types
  <2>5. n \notin odd'[l] => got.value = Get(mem[l], n).value
    BY <2>1, <2>4 DEF Held
  <2>6. /\ Sound(m)
        /\ \A k \in Names : /\ Has(mem[l], k) /\ Has(m, k)
                            /\ Get(mem[l], k).value # Get(m, k).value
                            => k = n /\ Get(m, k).value = got.value
    BY <2>1, <2>2, StoreGrows
  <2>7. \A k \in Names : /\ Has(mem[l], k) /\ Has(m, k)
                         /\ Get(mem[l], k).value # Empty /\ Get(m, k).value = Empty
                         => k \in odd'[l]
    BY <2>5, <2>6
  <2> QED BY <2>3, <2>6, <2>7, BlankIf
<1>13. ASSUME NEW l \in Loops, NEW it \in dream[l].seen, DeprecateItem(l, it)
      PROVE  BlankStep
  <2>1. Commit(l, Removed(mem[l], it.name)) /\ Sound(mem[l])
    BY <1>13 DEF DeprecateItem, MemInv, Memories
  <2> QED BY <2>1, RemovedKeeps, BlankIf
<1>14. ASSUME NEW l \in Loops, NEW ins \in Insights, StoreInsight(l, ins)
      PROVE  BlankStep
  <2>1. ins.name \in Names /\ ins.value \in Values /\ day \in 0 .. MaxDay /\ Sound(mem[l])
    BY MemoryAssumption DEF MemInv, Types, Memories
  <2>2. /\ Commit(l, Store(mem[l], ins.name, ins.value))
        /\ dream[l].stage = "deep" /\ dream' = [dream EXCEPT ![l] = NoDream]
    BY <1>14 DEF StoreInsight
  <2>3. dream'[l] = NoDream
    BY <2>2 DEF MemInv, Types
  <2> QED BY <2>1, <2>2, <2>3, StoreGrows, BlankIf
<1>15. ASSUME Day
      PROVE  BlankStep
  BY <1>15 DEF BlankStep, Day, ltmVars
<1>16. ASSUME NEW gone \in SUBSET Loops, NEW ahead \in BOOLEAN, Restart(gone, ahead)
      PROVE  BlankStep
  <2>1. restarts' # restarts
    BY <1>16 DEF Restart, MemInv, Types
  <2> QED BY <2>1 DEF BlankStep
<1>17. ASSUME UNCHANGED vars
      PROVE  BlankStep
  BY <1>17 DEF BlankStep, vars, ltmVars
<1> QED BY <1>1, <1>2, <1>3, <1>4, <1>5, <1>6, <1>7, <1>8, <1>9, <1>10, <1>11,
  <1>12, <1>13, <1>14, <1>15, <1>16, <1>17 DEF Next

(* What no change does, for every instance: reuse a version for a new value,*)
(* override a value that is nearly as sure, blank a fact (conflict.go,      *)
(* dedup.go, fact.go, dream.go).                                            *)
THEOREM ChangesStayOrdered == Spec => ChangesOrdered
<1>1. ASSUME MemInv, [Next]_vars PROVE VersionStep /\ GapStep /\ BlankStep
  BY <1>1, VersionsKept, GapKept, BlanksKept
<1>2. Spec => VersionsGrow
  BY <1>1, Inv, PTL DEF Spec, VersionsGrow, VersionStep
<1>3. Spec => GapRespected
  BY <1>1, Inv, PTL DEF Spec, GapRespected, GapStep
<1>4. Spec => NeverBlanked
  BY <1>1, Inv, PTL DEF Spec, NeverBlanked, BlankStep
<1> QED BY <1>2, <1>3, <1>4 DEF ChangesOrdered
=============================================================================
