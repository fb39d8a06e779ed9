------------------------- MODULE SkippedKeysProofs -------------------------
(***************************************************************************)
(* Facts about the store of skipped message keys: what evict_oldest and    *)
(* skip_message_keys preserve, for every MAX_SKIP and MAX_SKIPPED_KEYS     *)
(* that satisfy SkipAssumption.                                            *)
(***************************************************************************)
EXTENDS SkippedKeys, FiniteSetTheorems, WellFoundedInduction, TLAPS

(***************************************************************************)
(* A store as the code can build it: finitely many entries, no two of them *)
(* stored at the same time.                                                *)
(***************************************************************************)
IsStore(m) ==
    /\ m = [k \in DOMAIN m |-> m[k]]
    /\ IsFiniteSet(DOMAIN m)
    /\ \A k \in DOMAIN m : m[k].timestamp \in Nat
    /\ \A j, k \in DOMAIN m : m[j].timestamp = m[k].timestamp => j = k

(***************************************************************************)
(* A nonempty set of natural numbers has a smallest element.               *)
(***************************************************************************)
LEMMA MinExists ==
    ASSUME NEW S \in SUBSET Nat, S # {}
    PROVE  /\ Min(S) \in S
           /\ \A x \in S : Min(S) <= x
<1>1. PICK m \in S : \A y \in S : ~ (<<y, m>> \in OpToRel(<, Nat))
  BY NatLessThanWellFounded, WFMin, Zenon
<1>2. ASSUME NEW y \in S PROVE ~(y < m)
  <2>1. <<y, m>> \in Nat \X Nat OBVIOUS
  <2>2. <<y, m>>[1] < <<y, m>>[2] => <<y, m>> \in OpToRel(<, Nat)
    BY <2>1, Zenon DEF OpToRel
  <2> QED BY <1>1, <2>2
<1>3. \A y \in S : m <= y
  BY <1>2
<1> QED BY <1>3 DEF Min

(***************************************************************************)
(* A finite nonempty set of natural numbers has a largest element: a       *)
(* smallest counterexample would lose an element and keep its maximum.     *)
(***************************************************************************)
LEMMA MaxExists ==
    ASSUME NEW S \in SUBSET Nat, S # {}, IsFiniteSet(S)
    PROVE  /\ Max(S) \in S
           /\ \A x \in S : x <= Max(S)
<1> DEFINE HasMax(T) == \E x \in T : \A y \in T : y <= x
           Bad == {n \in Nat : \E T \in SUBSET Nat :
                      IsFiniteSet(T) /\ T # {} /\ Cardinality(T) = n /\ ~HasMax(T)}
<1>1. Bad = {}
  <2> SUFFICES ASSUME Bad # {} PROVE FALSE
    OBVIOUS
  <2>1. /\ Min(Bad) \in Bad
        /\ \A n \in Bad : Min(Bad) <= n
    <3>1. Bad \in SUBSET Nat OBVIOUS
    <3> HIDE DEF Bad
    <3> QED BY <3>1, MinExists
  <2>2. PICK T \in SUBSET Nat : /\ IsFiniteSet(T) /\ T # {}
                                /\ Cardinality(T) = Min(Bad) /\ ~HasMax(T)
    BY <2>1
  <2>3. PICK x \in T : TRUE
    BY <2>2
  <2>4. /\ IsFiniteSet(T \ {x})
        /\ Cardinality(T \ {x}) = Cardinality(T) - 1
    BY <2>2, <2>3, FS_RemoveElement
  <2>5. Cardinality(T) \in Nat /\ Cardinality(T \ {x}) \in Nat
    BY <2>2, <2>4, FS_CardinalityType
  <2>6. T \ {x} # {}
    BY <2>2, <2>3
  <2>7. ~HasMax(T \ {x})
    <3> SUFFICES ASSUME NEW y \in T \ {x}, \A z \in T \ {x} : z <= y
                 PROVE  HasMax(T)
      BY <2>2
    <3>1. CASE x <= y BY <3>1
    <3>2. CASE ~(x <= y)
      <4>1. \A z \in T : z <= x BY <3>2, <2>3
      <4> QED BY <4>1, <2>3
    <3> QED BY <3>1, <3>2
  <2>8. Cardinality(T \ {x}) \in Bad
    BY <2>4, <2>5, <2>6, <2>7
  <2>9. Min(Bad) <= Cardinality(T \ {x})
    BY <2>1, <2>8
  <2> HIDE DEF Bad
  <2> QED BY <2>2, <2>4, <2>5, <2>9
<1>2. Cardinality(S) \in Nat
  BY FS_CardinalityType
<1>3. HasMax(S)
  BY <1>1, <1>2
<1> QED BY <1>3 DEF Max

(***************************************************************************)
(* No entry of a store is newer than Newest, and one is as new unless that *)
(* is 0.                                                                   *)
(***************************************************************************)
LEMMA NewestIsNewest ==
    ASSUME NEW m, IsStore(m)
    PROVE  /\ Newest(m) \in Nat
           /\ \A k \in DOMAIN m : m[k].timestamp <= Newest(m)
           /\ Newest(m) = 0 \/ \E k \in DOMAIN m : m[k].timestamp = Newest(m)
<1> DEFINE T == {m[k].timestamp : k \in DOMAIN m}
           f == [k \in DOMAIN m |-> m[k].timestamp]
<1>1. f \in Surjection(DOMAIN m, T)
  BY DEF Surjection
<1>2. IsFiniteSet(T)
  <2> HIDE DEF f, T
  <2> QED BY <1>1, FS_Surjection DEF IsStore
<1>3. T \in SUBSET Nat
  BY DEF IsStore
<1>4. IsFiniteSet(T \cup {0})
  BY <1>2, FS_AddElement
<1>5. {0} \cup T = T \cup {0} /\ T \cup {0} \in SUBSET Nat /\ T \cup {0} # {}
  BY <1>3
<1>6. /\ Max(T \cup {0}) \in T \cup {0}
      /\ \A x \in T \cup {0} : x <= Max(T \cup {0})
  <2> HIDE DEF T
  <2> QED BY <1>4, <1>5, MaxExists
<1>7. Newest(m) = Max(T \cup {0})
  BY <1>5 DEF Newest
<1> QED BY <1>5, <1>6, <1>7

(***************************************************************************)
(* Taking entries out of a store leaves a store, and no larger one.        *)
(***************************************************************************)
LEMMA RestrictIsStore ==
    ASSUME NEW m, IsStore(m), NEW D \in SUBSET DOMAIN m
    PROVE  /\ IsStore(Restrict(m, D))
           /\ DOMAIN Restrict(m, D) = D
           /\ Cardinality(D) <= Cardinality(DOMAIN m)
<1>1. IsFiniteSet(D) /\ Cardinality(D) <= Cardinality(DOMAIN m)
  BY FS_Subset DEF IsStore
<1>2. DOMAIN Restrict(m, D) = D
  BY DEF Restrict
<1>3. \A k \in D : Restrict(m, D)[k] = m[k]
  BY DEF Restrict
<1>4. Restrict(m, D) = [k \in D |-> Restrict(m, D)[k]]
  BY DEF Restrict
<1> QED BY <1>1, <1>2, <1>3, <1>4 DEF IsStore

(***************************************************************************)
(* A session starts with an empty store.                                   *)
(***************************************************************************)
LEMMA EmptyIsStore ==
    IsStore(EmptyStore) /\ DOMAIN EmptyStore = {} /\ Cardinality(DOMAIN EmptyStore) = 0
BY FS_EmptySet DEF IsStore, EmptyStore

(***************************************************************************)
(* evict_oldest_skipped_keys leaves at most `target` entries: the oldest   *)
(* of them has all the others as newer ones.                               *)
(***************************************************************************)
LEMMA EvictBounded ==
    ASSUME NEW m, IsStore(m), NEW target \in Nat
    PROVE  /\ IsStore(EvictOldestSkippedKeys(m, target))
           /\ DOMAIN EvictOldestSkippedKeys(m, target) \in SUBSET DOMAIN m
           /\ Cardinality(DOMAIN EvictOldestSkippedKeys(m, target)) <= target
           /\ \A k \in DOMAIN EvictOldestSkippedKeys(m, target) :
                 EvictOldestSkippedKeys(m, target)[k] = m[k]
<1> DEFINE newer(k) == {j \in DOMAIN m : m[j].timestamp > m[k].timestamp}
           D == {k \in DOMAIN m : Cardinality(newer(k)) < target}
<1>1. EvictOldestSkippedKeys(m, target) = Restrict(m, D)
  BY DEF EvictOldestSkippedKeys
<1>2. D \in SUBSET DOMAIN m
  OBVIOUS
<1>3. IsFiniteSet(D) /\ Cardinality(D) \in Nat
  <2>1. IsFiniteSet(D)
    BY <1>2, FS_Subset DEF IsStore
  <2> QED BY <2>1, FS_CardinalityType
<1>4. Cardinality(D) <= target
  <2>1. CASE D = {}
    <3>1. Cardinality(D) = 0
      BY <2>1, FS_EmptySet, Zenon
    <3> QED BY <3>1
  <2>2. CASE D # {}
    <3> DEFINE stamps == {m[k].timestamp : k \in D}
    <3>1. stamps \in SUBSET Nat /\ stamps # {}
      <4>1. \A k \in D : m[k].timestamp \in Nat
        BY <1>2 DEF IsStore
      <4> HIDE DEF D
      <4> QED BY <4>1, <2>2
    <3>2. /\ Min(stamps) \in stamps
          /\ \A t \in stamps : Min(stamps) <= t
      <4> HIDE DEF stamps
      <4> QED BY <3>1, MinExists
    <3>3. PICK k \in D : \A j \in D : m[k].timestamp <= m[j].timestamp
      BY <3>2
    <3>4. D \ {k} \subseteq newer(k)
      <4> SUFFICES ASSUME NEW j \in D, j # k
                   PROVE  m[j].timestamp > m[k].timestamp
        OBVIOUS
      <4>1. m[k].timestamp <= m[j].timestamp /\ m[j].timestamp # m[k].timestamp
        BY <3>3 DEF IsStore
      <4> QED BY <4>1, <1>2 DEF IsStore
    <3>5. IsFiniteSet(newer(k))
      BY FS_Subset DEF IsStore
    <3>6. Cardinality(D \ {k}) <= Cardinality(newer(k))
      BY <3>4, <3>5, FS_Subset
    <3>7. Cardinality(D \ {k}) = Cardinality(D) - 1
      BY <1>3, FS_RemoveElement
    <3>8. Cardinality(newer(k)) \in Nat
      BY <3>5, FS_CardinalityType
    <3>9. Cardinality(newer(k)) < target
      OBVIOUS
    <3> HIDE DEF D, newer
    <3> QED BY <1>3, <3>6, <3>7, <3>8, <3>9
  <2> QED BY <2>1, <2>2
<1>5. \A k \in D : Restrict(m, D)[k] = m[k]
  BY DEF Restrict
<1> HIDE DEF D
<1> QED BY <1>1, <1>2, <1>4, <1>5, RestrictIsStore

(***************************************************************************)
(* The store after the numbers from a to b are inserted: the old keys and  *)
(* the new ones, with stamps that go up by one from t.                     *)
(***************************************************************************)
InsertedAfter(m, ck, hk, from, a, b, t) ==
    LET K   == {hk} \X (a .. b)
        new == Insert(m, SkippedEntries(ck, hk, from, a .. b, t))
    IN  /\ IsStore(new)
        /\ DOMAIN new = K \cup DOMAIN m
        /\ \A k \in K : new[k].timestamp = t + k[2] - from
        /\ \A k \in DOMAIN m : k \notin K => new[k] = m[k]

(***************************************************************************)
(* Inserting the entries for a range of numbers, stamped after everything  *)
(* in the store, gives a store that is larger by at most the range.        *)
(***************************************************************************)
LEMMA InsertIsStore ==
    ASSUME NEW m, IsStore(m), NEW ck, NEW hk,
           NEW from \in Nat, NEW a \in Nat, NEW b \in Int, from <= a,
           NEW t \in Nat, \A k \in DOMAIN m : m[k].timestamp < t + a - from
    PROVE  InsertedAfter(m, ck, hk, from, a, b, t)
<1> DEFINE E == SkippedEntries(ck, hk, from, a .. b, t)
           K == {hk} \X (a .. b)
           new == Insert(m, E)
<1>1. /\ DOMAIN E = K
      /\ \A k \in K : E[k].timestamp = t + k[2] - from
  BY DEF SkippedEntries
<1> HIDE DEF E
<1>2. /\ DOMAIN new = K \cup DOMAIN m
      /\ new = [k \in DOMAIN new |-> new[k]]
  BY <1>1 DEF Insert
<1>3. \A k \in K : new[k].timestamp = t + k[2] - from
  BY <1>1 DEF Insert
<1>4. \A k \in DOMAIN m : k \notin K => new[k] = m[k]
  BY <1>1 DEF Insert
<1>5. \A k \in K : k = <<hk, k[2]>> /\ k[2] \in a .. b
  OBVIOUS
<1> HIDE DEF new
<1>6. IsFiniteSet(DOMAIN new)
  <2>1. IsFiniteSet({hk})
    BY FS_Singleton, Zenon
  <2>2. IsFiniteSet(a .. b)
    BY FS_Interval
  <2>3. IsFiniteSet(K)
    BY <2>1, <2>2, FS_Product
  <2> HIDE DEF K
  <2>4. IsFiniteSet(DOMAIN m)
    BY DEF IsStore
  <2>5. IsFiniteSet(K \cup DOMAIN m)
    BY <2>3, <2>4, FS_Union, Zenon
  <2> QED BY <1>2, <2>5, Zenon
<1>7. \A k \in DOMAIN new : new[k].timestamp \in Nat
  <2> SUFFICES ASSUME NEW k \in DOMAIN new PROVE new[k].timestamp \in Nat
    OBVIOUS
  <2>1. CASE k \in K
    BY <2>1, <1>3, <1>5
  <2>2. CASE k \notin K
    BY <2>2, <1>2, <1>4 DEF IsStore
  <2> QED BY <2>1, <2>2
<1>8. ASSUME NEW j \in DOMAIN new, NEW k \in DOMAIN new,
             new[j].timestamp = new[k].timestamp
      PROVE  j = k
  <2>1. CASE j \in K /\ k \in K
    <3>1. j = <<hk, j[2]>> /\ k = <<hk, k[2]>> /\ j[2] \in Nat /\ k[2] \in Nat
      BY <2>1, <1>5
    <3>2. t + j[2] - from = t + k[2] - from
      BY <2>1, <1>3, <1>8
    <3>3. j[2] = k[2]
      BY <3>1, <3>2
    <3> QED BY <3>1, <3>3, Zenon
  <2>2. ASSUME NEW x \in K, NEW y \in DOMAIN m, y \notin K
        PROVE  new[y].timestamp < new[x].timestamp
    <3>1. new[y].timestamp = m[y].timestamp /\ m[y].timestamp \in Nat
      BY <2>2, <1>4 DEF IsStore
    <3>2. new[x].timestamp = t + x[2] - from /\ x[2] \in Nat /\ a <= x[2]
      BY <1>3, <1>5
    <3> QED BY <3>1, <3>2
  <2>3. \A x \in DOMAIN new : new[x].timestamp \in Nat
    BY <1>7
  <2>4. CASE j \notin K /\ k \notin K
    BY <2>4, <1>2, <1>4, <1>8 DEF IsStore
  <2> HIDE DEF K
  <2>5. CASE j \in K /\ k \notin K
    BY <2>5, <2>2, <2>3, <1>2, <1>8
  <2>6. CASE j \notin K /\ k \in K
    BY <2>6, <2>2, <2>3, <1>2, <1>8
  <2> QED BY <2>1, <2>4, <2>5, <2>6
<1>9. IsStore(new)
  BY <1>2, <1>6, <1>7, <1>8 DEF IsStore
<1> HIDE DEF K
<1>10. /\ IsStore(new) /\ DOMAIN new = K \cup DOMAIN m
       /\ \A k \in K : new[k].timestamp = t + k[2] - from
       /\ \A k \in DOMAIN m : k \notin K => new[k] = m[k]
  BY <1>2, <1>3, <1>4, <1>9
<1> QED BY <1>10 DEF E, K, new, InsertedAfter

(***************************************************************************)
(* skip_message_keys keeps a store a store and within MAX_SKIPPED_KEYS: it *)
(* evicts before the insertion that would exceed the bound, and what       *)
(* remains leaves room for the rest of the call because                    *)
(* MAX_SKIP <= MAX_SKIPPED_KEYS - MAX_SKIPPED_KEYS / 2.                    *)
(***************************************************************************)
THEOREM SkipMessageKeysBounded ==
    ASSUME NEW m, IsStore(m), Cardinality(DOMAIN m) <= MaxSkippedKeys,
           NEW ck, NEW hk, NEW from \in Nat, NEW to \in Nat, SkipAllowed(from, to)
    PROVE  /\ IsStore(SkipMessageKeys(m, ck, hk, from, to))
           /\ Cardinality(DOMAIN SkipMessageKeys(m, ck, hk, from, to)) <= MaxSkippedKeys
<1> DEFINE t == Newest(m) + 1
           new(ns) == SkippedEntries(ck, hk, from, ns, t)
           before(i) == Insert(m, new(from .. i - 1))
           full == {i \in from .. to - 1 :
                       Cardinality(DOMAIN before(i)) >= MaxSkippedKeys}
           half == MaxSkippedKeys \div 2
           result == SkipMessageKeys(m, ck, hk, from, to)
<1>1. /\ t \in Nat
      /\ \A k \in DOMAIN m : m[k].timestamp \in Nat /\ m[k].timestamp < t
  BY NewestIsNewest DEF IsStore
<1>2. /\ from <= to /\ to - from <= MaxSkip /\ half \in Nat
      /\ MaxSkip \in Nat /\ MaxSkippedKeys \in Nat /\ MaxSkip <= MaxSkippedKeys - half
  BY SkipAssumption DEF SkipAllowed
<1> HIDE DEF t, half
<1>3. ASSUME NEW i \in from .. to
      PROVE  /\ IsStore(before(i))
             /\ DOMAIN before(i) = ({hk} \X (from .. i - 1)) \cup DOMAIN m
             /\ \A k \in {hk} \X (from .. i - 1) : before(i)[k].timestamp = t + k[2] - from
             /\ \A k \in DOMAIN m :
                   k \notin {hk} \X (from .. i - 1) => before(i)[k] = m[k]
  <2>1. \A k \in DOMAIN m : m[k].timestamp < t + from - from
    BY <1>1
  <2>2. i - 1 \in Int /\ from <= from
    OBVIOUS
  <2> DEFINE b == i - 1
  <2> HIDE DEF b
  <2>3. InsertedAfter(m, ck, hk, from, from, b, t)
    BY <2>1, <2>2, <1>1, InsertIsStore DEF b
  <2> QED BY <2>3 DEF InsertedAfter, b
<1>4. CASE full = {}
  <2>1. result = before(to)
    BY <1>4 DEF SkipMessageKeys, t
  <2>2. to \in from .. to /\ IsStore(before(to))
    <3>1. to \in from .. to
      BY <1>2
    <3> HIDE DEF before
    <3> QED BY <3>1, <1>3
  <2>3. Cardinality(DOMAIN before(to)) <= MaxSkippedKeys
    <3>1. CASE from = to
      <4>1. from .. to - 1 = {}
        BY <3>1
      <4>2. DOMAIN before(to) = DOMAIN m
        BY <4>1, <2>2, <1>3
      <4> QED BY <4>2
    <3>2. CASE from # to
      <4> DEFINE last == to - 1
      <4>1. last \in from .. to - 1 /\ last \in from .. to /\ last \notin full
        <5>1. last \in from .. to - 1 /\ last \in from .. to
          BY <3>2, <1>2
        <5> HIDE DEF full
        <5> QED BY <5>1, <1>4
      <4>2. IsStore(before(last)) /\ IsFiniteSet(DOMAIN before(last))
        BY <4>1, <1>3 DEF IsStore
      <4>3. Cardinality(DOMAIN before(last)) \in Nat
        BY <4>2, FS_CardinalityType
      <4>4. Cardinality(DOMAIN before(last)) < MaxSkippedKeys
        BY <4>1, <4>3, <1>2
      <4>5. from .. to - 1 = (from .. last - 1) \cup {last}
        BY <4>1
      <4>6. DOMAIN before(to) = DOMAIN before(last) \cup {<<hk, last>>}
        <5>1. DOMAIN before(to) = ({hk} \X (from .. to - 1)) \cup DOMAIN m
          BY <2>2, <1>3
        <5>2. DOMAIN before(last) = ({hk} \X (from .. last - 1)) \cup DOMAIN m
          BY <4>1, <1>3
        <5> HIDE DEF last, before
        <5>3. {hk} \X (from .. to - 1) = ({hk} \X (from .. last - 1)) \cup {<<hk, last>>}
          BY <4>5
        <5> QED BY <5>1, <5>2, <5>3
      <4> DEFINE B == DOMAIN before(last)
                 x == <<hk, last>>
      <4> HIDE DEF last, before, B, x
      <4>7. Cardinality(DOMAIN before(to)) <= Cardinality(DOMAIN before(last)) + 1
        <5>1. \/ Cardinality(B \cup {x}) = Cardinality(B)
              \/ Cardinality(B \cup {x}) = Cardinality(B) + 1
          BY <4>2, FS_AddElement DEF B
        <5>2. Cardinality(B) \in Nat
          BY <4>3 DEF B
        <5>3. Cardinality(B \cup {x}) <= Cardinality(B) + 1
          BY <5>1, <5>2
        <5> QED BY <4>6, <5>3, Zenon DEF B, x
      <4>8. IsFiniteSet(DOMAIN before(to))
        BY <2>2 DEF IsStore
      <4>9. Cardinality(DOMAIN before(to)) \in Nat
        BY <4>8, FS_CardinalityType
      <4> QED BY <4>3, <4>4, <4>7, <4>9, <1>2
    <3> QED BY <3>1, <3>2
  <2> QED BY <2>1, <2>2, <2>3
<1>5. CASE full # {}
  <2> DEFINE f == Min(full)
             left == EvictOldestSkippedKeys(before(f), half)
  <2>1. result = Insert(left, new(f .. to - 1))
    BY <1>5 DEF SkipMessageKeys, t, half
  <2>2. f \in from .. to - 1
    <3>1. full \in SUBSET Nat /\ full \subseteq from .. to - 1
      OBVIOUS
    <3> HIDE DEF full
    <3> QED BY <3>1, <1>5, MinExists
  <2> HIDE DEF f, full
  <2>3. f \in from .. to /\ f \in Nat /\ from <= f /\ f < to
    BY <2>2
  <2>4. IsStore(before(f))
    BY <2>3, <1>3
  <2>5. /\ IsStore(left)
        /\ DOMAIN left \in SUBSET DOMAIN before(f)
        /\ Cardinality(DOMAIN left) <= half
        /\ \A k \in DOMAIN left : left[k] = before(f)[k]
    <3> HIDE DEF before
    <3> QED BY <2>4, <1>2, EvictBounded
  <2>6. ASSUME NEW k \in DOMAIN left
        PROVE  left[k].timestamp < t + f - from
    <3>1. k \in DOMAIN before(f) /\ left[k] = before(f)[k]
      BY <2>5
    <3>2. k \in ({hk} \X (from .. f - 1)) \cup DOMAIN m
      BY <3>1, <2>3, <1>3
    <3>3. CASE k \in {hk} \X (from .. f - 1)
      <4>1. before(f)[k].timestamp = t + k[2] - from /\ k[2] \in from .. f - 1
        BY <3>3, <2>3, <1>3
      <4> QED BY <4>1, <3>1, <2>3, <1>1
    <3>4. CASE k \notin {hk} \X (from .. f - 1)
      <4>1. before(f)[k] = m[k] /\ k \in DOMAIN m
        BY <3>2, <3>4, <2>3, <1>3
      <4>2. m[k].timestamp \in Nat /\ m[k].timestamp < t
        BY <4>1, <1>1
      <4> QED BY <4>1, <4>2, <3>1, <2>3, <1>1
    <3> QED BY <3>3, <3>4
  <2> HIDE DEF left
  <2>7. /\ IsStore(Insert(left, new(f .. to - 1)))
        /\ DOMAIN Insert(left, new(f .. to - 1)) = ({hk} \X (f .. to - 1)) \cup DOMAIN left
    <3> DEFINE b == to - 1
    <3>1. b \in Int
      OBVIOUS
    <3> HIDE DEF b
    <3>2. InsertedAfter(left, ck, hk, from, f, b, t)
      BY <3>1, <2>3, <2>5, <2>6, <1>1, InsertIsStore
    <3> QED BY <3>2 DEF InsertedAfter, b
  <2>8. /\ IsFiniteSet({hk} \X (f .. to - 1))
        /\ Cardinality({hk} \X (f .. to - 1)) = to - f
    <3>1. IsFiniteSet({hk}) /\ Cardinality({hk}) = 1
      BY FS_Singleton, Zenon
    <3>2. IsFiniteSet(f .. to - 1) /\ Cardinality(f .. to - 1) = to - f
      BY <2>3, FS_Interval
    <3>3. /\ IsFiniteSet({hk} \X (f .. to - 1))
          /\ Cardinality({hk} \X (f .. to - 1)) = Cardinality({hk}) * Cardinality(f .. to - 1)
      BY <3>1, <3>2, FS_Product
    <3> QED BY <3>1, <3>2, <3>3, <2>3
  <2> DEFINE K == {hk} \X (f .. to - 1)
  <2>9. Cardinality(K \cup DOMAIN left) <= Cardinality(K) + Cardinality(DOMAIN left)
    <3> HIDE DEF K
    <3>1. IsFiniteSet(K) /\ IsFiniteSet(DOMAIN left)
      BY <2>5, <2>8 DEF IsStore, K
    <3>2. IsFiniteSet(K \cap DOMAIN left)
      BY <3>1, FS_Intersection
    <3>3. /\ Cardinality(K) \in Nat /\ Cardinality(DOMAIN left) \in Nat
          /\ Cardinality(K \cap DOMAIN left) \in Nat
      BY <3>1, <3>2, FS_CardinalityType
    <3>4. Cardinality(K \cup DOMAIN left) =
             Cardinality(K) + Cardinality(DOMAIN left) - Cardinality(K \cap DOMAIN left)
      BY <3>1, FS_Union
    <3> QED BY <3>3, <3>4
  <2>10. Cardinality(DOMAIN left) \in Nat /\ Cardinality(K \cup DOMAIN left) \in Nat
    <3>1. IsFiniteSet(DOMAIN left) /\ IsFiniteSet(K \cup DOMAIN left)
      <4>1. IsStore(Insert(left, new(f .. to - 1)))
        BY <2>7
      <4> QED BY <4>1, <2>5, <2>7 DEF IsStore
    <3> QED BY <3>1, FS_CardinalityType
  <2>11. Cardinality(K \cup DOMAIN left) <= MaxSkippedKeys
    <3>1. Cardinality(K) = to - f
      BY <2>8
    <3> HIDE DEF K
    <3> QED BY <3>1, <2>3, <2>5, <2>9, <2>10, <1>2
  <2> QED BY <2>1, <2>7, <2>11
<1> QED BY <1>4, <1>5

(***************************************************************************)
(* A store `new` that holds entries of m, and for numbers from `from` to   *)
(* `to` - 1 the message keys of the chain.                                 *)
(***************************************************************************)
HoldsSkipped(new, m, ck, hk, from, to) ==
    \A k \in DOMAIN new :
        \/ k \in DOMAIN m /\ new[k] = m[k]
        \/ /\ k = <<hk, k[2]>> /\ k[2] \in from .. to - 1
           /\ new[k].mk = <<"mk", ck[1], ck[2] + (k[2] - from)>>

(***************************************************************************)
(* skip_message_keys stores nothing else.                                  *)
(***************************************************************************)
LEMMA SkipMessageKeysEntries ==
    ASSUME NEW m, NEW ck, NEW hk, NEW from \in Nat, NEW to \in Nat
    PROVE  HoldsSkipped(SkipMessageKeys(m, ck, hk, from, to), m, ck, hk, from, to)
<1> DEFINE t == Newest(m) + 1
           new(ns) == SkippedEntries(ck, hk, from, ns, t)
           before(i) == Insert(m, new(from .. i - 1))
           full == {i \in from .. to - 1 :
                       Cardinality(DOMAIN before(i)) >= MaxSkippedKeys}
           half == MaxSkippedKeys \div 2
           result == SkipMessageKeys(m, ck, hk, from, to)
           Stored(j, e) ==
              /\ j = <<hk, j[2]>> /\ j[2] \in from .. to - 1
              /\ e.mk = <<"mk", ck[1], ck[2] + (j[2] - from)>>
<1> SUFFICES ASSUME NEW k \in DOMAIN result
             PROVE  (k \in DOMAIN m /\ result[k] = m[k]) \/ Stored(k, result[k])
  BY DEF HoldsSkipped
<1>1. ASSUME NEW ns \in SUBSET (from .. to - 1), NEW j \in DOMAIN new(ns)
      PROVE  Stored(j, new(ns)[j])
  <2>1. j \in {hk} \X ns
    BY DEF SkippedEntries
  <2>2. new(ns)[j].mk = <<"mk", ck[1], ck[2] + (j[2] - from)>>
    BY <2>1 DEF SkippedEntries, KdfCk, KdfCkIter
  <2>3. j = <<hk, j[2]>> /\ j[2] \in ns
    BY <2>1
  <2>4. j[2] \in from .. to - 1
    BY <2>3
  <2> HIDE DEF new
  <2> QED BY <2>2, <2>3, <2>4
<1>2. ASSUME NEW old, NEW e, NEW j \in DOMAIN Insert(old, e)
      PROVE  \/ j \in DOMAIN e /\ Insert(old, e)[j] = e[j]
             \/ j \in DOMAIN old /\ Insert(old, e)[j] = old[j]
  BY DEF Insert
<1>3. ASSUME NEW i \in from .. to, NEW j \in DOMAIN before(i)
      PROVE  \/ j \in DOMAIN m /\ before(i)[j] = m[j]
             \/ Stored(j, before(i)[j])
  <2>1. from .. i - 1 \in SUBSET (from .. to - 1)
    OBVIOUS
  <2> HIDE DEF new, Stored
  <2> QED BY <2>1, <1>1, <1>2
<1>4. CASE full = {}
  <2>1. result = before(to)
    BY <1>4 DEF SkipMessageKeys
  <2>2. CASE to \in from .. to
    <3> HIDE DEF Stored, before, t
    <3>1. (k \in DOMAIN m /\ result[k] = m[k]) \/ Stored(k, result[k])
      BY <2>1, <2>2, <1>3
    <3> QED BY <3>1
  <2>3. CASE to \notin from .. to
    <3>1. from .. to - 1 \in SUBSET (from .. to - 1)
      OBVIOUS
    <3> HIDE DEF Stored, new
    <3>2. (k \in DOMAIN m /\ result[k] = m[k]) \/ Stored(k, result[k])
      BY <2>1, <3>1, <1>1, <1>2
    <3> QED BY <3>2
  <2> QED BY <2>2, <2>3
<1>5. CASE full # {}
  <2> DEFINE f == Min(full)
             left == EvictOldestSkippedKeys(before(f), half)
  <2>1. result = Insert(left, new(f .. to - 1))
    BY <1>5 DEF SkipMessageKeys
  <2>2. f \in from .. to - 1
    <3>1. full \in SUBSET Nat /\ full \subseteq from .. to - 1
      OBVIOUS
    <3> HIDE DEF full
    <3> QED BY <3>1, <1>5, MinExists
  <2>3. \A j \in DOMAIN left : j \in DOMAIN before(f) /\ left[j] = before(f)[j]
    <3> HIDE DEF before, f
    <3> QED BY DEF EvictOldestSkippedKeys, Restrict
  <2> HIDE DEF f, left
  <2>4. f \in from .. to /\ f .. to - 1 \in SUBSET (from .. to - 1)
    BY <2>2
  <2> HIDE DEF Stored, new, before
  <2>5. (k \in DOMAIN left /\ result[k] = left[k]) \/ Stored(k, result[k])
    BY <2>1, <2>4, <1>1, <1>2
  <2>6. (k \in DOMAIN m /\ result[k] = m[k]) \/ Stored(k, result[k])
    BY <2>3, <2>4, <2>5, <1>3
  <2> QED BY <2>6
<1> QED BY <1>4, <1>5

(***************************************************************************)
(* A store `new` that has all the names of m, those of the numbers from    *)
(* `from` to `to` - 1, and no others.                                      *)
(***************************************************************************)
HasNames(new, m, hk, from, to) ==
    DOMAIN new = DOMAIN m \cup ({hk} \X (from .. to - 1))

(***************************************************************************)
(* While all the keys that the store holds and is to hold fit in, it       *)
(* evicts none of them.                                                    *)
(***************************************************************************)
LEMMA NothingEvicted ==
    ASSUME NEW m, NEW ck, NEW hk, NEW from \in Nat, NEW to \in Nat,
           NEW K, IsFiniteSet(K), Cardinality(K) < MaxSkippedKeys,
           DOMAIN m \cup ({hk} \X (from .. to - 1)) \in SUBSET K
    PROVE  HasNames(SkipMessageKeys(m, ck, hk, from, to), m, hk, from, to)
<1> DEFINE t == Newest(m) + 1
           new(ns) == SkippedEntries(ck, hk, from, ns, t)
           before(i) == Insert(m, new(from .. i - 1))
           full == {i \in from .. to - 1 :
                       Cardinality(DOMAIN before(i)) >= MaxSkippedKeys}
<1>1. \A i : DOMAIN before(i) = DOMAIN m \cup ({hk} \X (from .. i - 1))
  BY DEF Insert, SkippedEntries
<1>2. full = {}
  <2> SUFFICES ASSUME NEW i \in from .. to - 1
               PROVE  ~(Cardinality(DOMAIN before(i)) >= MaxSkippedKeys)
    OBVIOUS
  <2>1. DOMAIN before(i) \in SUBSET K
    <3>1. {hk} \X (from .. i - 1) \subseteq {hk} \X (from .. to - 1)
      OBVIOUS
    <3> HIDE DEF before
    <3> QED BY <3>1, <1>1
  <2> HIDE DEF before
  <2>2. /\ IsFiniteSet(DOMAIN before(i))
        /\ Cardinality(DOMAIN before(i)) <= Cardinality(K)
    BY <2>1, FS_Subset
  <2>3. Cardinality(K) \in Nat /\ Cardinality(DOMAIN before(i)) \in Nat
    BY <2>2, FS_CardinalityType
  <2> QED BY <2>2, <2>3, SkipAssumption
<1>3. SkipMessageKeys(m, ck, hk, from, to) = before(to)
  BY <1>2 DEF SkipMessageKeys
<1> HIDE DEF before
<1> QED BY <1>1, <1>3 DEF HasNames

=============================================================================
