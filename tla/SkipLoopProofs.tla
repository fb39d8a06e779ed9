--------------------------- MODULE SkipLoopProofs ---------------------------
(***************************************************************************)
(* What skip_message_keys does one insertion at a time, for every size of  *)
(* the store and every number of calls: its bounds under any clock, and    *)
(* under a clock that only moves on the closed form that SkippedKeys uses, *)
(* with what the closed form keeps and what it throws out.                 *)
(***************************************************************************)
EXTENDS SkipLoop, SkippedKeysProofs

(***************************************************************************)
(* Under any clock, evict_oldest_skipped_keys leaves `target` entries of a *)
(* store that has as many, and changes none of them.                       *)
(***************************************************************************)
LEMMA EvictionsKeep ==
    ASSUME NEW m, IsFiniteSet(DOMAIN m), NEW target \in Nat,
           target <= Cardinality(DOMAIN m), NEW e \in Evictions(m, target)
    PROVE  \E kept \in SUBSET DOMAIN m :
              /\ e = Restrict(m, kept)
              /\ DOMAIN e = kept
              /\ IsFiniteSet(kept)
              /\ Cardinality(kept) = target
              /\ \A x \in kept, y \in DOMAIN m \ kept : m[y].timestamp <= m[x].timestamp
<1> DEFINE n == Cardinality(DOMAIN m)
<1>1. n \in Nat
  BY FS_CardinalityType
<1>2. Min({target, n}) = target
  <2> HIDE DEF n
  <2>1. {target, n} \in SUBSET Nat /\ {target, n} # {}
    BY <1>1
  <2>2. Min({target, n}) \in {target, n} /\ \A x \in {target, n} : Min({target, n}) <= x
    BY <2>1, MinExists
  <2>3. target <= n
    BY DEF n
  <2> QED BY <1>1, <2>2, <2>3
<1>3. PICK kept \in kSubset(target, DOMAIN m) :
         /\ e = Restrict(m, kept)
         /\ \A x \in kept, y \in DOMAIN m \ kept : m[y].timestamp <= m[x].timestamp
  BY <1>2 DEF Evictions
<1>4. kept \in SUBSET DOMAIN m /\ Cardinality(kept) = target
  BY <1>3 DEF kSubset
<1>5. IsFiniteSet(kept)
  BY <1>4, FS_Subset
<1>6. DOMAIN e = kept
  BY <1>3 DEF Restrict
<1> QED BY <1>3, <1>4, <1>5, <1>6

(***************************************************************************)
(* With no two entries of one time there is one way to evict: that of      *)
(* evict_oldest_skipped_keys in SkippedKeys.                               *)
(***************************************************************************)
LEMMA EvictionsAreOldest ==
    ASSUME NEW m, IsStore(m), NEW target \in Nat,
           target <= Cardinality(DOMAIN m), NEW e \in Evictions(m, target)
    PROVE  e = EvictOldestSkippedKeys(m, target)
<1> DEFINE newer(k) == {j \in DOMAIN m : m[j].timestamp > m[k].timestamp}
           D == {k \in DOMAIN m : Cardinality(newer(k)) < target}
<1>1. IsFiniteSet(DOMAIN m)
  BY DEF IsStore
<1>2. PICK kept \in SUBSET DOMAIN m :
         /\ e = Restrict(m, kept)
         /\ IsFiniteSet(kept)
         /\ Cardinality(kept) = target
         /\ \A x \in kept, y \in DOMAIN m \ kept : m[y].timestamp <= m[x].timestamp
  BY <1>1, EvictionsKeep
<1>3. \A k \in DOMAIN m : IsFiniteSet(newer(k)) /\ Cardinality(newer(k)) \in Nat
  <2> TAKE k \in DOMAIN m
  <2>1. IsFiniteSet(newer(k))
    BY <1>1, FS_Subset
  <2> HIDE DEF newer
  <2> QED BY <2>1, FS_CardinalityType
<1>4. ASSUME NEW k \in kept PROVE Cardinality(newer(k)) < target
  <2>1. newer(k) \in SUBSET (kept \ {k})
    BY <1>2 DEF IsStore
  <2>2. IsFiniteSet(kept \ {k}) /\ Cardinality(kept \ {k}) = target - 1
    BY <1>2, FS_RemoveElement
  <2>3. Cardinality(newer(k)) <= Cardinality(kept \ {k})
    BY <2>1, <2>2, FS_Subset
  <2> HIDE DEF newer
  <2> QED BY <2>2, <2>3, <1>3
<1>5. ASSUME NEW k \in DOMAIN m \ kept PROVE ~(Cardinality(newer(k)) < target)
  <2>1. kept \in SUBSET newer(k)
    BY <1>2 DEF IsStore
  <2>2. Cardinality(kept) <= Cardinality(newer(k))
    BY <2>1, <1>3, FS_Subset
  <2> HIDE DEF newer
  <2> QED BY <2>2, <1>2, <1>3
<1>6. kept = D
  <2> HIDE DEF newer
  <2> QED BY <1>4, <1>5
<1> QED BY <1>2, <1>6 DEF EvictOldestSkippedKeys

-----------------------------------------------------------------------------
(***************************************************************************)
(* The invariant under any clock.  A running call that has thrown out keys *)
(* has left half of the capacity free but for what it has inserted since,  *)
(* so that it does not evict again.                                        *)
(***************************************************************************)
CallOK ==
    call # None =>
        /\ call.from \in Nat /\ call.to \in Nat /\ current \in Nat
        /\ call.from <= current /\ SkipAllowed(call.from, call.to)
        /\ \/ DOMAIN start \subseteq DOMAIN mkskipped
           \/ Cardinality(DOMAIN mkskipped) <= MaxSkippedKeys \div 2 + (current - call.from)

BoundInv ==
    /\ IsFiniteSet(DOMAIN start)
    /\ IsFiniteSet(DOMAIN mkskipped)
    /\ StoreBounded
    /\ CallOK
    /\ HalfSurvives

(***************************************************************************)
(* One insertion into a store within its bound: the new store is within    *)
(* it.  Room is made only in a full store: then half of it is thrown out.  *)
(***************************************************************************)
LEMMA RoundBounded ==
    ASSUME NEW m, IsFiniteSet(DOMAIN m), Cardinality(DOMAIN m) <= MaxSkippedKeys,
           NEW r \in MakeRoom(m), NEW k, NEW e, DOMAIN e = {k}
    PROVE  /\ IsFiniteSet(DOMAIN Insert(r, e))
           /\ Cardinality(DOMAIN Insert(r, e)) <= MaxSkippedKeys
           /\ \/ /\ Cardinality(DOMAIN m) < MaxSkippedKeys
                 /\ DOMAIN m \subseteq DOMAIN Insert(r, e)
                 /\ Cardinality(DOMAIN Insert(r, e)) <= Cardinality(DOMAIN m) + 1
              \/ /\ Cardinality(DOMAIN m) = MaxSkippedKeys
                 /\ Cardinality(DOMAIN Insert(r, e)) <= MaxSkippedKeys \div 2 + 1
                 /\ Cardinality(DOMAIN m \ DOMAIN Insert(r, e))
                       <= MaxSkippedKeys - MaxSkippedKeys \div 2
<1> DEFINE half == MaxSkippedKeys \div 2
           S == DOMAIN Insert(r, e)
<1>1. half \in Nat /\ MaxSkippedKeys \in Nat /\ half < MaxSkippedKeys
  BY SkipAssumption
<1>2. S = DOMAIN r \cup {k}
  BY DEF Insert
<1> HIDE DEF half, S
<1>3. Cardinality(DOMAIN m) \in Nat
  BY FS_CardinalityType
<1>4. CASE Cardinality(DOMAIN m) >= MaxSkippedKeys
  <2>1. half <= Cardinality(DOMAIN m) /\ r \in Evictions(m, half)
    BY <1>1, <1>3, <1>4 DEF MakeRoom, half
  <2>2. /\ IsFiniteSet(DOMAIN r) /\ Cardinality(DOMAIN r) = half
        /\ DOMAIN r \in SUBSET DOMAIN m
    BY <2>1, <1>1, EvictionsKeep
  <2>3. /\ IsFiniteSet(S)
        /\ Cardinality(S) = half \/ Cardinality(S) = half + 1
    BY <2>2, <1>2, FS_AddElement
  <2>4. Cardinality(DOMAIN m) = MaxSkippedKeys
    BY <1>1, <1>3, <1>4
  <2>5. /\ IsFiniteSet(DOMAIN m \ DOMAIN r)
        /\ Cardinality(DOMAIN m \ DOMAIN r) = MaxSkippedKeys - half
    <3>1. DOMAIN m \cap DOMAIN r = DOMAIN r
      BY <2>2
    <3> QED BY <3>1, <2>2, <2>4, FS_Difference
  <2>6. Cardinality(DOMAIN m \ S) <= MaxSkippedKeys - half
    <3>1. DOMAIN m \ S \in SUBSET (DOMAIN m \ DOMAIN r)
      BY <1>2
    <3> QED BY <3>1, <2>5, FS_Subset
  <2> QED BY <2>3, <2>4, <2>6, <1>1 DEF S, half
<1>5. CASE ~(Cardinality(DOMAIN m) >= MaxSkippedKeys)
  <2>1. r = m
    BY <1>5 DEF MakeRoom
  <2>2. /\ IsFiniteSet(S)
        /\ Cardinality(S) = Cardinality(DOMAIN m) \/ Cardinality(S) = Cardinality(DOMAIN m) + 1
    BY <2>1, <1>2, FS_AddElement
  <2>3. DOMAIN m \subseteq S
    BY <2>1, <1>2
  <2> QED BY <2>2, <2>3, <1>1, <1>3, <1>5 DEF S
<1> QED BY <1>4, <1>5

(***************************************************************************)
(* An empty store between calls is within its bound.                       *)
(***************************************************************************)
LEMMA BoundInit == LoopInit => BoundInv
BY EmptyIsStore, SkipAssumption
   DEF LoopInit, BoundInv, CallOK, StoreBounded, HalfSurvives, IsStore

(***************************************************************************)
(* A call begins with what it has found, and has thrown out nothing.       *)
(***************************************************************************)
LEMMA BoundCall ==
    ASSUME BoundInv, NEW hk \in Chains, NEW from \in 0 .. MaxNumber,
           NEW to \in 0 .. MaxNumber, Call(hk, from, to)
    PROVE  BoundInv'
<1>1. /\ call' = [hk |-> hk, from |-> from, to |-> to]
      /\ current' = from /\ start' = mkskipped /\ mkskipped' = mkskipped
      /\ SkipAllowed(from, to)
  BY DEF Call
<1>2. from \in Nat /\ to \in Nat
  BY LoopAssumption
<1>3. CallOK'
  BY <1>1, <1>2 DEF CallOK, SkipAllowed
<1>4. DOMAIN start' \ DOMAIN mkskipped' = {}
  BY <1>1
<1>5. HalfSurvives'
  <2>1. Cardinality({}) = 0
    BY FS_EmptySet
  <2>2. 0 <= MaxSkippedKeys - MaxSkippedKeys \div 2
    BY SkipAssumption
  <2> QED BY <2>1, <2>2, <1>4 DEF HalfSurvives
<1> QED BY <1>1, <1>3, <1>5 DEF BoundInv, StoreBounded

(***************************************************************************)
(* A round: a call that has evicted does not again, since the rest of what *)
(* it may insert fits into what the eviction has left free.                *)
(***************************************************************************)
LEMMA BoundRound == ASSUME BoundInv, Round PROVE BoundInv'
<1> DEFINE half == MaxSkippedKeys \div 2
           size == Cardinality(DOMAIN mkskipped)
<1>1. PICK m \in MakeRoom(mkskipped), step \in ClockSteps :
         mkskipped' = Inserted(m, step)
  BY DEF Round
<1> DEFINE e == [k \in {<<call.hk, current>>} |->
               [mk        |-> KdfCk(KdfCkIter(<<call.hk, call.from>>, current - call.from)).mk,
                timestamp |-> Newest(mkskipped) + step]]
<1>2. mkskipped' = Insert(m, e)
  BY <1>1 DEF Inserted
<1>3. DOMAIN e = {<<call.hk, current>>}
  OBVIOUS
<1> HIDE DEF e
<1>4. IsFiniteSet(DOMAIN mkskipped) /\ size <= MaxSkippedKeys /\ IsFiniteSet(DOMAIN start)
  BY DEF BoundInv, StoreBounded
<1>5. /\ IsFiniteSet(DOMAIN mkskipped')
      /\ Cardinality(DOMAIN mkskipped') <= MaxSkippedKeys
      /\ \/ /\ size < MaxSkippedKeys
            /\ DOMAIN mkskipped \subseteq DOMAIN mkskipped'
            /\ Cardinality(DOMAIN mkskipped') <= size + 1
         \/ /\ size = MaxSkippedKeys
            /\ Cardinality(DOMAIN mkskipped') <= half + 1
            /\ Cardinality(DOMAIN mkskipped \ DOMAIN mkskipped') <= MaxSkippedKeys - half
  BY <1>2, <1>3, <1>4, RoundBounded
<1>6. /\ call # None /\ call' = call /\ start' = start
      /\ current < call.to /\ current' = current + 1
  BY DEF Round
<1>7. /\ call.from \in Nat /\ call.to \in Nat /\ current \in Nat
      /\ call.from <= current /\ call.to - call.from <= MaxSkip
      /\ DOMAIN start \subseteq DOMAIN mkskipped \/ size <= half + (current - call.from)
      /\ Cardinality(DOMAIN start \ DOMAIN mkskipped) <= MaxSkippedKeys - half
  BY <1>6 DEF BoundInv, CallOK, HalfSurvives, SkipAllowed
<1>8. /\ half \in Nat /\ MaxSkippedKeys \in Nat /\ MaxSkip \in Nat
      /\ MaxSkip <= MaxSkippedKeys - half
  BY SkipAssumption
<1>9. size \in Nat /\ Cardinality(DOMAIN mkskipped') \in Nat
  BY <1>4, <1>5, FS_CardinalityType
<1>10. /\ IsFiniteSet(DOMAIN start \ DOMAIN mkskipped)
       /\ IsFiniteSet(DOMAIN mkskipped \ DOMAIN mkskipped')
  BY <1>4, FS_Difference
<1>11. /\ DOMAIN start \subseteq DOMAIN mkskipped' \/
             Cardinality(DOMAIN mkskipped') <= half + (current' - call.from)
       /\ Cardinality(DOMAIN start \ DOMAIN mkskipped') <= MaxSkippedKeys - half
  <2>1. CASE /\ DOMAIN mkskipped \subseteq DOMAIN mkskipped'
             /\ Cardinality(DOMAIN mkskipped') <= size + 1
    <3>1. DOMAIN start \ DOMAIN mkskipped' \in SUBSET (DOMAIN start \ DOMAIN mkskipped)
      BY <2>1
    <3>2. /\ Cardinality(DOMAIN start \ DOMAIN mkskipped')
                <= Cardinality(DOMAIN start \ DOMAIN mkskipped)
          /\ IsFiniteSet(DOMAIN start \ DOMAIN mkskipped')
      BY <3>1, <1>10, FS_Subset
    <3>3. /\ Cardinality(DOMAIN start \ DOMAIN mkskipped') \in Nat
          /\ Cardinality(DOMAIN start \ DOMAIN mkskipped) \in Nat
      BY <3>2, <1>10, FS_CardinalityType
    <3>4. Cardinality(DOMAIN start \ DOMAIN mkskipped') <= MaxSkippedKeys - half
      BY <3>2, <3>3, <1>7, <1>8
    <3>5. DOMAIN start \subseteq DOMAIN mkskipped' \/
             Cardinality(DOMAIN mkskipped') <= half + (current' - call.from)
      BY <2>1, <1>6, <1>7, <1>8, <1>9
    <3> QED BY <3>4, <3>5
  <2>2. CASE /\ size = MaxSkippedKeys
             /\ Cardinality(DOMAIN mkskipped') <= half + 1
             /\ Cardinality(DOMAIN mkskipped \ DOMAIN mkskipped') <= MaxSkippedKeys - half
    <3>1. ~(size <= half + (current - call.from))
      BY <2>2, <1>6, <1>7, <1>8
    <3>2. DOMAIN start \ DOMAIN mkskipped' \in SUBSET (DOMAIN mkskipped \ DOMAIN mkskipped')
      BY <3>1, <1>7
    <3>3. /\ Cardinality(DOMAIN start \ DOMAIN mkskipped')
                <= Cardinality(DOMAIN mkskipped \ DOMAIN mkskipped')
          /\ IsFiniteSet(DOMAIN start \ DOMAIN mkskipped')
      BY <3>2, <1>10, FS_Subset
    <3>4. /\ Cardinality(DOMAIN start \ DOMAIN mkskipped') \in Nat
          /\ Cardinality(DOMAIN mkskipped \ DOMAIN mkskipped') \in Nat
      BY <3>3, <1>10, FS_CardinalityType
    <3>5. Cardinality(DOMAIN start \ DOMAIN mkskipped') <= MaxSkippedKeys - half
      BY <3>3, <3>4, <2>2, <1>8
    <3>6. Cardinality(DOMAIN mkskipped') <= half + (current' - call.from)
      BY <2>2, <1>6, <1>7, <1>8, <1>9
    <3> QED BY <3>5, <3>6
  <2> QED BY <1>5, <2>1, <2>2
<1>12. CallOK'
  <2>1. current' \in Nat /\ call.from <= current'
    BY <1>6, <1>7
  <2> QED BY <2>1, <1>6, <1>7, <1>11 DEF CallOK, BoundInv
<1>13. HalfSurvives'
  BY <1>6, <1>11 DEF HalfSurvives
<1> QED BY <1>4, <1>5, <1>6, <1>12, <1>13 DEF BoundInv, StoreBounded

(***************************************************************************)
(* A key that is used is taken out between calls.                          *)
(***************************************************************************)
LEMMA BoundUse == ASSUME BoundInv, NEW k, Use(k) PROVE BoundInv'
<1>1. /\ call = None /\ call' = call /\ start' = start
      /\ mkskipped' = Restrict(mkskipped, DOMAIN mkskipped \ {k})
  BY DEF Use
<1>2. DOMAIN mkskipped' \in SUBSET DOMAIN mkskipped
  BY <1>1 DEF Restrict
<1>3. /\ IsFiniteSet(DOMAIN mkskipped) /\ Cardinality(DOMAIN mkskipped) <= MaxSkippedKeys
      /\ IsFiniteSet(DOMAIN start)
  BY DEF BoundInv, StoreBounded
<1>4. /\ IsFiniteSet(DOMAIN mkskipped')
      /\ Cardinality(DOMAIN mkskipped') <= Cardinality(DOMAIN mkskipped)
  BY <1>2, <1>3, FS_Subset
<1>5. Cardinality(DOMAIN mkskipped) \in Nat /\ Cardinality(DOMAIN mkskipped') \in Nat
  BY <1>3, <1>4, FS_CardinalityType
<1>6. StoreBounded'
  BY <1>3, <1>4, <1>5, SkipAssumption DEF StoreBounded
<1> QED BY <1>1, <1>3, <1>4, <1>6 DEF BoundInv, CallOK, HalfSurvives

(***************************************************************************)
(* Every step keeps it.                                                    *)
(***************************************************************************)
LEMMA BoundStep == BoundInv /\ [LoopNext]_loopVars => BoundInv'
<1> SUFFICES ASSUME BoundInv, [LoopNext]_loopVars PROVE BoundInv'
  OBVIOUS
<1>1. ASSUME NEW hk \in Chains, NEW from \in 0 .. MaxNumber, NEW to \in 0 .. MaxNumber,
             Call(hk, from, to)
      PROVE  BoundInv'
  BY <1>1, BoundCall
<1>2. CASE Round
  BY <1>2, BoundRound
<1>3. CASE Return
  <2>1. IsFiniteSet(DOMAIN EmptyStore)
    BY EmptyIsStore DEF IsStore
  <2> QED BY <1>3, <2>1 DEF Return, BoundInv, CallOK, StoreBounded, HalfSurvives
<1>4. ASSUME NEW k \in Chains \X (0 .. MaxNumber), Use(k)
      PROVE  BoundInv'
  BY <1>4, BoundUse
<1>5. CASE UNCHANGED loopVars
  BY <1>5 DEF loopVars, BoundInv, CallOK, StoreBounded, HalfSurvives
<1> QED BY <1>1, <1>2, <1>3, <1>4, <1>5 DEF LoopNext

(***************************************************************************)
(* The first invariant holds of every run of the loop.                     *)
(***************************************************************************)
THEOREM BoundInvariance == LoopSpec => []BoundInv
BY BoundInit, BoundStep, PTL DEF LoopSpec

(***************************************************************************)
(* MAX_SKIPPED_KEYS bounds the store in every round, whatever the clock    *)
(* does.                                                                   *)
(***************************************************************************)
THEOREM AlwaysBounded == LoopSpec => []StoreBounded
<1>1. BoundInv => StoreBounded
  BY DEF BoundInv
<1> QED BY <1>1, BoundInvariance, PTL

(***************************************************************************)
(* A call of skip_message_keys throws out no more of the keys it has found *)
(* than one eviction does, whatever the clock does.                        *)
(***************************************************************************)
THEOREM EnoughSurvives == LoopSpec => []HalfSurvives
<1>1. BoundInv => HalfSurvives
  BY DEF BoundInv
<1> QED BY <1>1, BoundInvariance, PTL

-----------------------------------------------------------------------------
(***************************************************************************)
(* The parts of the closed form SkipMessageKeys(m, ck, hk, from, to): the  *)
(* store just before number i when nothing was evicted yet, and the        *)
(* numbers before which the store is full.                                 *)
(***************************************************************************)
Entries(m, ck, hk, from, ns) == SkippedEntries(ck, hk, from, ns, Newest(m) + 1)

Before(m, ck, hk, from, i) == Insert(m, Entries(m, ck, hk, from, from .. i - 1))

FullAt(m, ck, hk, from, to) ==
    {i \in from .. to - 1 :
        Cardinality(DOMAIN Before(m, ck, hk, from, i)) >= MaxSkippedKeys}

Evicted(m, ck, hk, from, f) ==
    EvictOldestSkippedKeys(Before(m, ck, hk, from, f), MaxSkippedKeys \div 2)

(***************************************************************************)
(* SkipMessageKeys in terms of these parts.                                *)
(***************************************************************************)
LEMMA ClosedFormParts ==
    ASSUME NEW m, NEW ck, NEW hk, NEW from, NEW to
    PROVE  SkipMessageKeys(m, ck, hk, from, to) =
             IF FullAt(m, ck, hk, from, to) = {}
             THEN Before(m, ck, hk, from, to)
             ELSE LET f == Min(FullAt(m, ck, hk, from, to))
                  IN  Insert(Evicted(m, ck, hk, from, f),
                             Entries(m, ck, hk, from, f .. to - 1))
BY DEF SkipMessageKeys, FullAt, Before, Entries, Evicted

(***************************************************************************)
(* The store b is m with the entries for from .. i - 1 added, each stamped *)
(* one later than the one before.                                          *)
(***************************************************************************)
Extends(b, m, hk, from, i) ==
    /\ IsStore(b)
    /\ DOMAIN b = ({hk} \X (from .. i - 1)) \cup DOMAIN m
    /\ \A k \in {hk} \X (from .. i - 1) : b[k].timestamp = Newest(m) + 1 + k[2] - from
    /\ \A k \in DOMAIN m : k \notin {hk} \X (from .. i - 1) => b[k] = m[k]

(***************************************************************************)
(* Inserting the numbers before i does that.                               *)
(***************************************************************************)
LEMMA BeforeIs ==
    ASSUME NEW m, IsStore(m), NEW ck, NEW hk,
           NEW from \in Nat, NEW i \in Nat, from <= i
    PROVE  Extends(Before(m, ck, hk, from, i), m, hk, from, i)
<1> DEFINE t == Newest(m) + 1
           b == i - 1
<1>1. t \in Nat /\ \A k \in DOMAIN m : m[k].timestamp \in Nat /\ m[k].timestamp < t
  BY NewestIsNewest DEF IsStore
<1>2. b \in Int
  OBVIOUS
<1> HIDE DEF t, b
<1>3. \A k \in DOMAIN m : m[k].timestamp < t + from - from
  BY <1>1
<1>4. InsertedAfter(m, ck, hk, from, from, b, t)
  BY <1>1, <1>2, <1>3, InsertIsStore
<1> QED BY <1>4 DEF InsertedAfter, Extends, Before, Entries, t, b

(***************************************************************************)
(* What is left by an eviction before number f: a part of the store, with  *)
(* at most half of the capacity, all of it stored before f.                *)
(***************************************************************************)
LEMMA EvictedIs ==
    ASSUME NEW m, IsStore(m), NEW ck, NEW hk,
           NEW from \in Nat, NEW f \in Nat, from <= f
    PROVE  /\ IsStore(Evicted(m, ck, hk, from, f))
           /\ DOMAIN Evicted(m, ck, hk, from, f) \in SUBSET DOMAIN Before(m, ck, hk, from, f)
           /\ Cardinality(DOMAIN Evicted(m, ck, hk, from, f)) <= MaxSkippedKeys \div 2
           /\ \A k \in DOMAIN Evicted(m, ck, hk, from, f) :
                 Evicted(m, ck, hk, from, f)[k] = Before(m, ck, hk, from, f)[k]
<1>1. MaxSkippedKeys \div 2 \in Nat
  BY SkipAssumption
<1>2. IsStore(Before(m, ck, hk, from, f))
  BY BeforeIs DEF Extends
<1> QED BY <1>1, <1>2, EvictBounded DEF Evicted

(***************************************************************************)
(* The first number before which the store is full.                        *)
(***************************************************************************)
LEMMA FirstFull ==
    ASSUME NEW m, NEW ck, NEW hk, NEW from \in Nat, NEW to \in Nat,
           FullAt(m, ck, hk, from, to) # {}
    PROVE  /\ Min(FullAt(m, ck, hk, from, to)) \in from .. to - 1
           /\ Min(FullAt(m, ck, hk, from, to)) \in FullAt(m, ck, hk, from, to)
           /\ \A i \in FullAt(m, ck, hk, from, to) :
                 Min(FullAt(m, ck, hk, from, to)) <= i
<1> DEFINE F == FullAt(m, ck, hk, from, to)
<1>1. F \in SUBSET Nat /\ F \subseteq from .. to - 1
  BY DEF FullAt
<1> HIDE DEF F
<1>2. Min(F) \in F /\ \A i \in F : Min(F) <= i
  BY <1>1, MinExists DEF F
<1> QED BY <1>1, <1>2 DEF F

(***************************************************************************)
(* A store holds at most the sum of what it held and what is inserted.     *)
(***************************************************************************)
LEMMA InsertCardinality ==
    ASSUME NEW m, IsFiniteSet(DOMAIN m), NEW hk, NEW a \in Nat, NEW b \in Nat, a <= b,
           NEW e, DOMAIN e = {hk} \X (a .. b - 1)
    PROVE  /\ IsFiniteSet(DOMAIN Insert(m, e))
           /\ Cardinality(DOMAIN Insert(m, e)) <= Cardinality(DOMAIN m) + (b - a)
<1> DEFINE K == {hk} \X (a .. b - 1)
<1>1. IsFiniteSet({hk}) /\ Cardinality({hk}) = 1
  BY FS_Singleton, Zenon
<1>2. IsFiniteSet(a .. b - 1) /\ Cardinality(a .. b - 1) = b - a
  <2> DEFINE c == b - 1
  <2>1. c \in Int
    OBVIOUS
  <2>2. IsFiniteSet(a .. c) /\ Cardinality(a .. c) = IF a > c THEN 0 ELSE c - a + 1
    <3> HIDE DEF c
    <3> QED BY <2>1, FS_Interval
  <2> QED BY <2>2
<1>3. IsFiniteSet(K) /\ Cardinality(K) = Cardinality({hk}) * Cardinality(a .. b - 1)
  BY <1>1, <1>2, FS_Product
<1>4. Cardinality(K) = b - a
  BY <1>1, <1>2, <1>3
<1>5. DOMAIN Insert(m, e) = DOMAIN m \cup K
  BY DEF Insert
<1> HIDE DEF K
<1>6. /\ IsFiniteSet(DOMAIN m \cup K)
      /\ Cardinality(DOMAIN m \cup K) =
            Cardinality(DOMAIN m) + Cardinality(K) - Cardinality(DOMAIN m \cap K)
  BY <1>3, FS_Union
<1>7. IsFiniteSet(DOMAIN m \cap K)
  BY <1>3, FS_Intersection
<1>8. /\ Cardinality(DOMAIN m) \in Nat /\ Cardinality(K) \in Nat
      /\ Cardinality(DOMAIN m \cap K) \in Nat
  BY <1>3, <1>7, FS_CardinalityType
<1> QED BY <1>4, <1>5, <1>6, <1>8

(***************************************************************************)
(* The entry that the loop inserts for number c.                           *)
(***************************************************************************)
Entry(m, ck, hk, from, c) ==
    [k \in {<<hk, c>>} |-> [mk        |-> KdfCk(KdfCkIter(ck, c - from)).mk,
                            timestamp |-> Newest(m) + 1 + c - from]]

(***************************************************************************)
(* Inserting the entries up to c is inserting those up to c - 1 and then   *)
(* that for c.                                                             *)
(***************************************************************************)
LEMMA EntriesExtend ==
    ASSUME NEW m, NEW old, NEW ck, NEW hk, NEW from \in Nat, NEW a \in Nat, NEW c \in Nat,
           a <= c
    PROVE  Insert(old, Entries(m, ck, hk, from, a .. c)) =
              Insert(Insert(old, Entries(m, ck, hk, from, a .. c - 1)),
                     Entry(m, ck, hk, from, c))
<1> DEFINE new == Entries(m, ck, hk, from, a .. c)
           less == Entries(m, ck, hk, from, a .. c - 1)
           one == Entry(m, ck, hk, from, c)
           x == <<hk, c>>
           K == {hk} \X (a .. c - 1)
<1>1. /\ DOMAIN new = {hk} \X (a .. c)
      /\ DOMAIN less = K
      /\ DOMAIN one = {x}
  BY DEF Entries, SkippedEntries, Entry
<1>2. {hk} \X (a .. c) = K \cup {x} /\ x \notin K
  <2>1. a .. c = (a .. c - 1) \cup {c} /\ c \notin a .. c - 1
    OBVIOUS
  <2> QED BY <2>1
<1>3. \A k \in K : new[k] = less[k]
  <2>1. K \in SUBSET ({hk} \X (a .. c))
    BY <1>2
  <2> QED BY <2>1 DEF Entries, SkippedEntries
<1>4. new[x] = one[x]
  <2>1. x \in {hk} \X (a .. c)
    BY <1>2
  <2> QED BY <2>1 DEF Entries, SkippedEntries, Entry
<1> HIDE DEF new, less, one, x, K
<1> QED BY <1>1, <1>2, <1>3, <1>4 DEF Insert, new, less, one

(***************************************************************************)
(* The entries for the one number c.                                       *)
(***************************************************************************)
LEMMA EntriesOne ==
    ASSUME NEW m, NEW ck, NEW hk, NEW from \in Nat, NEW c \in Nat
    PROVE  Entries(m, ck, hk, from, c .. c) = Entry(m, ck, hk, from, c)
<1>1. {hk} \X (c .. c) = {<<hk, c>>}
  OBVIOUS
<1> QED BY <1>1 DEF Entries, SkippedEntries, Entry

(***************************************************************************)
(* One round: what the loop has built up to number c, with room made and   *)
(* the entry for c inserted, is what the closed form says of c + 1.  After *)
(* an eviction there is room for the rest of the call, since               *)
(* MAX_SKIP <= MAX_SKIPPED_KEYS - MAX_SKIPPED_KEYS / 2.                    *)
(***************************************************************************)
LEMMA ClosedFormStep ==
    ASSUME NEW m, IsStore(m), NEW ck, NEW hk, NEW from \in Nat, NEW c \in Nat,
           SkipAllowed(from, c + 1), from <= c,
           NEW r \in MakeRoom(SkipMessageKeys(m, ck, hk, from, c))
    PROVE  SkipMessageKeys(m, ck, hk, from, c + 1) = Insert(r, Entry(m, ck, hk, from, c))
<1> DEFINE half == MaxSkippedKeys \div 2
           F == FullAt(m, ck, hk, from, c)
           G == FullAt(m, ck, hk, from, c + 1)
           B == Before(m, ck, hk, from, c)
           one == Entry(m, ck, hk, from, c)
           s == SkipMessageKeys(m, ck, hk, from, c)
           s2 == SkipMessageKeys(m, ck, hk, from, c + 1)
<1>1. /\ half \in Nat /\ MaxSkippedKeys \in Nat /\ half < MaxSkippedKeys
      /\ MaxSkip \in Nat /\ MaxSkip <= MaxSkippedKeys - half
      /\ c + 1 - from <= MaxSkip
  BY SkipAssumption DEF SkipAllowed
<1>2. IsStore(B) /\ IsFiniteSet(DOMAIN B) /\ Cardinality(DOMAIN B) \in Nat
  <2>1. IsStore(B)
    BY BeforeIs DEF Extends
  <2> HIDE DEF B
  <2>2. IsFiniteSet(DOMAIN B)
    BY <2>1 DEF IsStore
  <2> QED BY <2>1, <2>2, FS_CardinalityType
<1>3. G = F \cup {i \in {c} : Cardinality(DOMAIN B) >= MaxSkippedKeys}
  <2>1. from .. (c + 1) - 1 = (from .. c - 1) \cup {c}
    OBVIOUS
  <2> QED BY <2>1 DEF FullAt
<1>4. r \in MakeRoom(s)
  OBVIOUS
<1>5. CASE F = {}
  <2>1. s = B
    BY <1>5, ClosedFormParts
  <2>2. CASE Cardinality(DOMAIN B) >= MaxSkippedKeys
    <3>1. G = {c}
      BY <1>3, <1>5, <2>2
    <3>2. Min(G) = c
      <4>1. Min(G) \in G
        BY <3>1, FirstFull
      <4> QED BY <4>1, <3>1
    <3>3. s2 = Insert(Evicted(m, ck, hk, from, c), Entries(m, ck, hk, from, c .. (c + 1) - 1))
      <4>1. G # {}
        BY <3>1
      <4> HIDE DEF G
      <4> QED BY <3>2, <4>1, ClosedFormParts DEF G
    <3>4. r \in Evictions(B, half)
      BY <1>4, <2>1, <2>2 DEF MakeRoom
    <3>5. r = EvictOldestSkippedKeys(B, half)
      <4> HIDE DEF B, half
      <4>1. half <= Cardinality(DOMAIN B)
        BY <1>1, <1>2, <2>2
      <4> QED BY <3>4, <4>1, <1>1, <1>2, EvictionsAreOldest
    <3>6. r = Evicted(m, ck, hk, from, c)
      BY <3>5 DEF Evicted
    <3>7. c .. (c + 1) - 1 = c .. c
      OBVIOUS
    <3> QED BY <3>3, <3>6, <3>7, EntriesOne
  <2>3. CASE ~(Cardinality(DOMAIN B) >= MaxSkippedKeys)
    <3>1. G = {}
      BY <1>3, <1>5, <2>3
    <3>2. s2 = Before(m, ck, hk, from, c + 1)
      BY <3>1, ClosedFormParts
    <3>3. r = B
      BY <1>4, <2>1, <2>3 DEF MakeRoom
    <3>4. (c + 1) - 1 = c
      OBVIOUS
    <3> QED BY <3>2, <3>3, <3>4, EntriesExtend DEF Before
  <2> QED BY <2>2, <2>3
<1>6. CASE F # {}
  <2> DEFINE f == Min(F)
             E == Evicted(m, ck, hk, from, f)
  <2>1. /\ f \in from .. c - 1
        /\ \A i \in F : f <= i
        /\ f \in F
    BY <1>6, FirstFull
  <2>2. Min(G) = f
    <3>1. G # {}
      BY <1>3, <1>6
    <3>2. /\ Min(G) \in G
          /\ \A i \in G : Min(G) <= i
      BY <3>1, FirstFull
    <3>3. f \in G
      BY <1>3, <2>1
    <3>4. Min(G) <= f
      BY <3>2, <3>3
    <3>5. Min(G) \in F \/ Min(G) = c
      BY <1>3, <3>2
    <3> HIDE DEF F, G
    <3>6. Min(G) \in F => f <= Min(G)
      BY <2>1
    <3>7. Min(G) \in Int
      BY <3>2 DEF G, FullAt
    <3> HIDE DEF f
    <3> QED BY <2>1, <3>4, <3>5, <3>6, <3>7
  <2>3. s = Insert(E, Entries(m, ck, hk, from, f .. c - 1))
    BY <1>6, ClosedFormParts
  <2>4. s2 = Insert(E, Entries(m, ck, hk, from, f .. c))
    <3>1. G # {} /\ (c + 1) - 1 = c
      BY <1>3, <1>6
    <3> HIDE DEF F, G
    <3> QED BY <3>1, <2>2, ClosedFormParts DEF G
  <2> HIDE DEF f
  <2>5. f \in Nat /\ f <= c /\ from <= f
    BY <2>1
  <2>6. IsFiniteSet(DOMAIN E) /\ Cardinality(DOMAIN E) <= half
    BY <2>5, EvictedIs DEF IsStore
  <2>7. /\ IsFiniteSet(DOMAIN s)
        /\ Cardinality(DOMAIN s) <= Cardinality(DOMAIN E) + (c - f)
    <3>1. DOMAIN Entries(m, ck, hk, from, f .. c - 1) = {hk} \X (f .. c - 1)
      BY DEF Entries, SkippedEntries
    <3> HIDE DEF E, s
    <3> QED BY <3>1, <2>3, <2>5, <2>6, InsertCardinality
  <2>8. Cardinality(DOMAIN E) \in Nat /\ Cardinality(DOMAIN s) \in Nat
    BY <2>6, <2>7, FS_CardinalityType
  <2> HIDE DEF E, s, half
  <2>9. Cardinality(DOMAIN s) < MaxSkippedKeys
    BY <2>5, <2>6, <2>7, <2>8, <1>1
  <2>10. r = s
    BY <1>1, <1>4, <2>8, <2>9 DEF MakeRoom
  <2> QED BY <2>3, <2>4, <2>5, <2>10, EntriesExtend
<1> QED BY <1>5, <1>6

(***************************************************************************)
(* Before its first round a call has done nothing.                         *)
(***************************************************************************)
LEMMA ClosedFormStart ==
    ASSUME NEW m, IsStore(m), NEW ck, NEW hk, NEW from \in Nat
    PROVE  SkipMessageKeys(m, ck, hk, from, from) = m
<1> DEFINE B == Before(m, ck, hk, from, from)
           e == Entries(m, ck, hk, from, from .. from - 1)
<1>1. from .. from - 1 = {}
  OBVIOUS
<1>2. FullAt(m, ck, hk, from, from) = {}
  BY <1>1 DEF FullAt
<1>3. SkipMessageKeys(m, ck, hk, from, from) = B
  BY <1>2, ClosedFormParts
<1>4. DOMAIN e = {}
  BY <1>1 DEF Entries, SkippedEntries
<1>5. B = Insert(m, e)
  BY DEF Before
<1> HIDE DEF B, e
<1>6. Insert(m, e) = [k \in DOMAIN m |-> m[k]]
  BY <1>4 DEF Insert
<1> QED BY <1>3, <1>5, <1>6 DEF IsStore

(***************************************************************************)
(* Making room changes no entry that it leaves.                            *)
(***************************************************************************)
LEMMA MakeRoomKeeps ==
    ASSUME NEW m, IsFiniteSet(DOMAIN m), NEW r \in MakeRoom(m)
    PROVE  /\ DOMAIN r \in SUBSET DOMAIN m
           /\ \A k \in DOMAIN r : r[k] = m[k]
<1> DEFINE half == MaxSkippedKeys \div 2
<1>1. half \in Nat /\ MaxSkippedKeys \in Nat /\ half < MaxSkippedKeys
  BY SkipAssumption
<1>2. CASE Cardinality(DOMAIN m) >= MaxSkippedKeys
  <2>1. r \in Evictions(m, half)
    BY <1>2 DEF MakeRoom
  <2> HIDE DEF half
  <2>2. half <= Cardinality(DOMAIN m)
    <3>1. Cardinality(DOMAIN m) \in Nat
      BY FS_CardinalityType
    <3> QED BY <3>1, <1>1, <1>2
  <2>3. PICK kept \in SUBSET DOMAIN m : r = Restrict(m, kept)
    BY <2>1, <2>2, <1>1, EvictionsKeep
  <2> QED BY <2>3 DEF Restrict
<1>3. CASE ~(Cardinality(DOMAIN m) >= MaxSkippedKeys)
  BY <1>3 DEF MakeRoom
<1> QED BY <1>2, <1>3

(***************************************************************************)
(* A store with one entry more, stamped one later than the newest.         *)
(***************************************************************************)
LEMMA NewestAfter ==
    ASSUME NEW m, IsStore(m), NEW n, IsStore(n), NEW x \in DOMAIN n,
           n[x].timestamp = Newest(m) + 1,
           \A k \in DOMAIN n : k # x => k \in DOMAIN m /\ n[k] = m[k]
    PROVE  Newest(n) = Newest(m) + 1
<1>1. Newest(m) \in Nat /\ \A k \in DOMAIN m : m[k].timestamp <= Newest(m)
  BY NewestIsNewest
<1>2. /\ Newest(n) \in Nat
      /\ \A k \in DOMAIN n : n[k].timestamp <= Newest(n)
      /\ Newest(n) = 0 \/ \E k \in DOMAIN n : n[k].timestamp = Newest(n)
  BY NewestIsNewest
<1>3. Newest(m) + 1 <= Newest(n)
  BY <1>2
<1>4. PICK k \in DOMAIN n : n[k].timestamp = Newest(n)
  BY <1>1, <1>2, <1>3
<1>5. CASE k = x
  BY <1>4, <1>5
<1>6. CASE k # x
  <2>1. Newest(n) <= Newest(m)
    BY <1>1, <1>4, <1>6
  <2> QED BY <2>1, <1>1, <1>2, <1>3
<1> QED BY <1>5, <1>6

-----------------------------------------------------------------------------
(***************************************************************************)
(* The invariant under a clock that only moves on: in every round the      *)
(* store is the closed form up to the current number, and its newest stamp *)
(* has moved by one for each insertion.                                    *)
(***************************************************************************)
SteadyInv ==
    steady =>
        /\ IsStore(mkskipped)
        /\ call # None =>
              /\ call.from \in Nat
              /\ call.to \in Nat
              /\ current \in call.from .. call.to
              /\ SkipAllowed(call.from, call.to)
              /\ IsStore(start)
              /\ Cardinality(DOMAIN start) <= MaxSkippedKeys
              /\ mkskipped = SkipMessageKeys(start, <<call.hk, call.from>>,
                                             call.hk, call.from, current)
              /\ Newest(mkskipped) = Newest(start) + (current - call.from)

(***************************************************************************)
(* Both together are inductive.                                            *)
(***************************************************************************)
LoopInv == BoundInv /\ SteadyInv

(***************************************************************************)
(* A round keeps the second invariant.                                     *)
(***************************************************************************)
LEMMA SteadyRound ==
    ASSUME LoopInv, Round, steady'
    PROVE  SteadyInv'
<1> DEFINE hk == call.hk
           from == call.from
           ck == <<hk, from>>
           c == current
<1>1. PICK r \in MakeRoom(mkskipped), step \in ClockSteps :
         /\ mkskipped' = Inserted(r, step)
         /\ steady' = (steady /\ step > 0)
  BY DEF Round
<1>2. step = 1
  <2>1. step > 0
    BY <1>1, Zenon
  <2>2. step \in Int /\ step <= 1
    BY LoopAssumption
  <2> QED BY <2>1, <2>2
<1>3. /\ steady /\ call # None /\ c < call.to
      /\ call' = call /\ start' = start /\ current' = c + 1
  BY <1>1 DEF Round
<1>4. /\ IsStore(mkskipped)
      /\ from \in Nat /\ call.to \in Nat /\ c \in from .. call.to
      /\ SkipAllowed(from, call.to)
      /\ IsStore(start)
      /\ Cardinality(DOMAIN start) <= MaxSkippedKeys
      /\ mkskipped = SkipMessageKeys(start, ck, hk, from, c)
      /\ Newest(mkskipped) = Newest(start) + (c - from)
  BY <1>3 DEF LoopInv, SteadyInv
<1>5. Newest(start) \in Nat
  BY <1>4, NewestIsNewest
<1>6. /\ c \in Nat /\ from <= c /\ c + 1 \in from .. call.to
      /\ SkipAllowed(from, c + 1)
  <2>1. MaxSkip \in Nat
    BY SkipAssumption
  <2> HIDE DEF from, c
  <2> QED BY <2>1, <1>3, <1>4 DEF SkipAllowed
<1>7. mkskipped' = Insert(r, Entry(start, ck, hk, from, c))
  <2>1. Newest(mkskipped) + step = Newest(start) + 1 + c - from
    <3> HIDE DEF from, c
    <3> QED BY <1>2, <1>4, <1>5, <1>6
  <2> QED BY <1>1, <2>1 DEF Inserted, Entry
<1> HIDE DEF hk, from, ck, c
<1>8. mkskipped' = SkipMessageKeys(start, ck, hk, from, c + 1)
  BY <1>1, <1>4, <1>6, <1>7, ClosedFormStep
<1>9. IsStore(mkskipped')
  BY <1>4, <1>6, <1>8, SkipMessageKeysBounded
<1>10. Newest(mkskipped') = Newest(mkskipped) + 1
  <2> DEFINE x == <<hk, c>>
             one == Entry(start, ck, hk, from, c)
  <2>1. IsFiniteSet(DOMAIN mkskipped)
    BY <1>4 DEF IsStore
  <2>2. /\ DOMAIN r \in SUBSET DOMAIN mkskipped
        /\ \A k \in DOMAIN r : r[k] = mkskipped[k]
    BY <2>1, <1>1, MakeRoomKeeps
  <2>3. DOMAIN one = {x} /\ one[x].timestamp = Newest(start) + 1 + c - from
    BY DEF Entry
  <2> HIDE DEF one, x
  <2>4. /\ x \in DOMAIN mkskipped'
        /\ mkskipped'[x] = one[x]
        /\ \A k \in DOMAIN mkskipped' : k # x => k \in DOMAIN r /\ mkskipped'[k] = r[k]
    BY <2>3, <1>7 DEF Insert, one
  <2>5. mkskipped'[x].timestamp = Newest(mkskipped) + 1
    BY <2>3, <2>4, <1>4, <1>5, <1>6
  <2> QED BY <2>2, <2>4, <2>5, <1>4, <1>9, NewestAfter
<1>11. Newest(mkskipped') = Newest(start) + ((c + 1) - from)
  BY <1>4, <1>5, <1>6, <1>10
<1> QED BY <1>3, <1>4, <1>6, <1>8, <1>9, <1>11 DEF SteadyInv, hk, from, ck, c

(***************************************************************************)
(* Every step keeps both invariants.                                       *)
(***************************************************************************)
LEMMA LoopStep == LoopInv /\ [LoopNext]_loopVars => LoopInv'
<1> SUFFICES ASSUME LoopInv, [LoopNext]_loopVars PROVE LoopInv'
  OBVIOUS
<1>1. BoundInv'
  BY BoundStep DEF LoopInv
<1>2. SUFFICES ASSUME steady' PROVE SteadyInv'
  BY <1>1 DEF LoopInv, SteadyInv
<1>3. ASSUME NEW hk \in Chains, NEW from \in 0 .. MaxNumber, NEW to \in 0 .. MaxNumber,
             Call(hk, from, to)
      PROVE  SteadyInv'
  <2>1. /\ call' = [hk |-> hk, from |-> from, to |-> to]
        /\ current' = from /\ start' = mkskipped
        /\ mkskipped' = mkskipped /\ steady
        /\ SkipAllowed(from, to)
    BY <1>2, <1>3 DEF Call
  <2>2. IsStore(mkskipped) /\ Cardinality(DOMAIN mkskipped) <= MaxSkippedKeys
    BY <2>1 DEF LoopInv, SteadyInv, BoundInv, StoreBounded
  <2>3. from \in Nat /\ to \in Nat /\ from \in from .. to
    BY <2>1, LoopAssumption DEF SkipAllowed
  <2>4. mkskipped = SkipMessageKeys(mkskipped, <<hk, from>>, hk, from, from)
    BY <2>2, <2>3, ClosedFormStart
  <2>5. Newest(mkskipped) = Newest(mkskipped) + (from - from)
    <3>1. Newest(mkskipped) \in Nat
      BY <2>2, NewestIsNewest
    <3> QED BY <3>1, <2>3
  <2>6. call'.hk = hk /\ call'.from = from /\ call'.to = to
    BY <2>1
  <2> QED BY <2>1, <2>2, <2>3, <2>4, <2>5, <2>6 DEF SteadyInv
<1>4. CASE Round
  BY <1>2, <1>4, SteadyRound
<1>5. CASE Return
  BY <1>5 DEF Return, LoopInv, SteadyInv
<1>6. ASSUME NEW k \in Chains \X (0 .. MaxNumber), Use(k)
      PROVE  SteadyInv'
  <2>1. /\ call = None /\ call' = call /\ steady' = steady
        /\ mkskipped' = Restrict(mkskipped, DOMAIN mkskipped \ {k})
    BY <1>6 DEF Use
  <2>2. IsStore(mkskipped)
    BY <1>2, <2>1 DEF LoopInv, SteadyInv
  <2>3. DOMAIN mkskipped \ {k} \in SUBSET DOMAIN mkskipped
    OBVIOUS
  <2>4. IsStore(mkskipped')
    BY <2>1, <2>2, <2>3, RestrictIsStore
  <2> QED BY <2>1, <2>4 DEF SteadyInv
<1>7. CASE UNCHANGED loopVars
  BY <1>7 DEF loopVars, LoopInv, SteadyInv
<1> QED BY <1>3, <1>4, <1>5, <1>6, <1>7 DEF LoopNext

(***************************************************************************)
(* Both invariants hold of every run of the loop.                          *)
(***************************************************************************)
THEOREM LoopInvariance == LoopSpec => []LoopInv
<1>1. LoopInit => LoopInv
  BY BoundInit, EmptyIsStore DEF LoopInit, LoopInv, SteadyInv
<1> QED BY <1>1, LoopStep, PTL DEF LoopSpec

(***************************************************************************)
(* As long as each stamp is newer than all before it, the loop computes    *)
(* the closed form on which the proofs about sessions are built.           *)
(***************************************************************************)
THEOREM ClosedForm == LoopSpec => []LoopIsClosedForm
<1>1. LoopInv => LoopIsClosedForm
  BY DEF LoopInv, SteadyInv, LoopIsClosedForm, SteadyDone
<1> QED BY <1>1, LoopInvariance, PTL

-----------------------------------------------------------------------------
(***************************************************************************)
(* An eviction before number f keeps the numbers that the call stored      *)
(* itself: fewer than half of the capacity are newer than any of them.     *)
(***************************************************************************)
LEMMA OwnEntriesStay ==
    ASSUME NEW m, IsStore(m), NEW ck, NEW hk, NEW from \in Nat, NEW f \in Nat,
           from <= f, f + 1 - from <= MaxSkip
    PROVE  {hk} \X (from .. f - 1) \subseteq DOMAIN Evicted(m, ck, hk, from, f)
<1> DEFINE half == MaxSkippedKeys \div 2
           B == Before(m, ck, hk, from, f)
           K == {hk} \X (from .. f - 1)
           newer(k) == {j \in DOMAIN B : B[j].timestamp > B[k].timestamp}
           t == Newest(m) + 1
<1>1. /\ half \in Nat /\ MaxSkip \in Nat /\ MaxSkip <= half + 1
  BY SkipAssumption
<1>2. t \in Nat /\ \A k \in DOMAIN m : m[k].timestamp \in Nat /\ m[k].timestamp < t
  BY NewestIsNewest DEF IsStore
<1>3. /\ IsStore(B) /\ DOMAIN B = K \cup DOMAIN m
      /\ \A k \in K : B[k].timestamp = t + k[2] - from
      /\ \A k \in DOMAIN m : k \notin K => B[k] = m[k]
  <2>1. Extends(B, m, hk, from, f)
    BY BeforeIs
  <2> QED BY <2>1 DEF Extends
<1>4. \A k \in K : k = <<hk, k[2]>> /\ k[2] \in from .. f - 1
  OBVIOUS
<1> HIDE DEF half, B, K, t
<1> SUFFICES ASSUME NEW k \in K
             PROVE  k \in DOMAIN Evicted(m, ck, hk, from, f)
  BY DEF K
<1>5. /\ B[k].timestamp = t + k[2] - from
      /\ k[2] \in Nat /\ from <= k[2] /\ k[2] < f
  BY <1>3, <1>4
<1> DEFINE L == {hk} \X (k[2] + 1 .. f - 1)
<1>6. newer(k) \in SUBSET L
  <2> SUFFICES ASSUME NEW j \in DOMAIN B, B[j].timestamp > B[k].timestamp
               PROVE  j \in L
    OBVIOUS
  <2>1. CASE j \in K
    <3>1. j = <<hk, j[2]>> /\ j[2] \in from .. f - 1 /\ B[j].timestamp = t + j[2] - from
      BY <2>1, <1>3, <1>4
    <3>2. j[2] \in k[2] + 1 .. f - 1
      BY <3>1, <1>2, <1>5
    <3> QED BY <3>1, <3>2
  <2>2. CASE j \notin K
    <3>1. B[j].timestamp < t /\ B[j].timestamp \in Nat
      BY <2>2, <1>2, <1>3
    <3> QED BY <3>1, <1>2, <1>5
  <2> QED BY <2>1, <2>2
<1>7. IsFiniteSet(L) /\ Cardinality(L) = f - 1 - k[2]
  <2> DEFINE a == k[2] + 1
             b == f - 1
  <2>1. a \in Int /\ b \in Int /\ a <= b + 1
    BY <1>5
  <2>2. IsFiniteSet(a .. b) /\ Cardinality(a .. b) = IF a > b THEN 0 ELSE b - a + 1
    <3> HIDE DEF a, b
    <3> QED BY <2>1, FS_Interval
  <2>3. Cardinality(a .. b) = f - 1 - k[2]
    BY <2>2, <1>5
  <2>4. IsFiniteSet({hk}) /\ Cardinality({hk}) = 1
    BY FS_Singleton, Zenon
  <2>5. IsFiniteSet(L) /\ Cardinality(L) = Cardinality({hk}) * Cardinality(a .. b)
    <3> HIDE DEF a, b
    <3>1. /\ IsFiniteSet({hk} \X (a .. b))
          /\ Cardinality({hk} \X (a .. b)) = Cardinality({hk}) * Cardinality(a .. b)
      BY <2>2, <2>4, FS_Product
    <3> QED BY <3>1 DEF a, b
  <2> HIDE DEF a, b, L
  <2> QED BY <2>3, <2>4, <2>5, <1>5
<1> HIDE DEF L
<1>8. Cardinality(newer(k)) <= Cardinality(L) /\ IsFiniteSet(newer(k))
  BY <1>6, <1>7, FS_Subset
<1>9. Cardinality(newer(k)) \in Nat
  BY <1>8, FS_CardinalityType
<1>10. Cardinality(newer(k)) < half
  <2> HIDE DEF newer
  <2> QED BY <1>1, <1>5, <1>7, <1>8, <1>9
<1>11. k \in DOMAIN B
  BY <1>3
<1> QED BY <1>10, <1>11 DEF Evicted, EvictOldestSkippedKeys, Restrict, B, half

(***************************************************************************)
(* The closed form holds the keys of the gap it was called for.            *)
(***************************************************************************)
LEMMA ClosedFormHoldsGap ==
    ASSUME NEW m, IsStore(m), NEW ck, NEW hk, NEW from \in Nat, NEW to \in Nat,
           SkipAllowed(from, to)
    PROVE  {hk} \X (from .. to - 1) \subseteq DOMAIN SkipMessageKeys(m, ck, hk, from, to)
<1> DEFINE F == FullAt(m, ck, hk, from, to)
           K == {hk} \X (from .. to - 1)
           result == SkipMessageKeys(m, ck, hk, from, to)
<1>1. from <= to /\ to - from <= MaxSkip /\ MaxSkip \in Nat
  BY SkipAssumption DEF SkipAllowed
<1>2. CASE F = {}
  <2>1. result = Before(m, ck, hk, from, to)
    BY <1>2, ClosedFormParts
  <2>2. Extends(Before(m, ck, hk, from, to), m, hk, from, to)
    BY <1>1, BeforeIs
  <2>3. DOMAIN result = K \cup DOMAIN m
    BY <2>1, <2>2 DEF Extends
  <2> QED BY <2>3
<1>3. CASE F # {}
  <2> DEFINE f == Min(F)
             E == Evicted(m, ck, hk, from, f)
  <2>1. f \in from .. to - 1
    BY <1>3, FirstFull
  <2>2. result = Insert(E, Entries(m, ck, hk, from, f .. to - 1))
    BY <1>3, ClosedFormParts
  <2> HIDE DEF f
  <2>3. f \in Nat /\ from <= f /\ f + 1 - from <= MaxSkip
    BY <2>1, <1>1
  <2>4. {hk} \X (from .. f - 1) \subseteq DOMAIN E
    BY <2>3, OwnEntriesStay
  <2>5. DOMAIN result = DOMAIN E \cup ({hk} \X (f .. to - 1))
    BY <2>2 DEF Insert, Entries, SkippedEntries
  <2>6. from .. to - 1 = (from .. f - 1) \cup (f .. to - 1)
    BY <2>1
  <2>7. K = ({hk} \X (from .. f - 1)) \cup ({hk} \X (f .. to - 1))
    BY <2>6
  <2> QED BY <2>4, <2>5, <2>7
<1> QED BY <1>2, <1>3

(***************************************************************************)
(* Of the entries that were there, the closed form throws out older ones   *)
(* than it leaves.                                                         *)
(***************************************************************************)
LEMMA ClosedFormDropsOldest ==
    ASSUME NEW m, IsStore(m), NEW ck, NEW hk, NEW from \in Nat, NEW to \in Nat,
           SkipAllowed(from, to),
           NEW k \in DOMAIN m \ DOMAIN SkipMessageKeys(m, ck, hk, from, to),
           NEW j \in DOMAIN m \cap DOMAIN SkipMessageKeys(m, ck, hk, from, to),
           SkipMessageKeys(m, ck, hk, from, to)[j] = m[j]
    PROVE  m[k].timestamp < m[j].timestamp
<1> DEFINE F == FullAt(m, ck, hk, from, to)
           K == {hk} \X (from .. to - 1)
           result == SkipMessageKeys(m, ck, hk, from, to)
           half == MaxSkippedKeys \div 2
           t == Newest(m) + 1
<1>1. from <= to /\ to - from <= MaxSkip /\ MaxSkip \in Nat
  BY SkipAssumption DEF SkipAllowed
<1>2. t \in Nat /\ \A i \in DOMAIN m : m[i].timestamp \in Nat /\ m[i].timestamp < t
  BY NewestIsNewest DEF IsStore
<1>3. k \notin K
  BY ClosedFormHoldsGap
<1>4. F # {}
  <2> SUFFICES ASSUME F = {} PROVE FALSE
    OBVIOUS
  <2>1. result = Before(m, ck, hk, from, to)
    BY ClosedFormParts
  <2>2. Extends(Before(m, ck, hk, from, to), m, hk, from, to)
    BY <1>1, BeforeIs
  <2>3. DOMAIN result = K \cup DOMAIN m
    BY <2>1, <2>2 DEF Extends
  <2>4. k \in DOMAIN m /\ k \notin DOMAIN result
    OBVIOUS
  <2> HIDE DEF result
  <2> QED BY <2>3, <2>4
<1> DEFINE f == Min(F)
           B == Before(m, ck, hk, from, f)
           E == Evicted(m, ck, hk, from, f)
           newer(i) == {x \in DOMAIN B : B[x].timestamp > B[i].timestamp}
           late == Entries(m, ck, hk, from, f .. to - 1)
<1>5. f \in from .. to - 1
  BY <1>4, FirstFull
<1>6. result = Insert(E, late)
  BY <1>4, ClosedFormParts
<1> HIDE DEF F, f
<1>7. f \in Nat /\ from <= f
  BY <1>5
<1>8. /\ IsStore(B)
      /\ DOMAIN B = ({hk} \X (from .. f - 1)) \cup DOMAIN m
      /\ \A i \in DOMAIN m : i \notin {hk} \X (from .. f - 1) => B[i] = m[i]
  <2>1. Extends(B, m, hk, from, f)
    BY <1>7, BeforeIs
  <2> QED BY <2>1 DEF Extends
<1>9. B[k] = m[k] /\ k \in DOMAIN B
  <2>1. from .. f - 1 \in SUBSET (from .. to - 1)
    BY <1>5
  <2>2. k \notin {hk} \X (from .. f - 1)
    BY <2>1, <1>3
  <2> HIDE DEF B
  <2> QED BY <2>2, <1>8
<1>10. /\ DOMAIN late = {hk} \X (f .. to - 1)
       /\ \A i \in DOMAIN late : late[i].timestamp = t + i[2] - from /\ i[2] \in f .. to - 1
  BY DEF Entries, SkippedEntries
<1>11. j \notin DOMAIN late
  <2> SUFFICES ASSUME j \in DOMAIN late PROVE FALSE
    OBVIOUS
  <2> HIDE DEF late
  <2>1. result[j] = late[j]
    BY <1>6 DEF Insert
  <2>2. m[j].timestamp = t + j[2] - from /\ j[2] \in f .. to - 1
    BY <2>1, <1>10
  <2> HIDE DEF result, t
  <2> QED BY <2>2, <1>2, <1>7
<1>12. /\ DOMAIN E \in SUBSET DOMAIN B
       /\ \A i \in DOMAIN E : E[i] = B[i]
  BY <1>7, EvictedIs
<1>13. j \in DOMAIN E /\ result[j] = E[j] /\ k \notin DOMAIN E
  <2> HIDE DEF late, E
  <2> QED BY <1>6, <1>11 DEF Insert
<1>14. B[j] = m[j] /\ j \in DOMAIN B
  <2> HIDE DEF B, E
  <2> QED BY <1>12, <1>13
<1>15. DOMAIN E = {i \in DOMAIN B : Cardinality(newer(i)) < half}
  BY DEF Evicted, EvictOldestSkippedKeys, Restrict
<1>16. Cardinality(newer(j)) < half /\ ~(Cardinality(newer(k)) < half)
  <2> HIDE DEF newer, B, E
  <2> QED BY <1>9, <1>13, <1>14, <1>15
<1>17. \A i \in DOMAIN B : IsFiniteSet(newer(i)) /\ Cardinality(newer(i)) \in Nat
  <2> HIDE DEF B
  <2> TAKE i \in DOMAIN B
  <2>1. IsFiniteSet(newer(i))
    BY <1>8, FS_Subset DEF IsStore
  <2> HIDE DEF newer
  <2> QED BY <2>1, FS_CardinalityType
<1> SUFFICES ASSUME ~(m[k].timestamp < m[j].timestamp) PROVE FALSE
  OBVIOUS
<1>18. newer(k) \in SUBSET newer(j)
  <2> HIDE DEF B
  <2>1. \A x \in DOMAIN B : B[x].timestamp \in Nat
    BY <1>8 DEF IsStore
  <2> QED BY <2>1, <1>9, <1>14
<1>19. Cardinality(newer(k)) <= Cardinality(newer(j))
  <2> HIDE DEF newer, B
  <2> QED BY <1>14, <1>17, <1>18, FS_Subset
<1>20. half \in Nat
  BY SkipAssumption
<1> HIDE DEF newer, B, half
<1> QED BY <1>9, <1>14, <1>16, <1>17, <1>19, <1>20

(***************************************************************************)
(* As long as the clock is strictly increasing, a call of                  *)
(* skip_message_keys never evicts a key of the gap it opens.               *)
(***************************************************************************)
THEOREM GapKeysAreStored == LoopSpec => []GapIsStored
<1>1. LoopInv => GapIsStored
  <2> SUFFICES ASSUME LoopInv, SteadyDone
               PROVE  {call.hk} \X (call.from .. call.to - 1) \subseteq DOMAIN mkskipped
    BY DEF GapIsStored
  <2> QED BY ClosedFormHoldsGap DEF LoopInv, SteadyInv, SteadyDone
<1> QED BY <1>1, LoopInvariance, PTL

(***************************************************************************)
(* As long as the clock is strictly increasing, what a call of             *)
(* skip_message_keys throws out is older than what it leaves.              *)
(***************************************************************************)
THEOREM OldestKeysGo == LoopSpec => []OldestGoFirst
<1>1. LoopInv => OldestGoFirst
  <2> SUFFICES ASSUME LoopInv, SteadyDone,
                      NEW k \in DOMAIN start \ DOMAIN mkskipped,
                      NEW j \in DOMAIN start \cap DOMAIN mkskipped,
                      mkskipped[j] = start[j]
               PROVE  start[k].timestamp < start[j].timestamp
    BY DEF OldestGoFirst
  <2> DEFINE result == SkipMessageKeys(start, <<call.hk, call.from>>,
                                       call.hk, call.from, call.to)
  <2>1. /\ IsStore(start) /\ call.from \in Nat /\ call.to \in Nat
        /\ SkipAllowed(call.from, call.to)
        /\ mkskipped = result
    BY DEF LoopInv, SteadyInv, SteadyDone
  <2>2. /\ k \in DOMAIN start \ DOMAIN result
        /\ j \in DOMAIN start \cap DOMAIN result
        /\ result[j] = start[j]
    BY <2>1
  <2> QED BY <2>1, <2>2, ClosedFormDropsOldest
<1> QED BY <1>1, LoopInvariance, PTL

=============================================================================
