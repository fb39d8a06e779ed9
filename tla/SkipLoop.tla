------------------------------ MODULE SkipLoop ------------------------------
(***************************************************************************)
(* skip_message_keys of src/src/ratchet.rs, one insertion at a time, with  *)
(* the clock as it is: SystemTime::now() may show the same time twice, and *)
(* may go back when the host adjusts it.  Between calls the store is used  *)
(* as decrypt uses it, one key at a time.                                  *)
(***************************************************************************)
EXTENDS SkippedKeys

CONSTANTS
    Chains,         \* receiving chains; a chain's header key is named like it
    MaxNumber,      \* bound: message numbers
    MaxCalls,       \* bound: calls of skip_message_keys
    ClockSteps      \* how a stamp may differ from the newest one stored

(***************************************************************************)
(* Stamps are positions in time: one newer than all before it is one later *)
(* than the newest.                                                        *)
(***************************************************************************)
ASSUME LoopAssumption ==
    /\ MaxNumber \in Nat
    /\ ClockSteps \subseteq Int
    /\ \A step \in ClockSteps : step <= 1

VARIABLES
    mkskipped,      \* the store
    call,           \* the arguments of the running call, None between calls
    current,        \* the next number to store
    start,          \* history: the store when the call began
    calls,          \* history: number of calls
    steady          \* history: each stamp was newer than all before it

loopVars == <<mkskipped, call, current, start, calls, steady>>

LoopInit ==
    /\ mkskipped = EmptyStore
    /\ call = None
    /\ current = 0
    /\ start = EmptyStore
    /\ calls = 0
    /\ steady = TRUE

(***************************************************************************)
(* Entry.  A call that its guards refuse returns at once.                  *)
(***************************************************************************)
Call(hk, from, to) ==
    /\ call = None
    /\ calls < MaxCalls
    /\ SkipAllowed(from, to)
    /\ call' = [hk |-> hk, from |-> from, to |-> to]
    /\ current' = from
    /\ start' = mkskipped
    /\ calls' = calls + 1
    /\ UNCHANGED <<mkskipped, steady>>

\* Mutations: entries are not sorted; they are sorted newest first.
EvictionsUnsorted(m, target) ==
    {Restrict(m, kept) : kept \in kSubset(Min({target, Cardinality(DOMAIN m)}), DOMAIN m)}

EvictionsOfNewest(m, target) ==
    {Restrict(m, kept) : kept \in
        {k \in kSubset(Min({target, Cardinality(DOMAIN m)}), DOMAIN m) :
            \A x \in k, y \in DOMAIN m \ k : m[x].timestamp <= m[y].timestamp}}

(***************************************************************************)
(* evict_oldest_skipped_keys under any clock: the entries are sorted by    *)
(* their stamps, entries of one stamp in the order of the hash map, which  *)
(* may be any.                                                             *)
(***************************************************************************)
Evictions(m, target) ==
    {Restrict(m, kept) : kept \in
        {k \in kSubset(Min({target, Cardinality(DOMAIN m)}), DOMAIN m) :
            \A x \in k, y \in DOMAIN m \ k : m[y].timestamp <= m[x].timestamp}}

\* Mutations: room is made one entry late; one entry too many is evicted.
MakeRoomLate(m) ==
    IF Cardinality(DOMAIN m) > MaxSkippedKeys
    THEN Evictions(m, MaxSkippedKeys \div 2)
    ELSE {m}

MakeRoomAndOne(m) ==
    IF Cardinality(DOMAIN m) >= MaxSkippedKeys
    THEN Evictions(m, MaxSkippedKeys \div 2 - 1)
    ELSE {m}

(***************************************************************************)
(* One round of the loop.                                                  *)
(***************************************************************************)
MakeRoom(m) ==
    IF Cardinality(DOMAIN m) >= MaxSkippedKeys
    THEN Evictions(m, MaxSkippedKeys \div 2)
    ELSE {m}

Inserted(m, step) ==
    Insert(m, [k \in {<<call.hk, current>>} |->
                 [mk        |-> KdfCk(KdfCkIter(<<call.hk, call.from>>, current - call.from)).mk,
                  timestamp |-> Newest(mkskipped) + step]])

Round ==
    /\ call # None
    /\ current < call.to
    /\ \E m \in MakeRoom(mkskipped), step \in ClockSteps :
          /\ mkskipped' = Inserted(m, step)
          /\ steady' = (steady /\ step > 0)
    /\ current' = current + 1
    /\ UNCHANGED <<call, start, calls>>

Return ==
    /\ call # None
    /\ current = call.to
    /\ call' = None
    /\ current' = 0
    /\ start' = EmptyStore
    /\ UNCHANGED <<mkskipped, calls, steady>>

(***************************************************************************)
(* try_skipped_message_keys takes a key out.                               *)
(***************************************************************************)
Use(k) ==
    /\ call = None
    /\ k \in DOMAIN mkskipped
    /\ mkskipped' = Restrict(mkskipped, DOMAIN mkskipped \ {k})
    /\ UNCHANGED <<call, current, start, calls, steady>>

LoopNext ==
    \/ \E hk \in Chains, from, to \in 0 .. MaxNumber : Call(hk, from, to)
    \/ Round
    \/ Return
    \/ \E k \in Chains \X (0 .. MaxNumber) : Use(k)

LoopSpec == LoopInit /\ [][LoopNext]_loopVars

-----------------------------------------------------------------------------
SteadyDone == steady /\ call # None /\ current = call.to

(***************************************************************************)
(* As long as the clock is strictly increasing, the loop computes what     *)
(* SkipMessageKeys says in closed form, which is what Session is built on. *)
(***************************************************************************)
LoopIsClosedForm ==
    SteadyDone => mkskipped = SkipMessageKeys(start, <<call.hk, call.from>>,
                                              call.hk, call.from, call.to)

(***************************************************************************)
(* As long as the clock is strictly increasing, a call never evicts what   *)
(* it stored itself: the keys of the gap that was just opened are there    *)
(* when it returns, also when the store was full.                          *)
(***************************************************************************)
GapIsStored ==
    SteadyDone => {call.hk} \X (call.from .. call.to - 1) \subseteq DOMAIN mkskipped

(***************************************************************************)
(* As long as the clock is strictly increasing, eviction takes the oldest: *)
(* a key that a call threw out is older than each older key that it left.  *)
(***************************************************************************)
OldestGoFirst ==
    SteadyDone =>
        \A k \in DOMAIN start \ DOMAIN mkskipped :
            \A j \in DOMAIN start \cap DOMAIN mkskipped :
                mkskipped[j] = start[j] => start[k].timestamp < start[j].timestamp

(***************************************************************************)
(* Under any clock, and in every round, the store stays within its bound.  *)
(***************************************************************************)
StoreBounded == Cardinality(DOMAIN mkskipped) <= MaxSkippedKeys

(***************************************************************************)
(* Under any clock, a call throws out no more of the keys it has found     *)
(* than one eviction down to half of the capacity does.                    *)
(***************************************************************************)
HalfSurvives ==
    call # None =>
        Cardinality(DOMAIN start \ DOMAIN mkskipped)
            <= MaxSkippedKeys - MaxSkippedKeys \div 2

=============================================================================
