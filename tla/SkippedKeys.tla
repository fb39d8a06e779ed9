---------------------------- MODULE SkippedKeys ----------------------------
(***************************************************************************)
(* The store of skipped message keys, `mkskipped` in src/src/ratchet.rs: a *)
(* map from a header key and a message number to a message key and the     *)
(* time at which it was stored.                                            *)
(*                                                                         *)
(* Times are the positions of the insertions: SystemTime::now() is taken   *)
(* to be strictly increasing.  SkipLoop.tla drops that assumption, walks   *)
(* through the loop one insertion at a time, and checks the closed form    *)
(* SkipMessageKeys of this module against it.                              *)
(***************************************************************************)
EXTENDS KeySchedule, FiniteSetsExt

CONSTANTS
    MaxSkip,            \* MAX_SKIP
    MaxSkippedKeys      \* MAX_SKIPPED_KEYS

(***************************************************************************)
(* What the code's constants (1000 and 2000) satisfy: after an eviction    *)
(* the keys of one whole call still fit.                                   *)
(***************************************************************************)
ASSUME SkipAssumption ==
    /\ MaxSkip \in Nat
    /\ MaxSkippedKeys \in Nat \ {0}
    /\ MaxSkip <= MaxSkippedKeys - (MaxSkippedKeys \div 2)

EmptyStore == [k \in {} |-> None]

(***************************************************************************)
(* HashMap::insert for all the entries of e.                               *)
(***************************************************************************)
Insert(m, e) ==
    [k \in DOMAIN m \cup DOMAIN e |-> IF k \in DOMAIN e THEN e[k] ELSE m[k]]

Newest(m) == Max({0} \cup {m[k].timestamp : k \in DOMAIN m})

(***************************************************************************)
(* evict_oldest_skipped_keys: the `target` newest keys remain.             *)
(***************************************************************************)
EvictOldestSkippedKeys(m, target) ==
    LET newer(k) == {j \in DOMAIN m : m[j].timestamp > m[k].timestamp}
    IN  Restrict(m, {k \in DOMAIN m : Cardinality(newer(k)) < target})

(***************************************************************************)
(* What the guards of skip_message_keys let through.                       *)
(***************************************************************************)
SkipAllowed(from, to) == from <= to /\ to - from <= MaxSkip

\* Mutation: the loop derives before it stores.
EntriesOneAhead(ck, hk, from, ns, t) ==
    [k \in {hk} \X ns |->
        [mk        |-> KdfCk(KdfCkIter(ck, k[2] - from + 1)).mk,
         timestamp |-> t + k[2] - from]]

(***************************************************************************)
(* The entries that the loop inserts for the message numbers `ns`, when it *)
(* starts at number `from` with chain key ck and the clock shows t.        *)
(***************************************************************************)
SkippedEntries(ck, hk, from, ns, t) ==
    [k \in {hk} \X ns |->
        [mk        |-> KdfCk(KdfCkIter(ck, k[2] - from)).mk,
         timestamp |-> t + k[2] - from]]

\* Mutation: nothing is evicted.
SkipWithoutEviction(m, ck, hk, from, to) ==
    Insert(m, SkippedEntries(ck, hk, from, from .. to - 1, Newest(m) + 1))

(***************************************************************************)
(* skip_message_keys, once its guards have passed.  The loop evicts when   *)
(* the store is full just before an insertion, and MaxSkip leaves no room  *)
(* for a second eviction in the same call.                                 *)
(***************************************************************************)
SkipMessageKeys(m, ck, hk, from, to) ==
    LET new(ns)   == SkippedEntries(ck, hk, from, ns, Newest(m) + 1)
        before(i) == Insert(m, new(from .. i - 1))
        full      == {i \in from .. to - 1 :
                         Cardinality(DOMAIN before(i)) >= MaxSkippedKeys}
    IN  IF full = {}
        THEN before(to)
        ELSE Insert(EvictOldestSkippedKeys(before(Min(full)), MaxSkippedKeys \div 2),
                    new(Min(full) .. to - 1))

=============================================================================
