--------------------------- MODULE SessionProofs ---------------------------
(***************************************************************************)
(* Theorems about Session, for every MAX_SKIP, MAX_SKIPPED_KEYS,           *)
(* MAX_RECEIVED_TRACKING, counter width and number of messages that        *)
(* satisfy the assumptions of SkippedKeys, Ratchet and Session. The first  *)
(* part takes each session by itself: nonces, counters, the store. The     *)
(* second, with an invariant of its own, takes both parties at once: they  *)
(* stay in step and ratchet in turn, every message has a key of its own,   *)
(* stored keys are genuine, and a message is refused by its own sender.    *)
(* The third adds that no limit is reached: then no message is lost.       *)
(***************************************************************************)
EXTENDS Session, SkippedKeysProofs

(***************************************************************************)
(* The strengthening.  A chain key stands at the number its counter shows, *)
(* so that the key of a message carries its number, which is what rules    *)
(* out that an authentic message lies below nr.  Only a chain whose        *)
(* counter is exhausted has run ahead of it.                               *)
(***************************************************************************)
SessionOK(s) ==
    /\ s.hk_s # None => s.ck_s[2] = s.ns \/ s.ns = MaxCounter
    /\ s.hk_r # None => s.ck_r[2] = s.nr
    /\ IsStore(s.mkskipped)
    /\ Cardinality(DOMAIN s.mkskipped) <= MaxSkippedKeys

(***************************************************************************)
(* The key of a message is the one of its number in its chain.             *)
(***************************************************************************)
PacketOK(m) == m.hk # None /\ m.mk[3] = m.n /\ m.n < MaxCounter

(***************************************************************************)
(* The header nonces that were used lie below the counter of their sender, *)
(* and there are as many of them as the counter says.                      *)
(***************************************************************************)
NoncesOK ==
    /\ \A m1, m2 \in Sent : m1.nonce = m2.nonce => m1 = m2
    /\ \A p \in Party : /\ IsFiniteSet(SentBy(p))
                        /\ Cardinality(SentBy(p)) = state[p].header_nonce_counter
                        /\ \A m \in SentBy(p) :
                              m.nonce.counter < state[p].header_nonce_counter

(***************************************************************************)
(* The inductive invariant.                                                *)
(***************************************************************************)
IInv ==
    /\ TypeOK
    /\ \A p \in Party : SessionOK(state[p])
    /\ \A m \in Sent : PacketOK(m)
    /\ NoncesOK

-----------------------------------------------------------------------------
(* What encrypt does to one session.                                       *)

(***************************************************************************)
(* A successful encrypt, and the message it sends.                         *)
(***************************************************************************)
LEMMA EncryptKeeps ==
    ASSUME NEW s, SessionTypeOK(s), SessionOK(s), s.is_sender \in BOOLEAN,
           ValidForEncryption(s), ~NumberOverflows(s), ~NonceOverflows(s)
    PROVE  /\ SessionTypeOK(AfterEncrypt(s))
           /\ SessionOK(AfterEncrypt(s))
           /\ AfterEncrypt(s).is_sender = s.is_sender
           /\ AfterEncrypt(s).header_nonce_counter = s.header_nonce_counter + 1
           /\ PacketTypeOK(Packet(s))
           /\ PacketOK(Packet(s))
           /\ Packet(s).nonce =
                 [is_sender |-> s.is_sender, counter |-> s.header_nonce_counter]
<1>1. /\ s.ns \in Nat /\ s.ns < MaxCounter /\ s.ns + 1 \in 0 .. MaxCounter
      /\ s.header_nonce_counter \in Nat
      /\ s.header_nonce_counter + 1 \in 0 .. MaxNonce
  BY LimitAssumption DEF SessionTypeOK, NumberOverflows, NonceOverflows
<1>2. s.hk_s # None /\ s.ck_s[2] = s.ns
  BY <1>1 DEF ValidForEncryption, SessionOK
<1>3. /\ AfterEncrypt(s).ck_s = <<s.ck_s[1], s.ck_s[2] + 1>>
      /\ AfterEncrypt(s).ns = s.ns + 1
      /\ AfterEncrypt(s).header_nonce_counter = s.header_nonce_counter + 1
      /\ DOMAIN AfterEncrypt(s) = DOMAIN s
      /\ \A f \in SessionFields \ {"ck_s", "ns", "header_nonce_counter"} :
            AfterEncrypt(s)[f] = s[f]
  BY DEF AfterEncrypt, Numbered, ChainAdvanced, KdfCk, SessionTypeOK, SessionFields
<1>4. /\ AfterEncrypt(s).hk_s = s.hk_s /\ AfterEncrypt(s).hk_r = s.hk_r
      /\ AfterEncrypt(s).ck_r = s.ck_r /\ AfterEncrypt(s).nr = s.nr
      /\ AfterEncrypt(s).pn = s.pn /\ AfterEncrypt(s).mkskipped = s.mkskipped
      /\ AfterEncrypt(s).is_sender = s.is_sender
  BY <1>3 DEF SessionFields
<1>5. SessionTypeOK(AfterEncrypt(s))
  BY <1>1, <1>3, <1>4 DEF SessionTypeOK
<1>6. SessionOK(AfterEncrypt(s))
  BY <1>2, <1>3, <1>4 DEF SessionOK
<1>7. PacketTypeOK(Packet(s))
  BY <1>1 DEF Packet, HeaderNonce, PacketTypeOK, SessionTypeOK
<1>8. PacketOK(Packet(s))
  BY <1>1, <1>2 DEF Packet, PacketOK, KdfCk
<1> QED BY <1>3, <1>4, <1>5, <1>6, <1>7, <1>8 DEF Packet, HeaderNonce

(***************************************************************************)
(* The two ways in which an encrypt fails halfway.                         *)
(***************************************************************************)
LEMMA FailedEncryptKeeps ==
    ASSUME NEW s, SessionTypeOK(s), SessionOK(s)
    PROVE  /\ NumberOverflows(s) =>
                 /\ SessionTypeOK(ChainAdvanced(s))
                 /\ SessionOK(ChainAdvanced(s))
                 /\ ChainAdvanced(s).is_sender = s.is_sender
                 /\ ChainAdvanced(s).header_nonce_counter = s.header_nonce_counter
           /\ ~NumberOverflows(s) /\ ValidForEncryption(s) =>
                 /\ SessionTypeOK(Numbered(s))
                 /\ SessionOK(Numbered(s))
                 /\ Numbered(s).is_sender = s.is_sender
                 /\ Numbered(s).header_nonce_counter = s.header_nonce_counter
<1>1. /\ ChainAdvanced(s).ck_s = <<s.ck_s[1], s.ck_s[2] + 1>>
      /\ DOMAIN ChainAdvanced(s) = DOMAIN s
      /\ \A f \in SessionFields \ {"ck_s"} : ChainAdvanced(s)[f] = s[f]
  BY DEF ChainAdvanced, KdfCk, SessionTypeOK, SessionFields
<1>2. /\ Numbered(s).ck_s = <<s.ck_s[1], s.ck_s[2] + 1>>
      /\ Numbered(s).ns = s.ns + 1
      /\ DOMAIN Numbered(s) = DOMAIN s
      /\ \A f \in SessionFields \ {"ck_s", "ns"} : Numbered(s)[f] = s[f]
  BY DEF Numbered, ChainAdvanced, KdfCk, SessionTypeOK, SessionFields
<1>3. ASSUME NumberOverflows(s)
      PROVE  /\ SessionTypeOK(ChainAdvanced(s)) /\ SessionOK(ChainAdvanced(s))
             /\ ChainAdvanced(s).is_sender = s.is_sender
             /\ ChainAdvanced(s).header_nonce_counter = s.header_nonce_counter
  BY <1>1, <1>3 DEF SessionTypeOK, SessionOK, SessionFields, NumberOverflows
<1>4. ASSUME ~NumberOverflows(s), ValidForEncryption(s)
      PROVE  /\ SessionTypeOK(Numbered(s)) /\ SessionOK(Numbered(s))
             /\ Numbered(s).is_sender = s.is_sender
             /\ Numbered(s).header_nonce_counter = s.header_nonce_counter
  <2>1. s.ck_s[2] = s.ns /\ s.ns + 1 \in 0 .. MaxCounter
    BY <1>4, LimitAssumption
       DEF SessionTypeOK, SessionOK, NumberOverflows, ValidForEncryption
  <2> QED BY <1>2, <2>1 DEF SessionTypeOK, SessionOK, SessionFields
<1> QED BY <1>3, <1>4

-----------------------------------------------------------------------------
(* What decrypt does to one session.                                       *)

(***************************************************************************)
(* What the guards of decrypt have established when step 6 is reached.     *)
(***************************************************************************)
Admitted(s, m) ==
    /\ ~SkippedKeyOpens(s, m, "none")
    /\ DecryptError(s, m, "none") = None

(***************************************************************************)
(* A remainder is not above the dividend.                                  *)
(***************************************************************************)
LEMMA ModAtMost ==
    ASSUME NEW a \in Nat, NEW b \in Nat \ {0}
    PROVE  a % b <= a
OBVIOUS

(***************************************************************************)
(* The guards one by one: the header opened with a receiving header key of *)
(* the session, the message is not one that was tracked, its number is     *)
(* within the skip limit, and the key derived for it is its own.           *)
(***************************************************************************)
LEMMA AdmittedGuards ==
    ASSUME NEW s, NEW m, Admitted(s, m)
    PROVE  /\ m.hk \in {s.hk_r, s.nhk_r}
           /\ MessageId(m) \notin s.received_messages
           /\ ~BeyondSkipLimit(s, m)
           /\ ComputeMessageKey(s, m) = m.mk
BY ErrorAssumption
   DEF Admitted, DecryptError, Errors, HeaderOpens, HeaderDecrypts, BodyDecrypts

(***************************************************************************)
(* compute_message_key lets through only what skip_message_keys will       *)
(* accept after the DH ratchet: the number is not below nr, or the key at  *)
(* nr would not have opened the body, and not more than MAX_SKIP above it. *)
(***************************************************************************)
LEMMA AdmittedInRange ==
    ASSUME NEW s, SessionTypeOK(s), SessionOK(s),
           NEW m, PacketTypeOK(m), PacketOK(m), Admitted(s, m)
    PROVE  /\ SkipAllowed(ReceivingFrom(s, m).nr, m.n)
           /\ ReceivingFrom(s, m).nr < MaxCounter
           /\ ReceivingFrom(s, m).nr \in Nat
           /\ ReceivingFrom(s, m).ck[2] = ReceivingFrom(s, m).nr
<1> DEFINE at == ReceivingFrom(s, m)
<1>1. at.nr \in Nat /\ at.ck[2] = at.nr
  <2>1. CASE DhRatchetNeeded(s, m)
    BY <2>1 DEF ReceivingFrom, KdfRkHe
  <2>2. CASE ~DhRatchetNeeded(s, m)
    <3>1. s.hk_r # None
      BY <2>2 DEF DhRatchetNeeded, PacketOK
    <3> QED BY <2>2, <3>1 DEF ReceivingFrom, SessionOK, SessionTypeOK
  <2> QED BY <2>1, <2>2
<1>2. m.n \in Nat /\ m.n < MaxCounter /\ m.mk[3] = m.n
  BY DEF PacketTypeOK, PacketOK
<1>3. at.nr <= m.n
  <2> SUFFICES ASSUME ~(at.nr <= m.n) PROVE FALSE
    OBVIOUS
  <2>1. ComputeMessageKey(s, m) = KdfCk(KdfCkIter(at.ck, 0)).mk
    BY <1>1, <1>2 DEF ComputeMessageKey
  <2>2. ComputeMessageKey(s, m)[3] = at.nr
    BY <1>1, <2>1 DEF KdfCk, KdfCkIter
  <2> QED BY <1>1, <1>2, <2>2, AdmittedGuards
<1>4. m.n <= at.nr + MaxSkip
  <2> DEFINE limit == (at.nr + MaxSkip) % (MaxCounter + 1)
  <2>1. ~(limit < m.n)
    BY AdmittedGuards DEF BeyondSkipLimit
  <2>2. at.nr + MaxSkip \in Nat /\ MaxCounter + 1 \in Nat \ {0}
    BY <1>1, SkipAssumption, LimitAssumption
  <2>3. limit <= at.nr + MaxSkip /\ limit \in Int
    <3> HIDE DEF at
    <3> QED BY <2>2, ModAtMost
  <2> HIDE DEF at, limit
  <2> QED BY <2>1, <2>2, <2>3, <1>2
<1> HIDE DEF at
<1>5. SkipAllowed(at.nr, m.n) /\ at.nr < MaxCounter
  BY <1>1, <1>2, <1>3, <1>4, SkipAssumption, LimitAssumption DEF SkipAllowed
<1> QED BY <1>1, <1>5 DEF at

(***************************************************************************)
(* The state after the DH ratchet, if one is needed, is one in which the   *)
(* rest of the commit goes through.                                        *)
(***************************************************************************)
LEMMA RatchetedKeeps ==
    ASSUME NEW s, SessionTypeOK(s), SessionOK(s),
           NEW m, PacketTypeOK(m), PacketOK(m), NEW fresh,
           m.hk \in {s.hk_r, s.nhk_r}, ~PreviousChainRefused(s, m)
    PROVE  LET r == Ratcheted(s, m, fresh)
           IN  /\ SessionTypeOK(r) /\ SessionOK(r)
               /\ r.hk_r = m.hk
               /\ r.nr = ReceivingFrom(s, m).nr
               /\ r.ck_r = ReceivingFrom(s, m).ck
               /\ r.is_sender = s.is_sender
               /\ r.header_nonce_counter = s.header_nonce_counter
<1> DEFINE d == DhRatchet(s, m, fresh)
           okm == KdfRkHe(s.rk, DH(s.dh_pair, m.dh_pub))
           okm2 == KdfRkHe(okm.rk, DH(fresh, m.dh_pub))
           store == IF s.ck_r = None THEN s.mkskipped
                    ELSE SkipMessageKeys(s.mkskipped, s.ck_r, s.hk_r, s.nr, m.pn)
<1>1. CASE ~DhRatchetNeeded(s, m)
  BY <1>1 DEF Ratcheted, ReceivingFrom, DhRatchetNeeded
<1>2. CASE DhRatchetNeeded(s, m)
  <2>1. d = [s EXCEPT
              !.mkskipped = store, !.pn = s.ns, !.ns = 0, !.nr = 0,
              !.hk_s = s.nhk_s, !.hk_r = s.nhk_r,
              !.dh_remote = m.dh_pub, !.dh_pair = fresh,
              !.rk = okm2.rk, !.ck_r = okm.ck, !.ck_s = okm2.ck,
              !.nhk_r = okm.nhk, !.nhk_s = okm2.nhk,
              !.received_messages = {}]
    BY Zenon DEF DhRatchet, Derived, PreviousChainStored
  <2>2. /\ okm.ck[2] = 0
        /\ okm2.ck[2] = 0
    BY DEF KdfRkHe
  <2>3. IsStore(store) /\ Cardinality(DOMAIN store) <= MaxSkippedKeys
    <3>1. CASE s.ck_r = None
      BY <3>1 DEF SessionOK
    <3>2. CASE s.ck_r # None
      <4>1. SkipAllowed(s.nr, m.pn) /\ s.nr \in Nat /\ m.pn \in Nat
        BY <1>2, <3>2 DEF PreviousChainRefused, SessionTypeOK, PacketTypeOK
      <4>2. IsStore(s.mkskipped) /\ Cardinality(DOMAIN s.mkskipped) <= MaxSkippedKeys
        BY DEF SessionOK
      <4>3. store = SkipMessageKeys(s.mkskipped, s.ck_r, s.hk_r, s.nr, m.pn)
        BY <3>2
      <4> HIDE DEF store
      <4> QED BY <4>1, <4>2, <4>3, SkipMessageKeysBounded
    <3> QED BY <3>1, <3>2
  <2> HIDE DEF d, okm, okm2, store
  <2>4. /\ d.mkskipped = store /\ d.pn = s.ns /\ d.ns = 0 /\ d.nr = 0
        /\ d.hk_r = s.nhk_r /\ d.ck_r = okm.ck /\ d.ck_s = okm2.ck
        /\ d.is_sender = s.is_sender
        /\ d.header_nonce_counter = s.header_nonce_counter
        /\ DOMAIN d = SessionFields
    BY <2>1 DEF SessionTypeOK, SessionFields
  <2>5. SessionTypeOK(d)
    BY <2>4, LimitAssumption DEF SessionTypeOK
  <2>6. SessionOK(d)
    BY <2>2, <2>3, <2>4 DEF SessionOK
  <2>7. Ratcheted(s, m, fresh) = d /\ m.hk = s.nhk_r
    BY <1>2 DEF Ratcheted, d, DhRatchetNeeded
  <2>8. ReceivingFrom(s, m).nr = 0 /\ ReceivingFrom(s, m).ck = okm.ck
    BY <1>2 DEF ReceivingFrom, okm
  <2> QED BY <2>4, <2>5, <2>6, <2>7, <2>8
<1> QED BY <1>1, <1>2

(***************************************************************************)
(* The whole commit, and what follows it.                                  *)
(***************************************************************************)
LEMMA CommittedKeeps ==
    ASSUME NEW s, SessionTypeOK(s), SessionOK(s),
           NEW m, PacketTypeOK(m), PacketOK(m), NEW fresh,
           Admitted(s, m), ~PreviousChainRefused(s, m)
    PROVE  LET c == Committed(s, m, fresh)
           IN  /\ SessionTypeOK(c) /\ SessionOK(c)
               /\ c.is_sender = s.is_sender
               /\ c.header_nonce_counter = s.header_nonce_counter
<1> DEFINE r == Ratcheted(s, m, fresh)
           c == Committed(s, m, fresh)
           store == SkipMessageKeys(r.mkskipped, r.ck_r, r.hk_r, r.nr, m.n)
<1>1. /\ SessionTypeOK(r) /\ SessionOK(r)
      /\ r.hk_r = m.hk
      /\ SkipAllowed(r.nr, m.n) /\ r.nr \in Nat /\ m.n \in Nat
      /\ r.ck_r[2] = r.nr
      /\ r.is_sender = s.is_sender
      /\ r.header_nonce_counter = s.header_nonce_counter
  BY AdmittedGuards, AdmittedInRange, RatchetedKeeps DEF PacketTypeOK
<1>2. c = [r EXCEPT !.mkskipped = store,
                    !.ck_r = <<r.ck_r[1], r.ck_r[2] + 1>>,
                    !.nr = r.nr + 1]
  BY DEF Committed, Advanced, GapStored, KdfCk
<1> HIDE DEF c, r
<1>3. IsStore(store) /\ Cardinality(DOMAIN store) <= MaxSkippedKeys
  BY <1>1, SkipMessageKeysBounded DEF SessionOK
<1> HIDE DEF store
<1>4. /\ DOMAIN c = DOMAIN r
      /\ c.mkskipped = store
      /\ c.ck_r = <<r.ck_r[1], r.ck_r[2] + 1>>
      /\ c.nr = r.nr + 1
      /\ \A f \in SessionFields \ {"mkskipped", "ck_r", "nr"} : c[f] = r[f]
  BY <1>1, <1>2 DEF SessionTypeOK, SessionFields
<1>5. /\ c.ck_s = r.ck_s /\ c.hk_s = r.hk_s /\ c.hk_r = r.hk_r
      /\ c.ns = r.ns /\ c.pn = r.pn /\ c.is_sender = r.is_sender
      /\ c.header_nonce_counter = r.header_nonce_counter
  BY <1>4 DEF SessionFields
<1>6. SessionTypeOK(c)
  BY <1>1, <1>4, <1>5 DEF SessionTypeOK
<1>7. SessionOK(c)
  BY <1>1, <1>3, <1>4, <1>5 DEF SessionOK
<1> QED BY <1>1, <1>5, <1>6, <1>7 DEF c, r

(***************************************************************************)
(* The other changes decrypt makes to a session.                           *)
(***************************************************************************)
LEMMA SmallStepsKeep ==
    ASSUME NEW s, SessionTypeOK(s), SessionOK(s), NEW m
    PROVE  \A c \in {WithoutSkippedKey(s, m), SkippedKeysLost(s), Tracked(s, m)} :
              /\ SessionTypeOK(c) /\ SessionOK(c)
              /\ c.is_sender = s.is_sender
              /\ c.header_nonce_counter = s.header_nonce_counter
<1> DEFINE Keeps(c) ==
              /\ SessionTypeOK(c) /\ SessionOK(c)
              /\ c.is_sender = s.is_sender
              /\ c.header_nonce_counter = s.header_nonce_counter
<1>1. Keeps(WithoutSkippedKey(s, m))
  <2> DEFINE D == DOMAIN s.mkskipped \ {<<m.hk, m.n>>}
             store == Restrict(s.mkskipped, D)
  <2>1. IsStore(store) /\ Cardinality(DOMAIN store) <= Cardinality(DOMAIN s.mkskipped)
    BY RestrictIsStore DEF SessionOK
  <2>2. IsFiniteSet(DOMAIN store) /\ IsFiniteSet(DOMAIN s.mkskipped)
    BY <2>1 DEF IsStore, SessionOK
  <2>3. Cardinality(DOMAIN store) \in Nat /\ Cardinality(DOMAIN s.mkskipped) \in Nat
    BY <2>2, FS_CardinalityType
  <2>4. WithoutSkippedKey(s, m) = [s EXCEPT !.mkskipped = store]
    BY DEF WithoutSkippedKey
  <2> HIDE DEF store
  <2>5. Cardinality(DOMAIN store) <= MaxSkippedKeys
    BY <2>1, <2>3, SkipAssumption DEF SessionOK
  <2> QED BY <2>1, <2>4, <2>5 DEF SessionTypeOK, SessionOK, SessionFields
<1>2. Keeps(SkippedKeysLost(s))
  <2>1. Cardinality(DOMAIN EmptyStore) <= MaxSkippedKeys
    BY EmptyIsStore, SkipAssumption
  <2> QED BY <2>1, EmptyIsStore
          DEF SkippedKeysLost, SessionTypeOK, SessionOK, SessionFields
<1>3. Keeps(Tracked(s, m))
  BY DEF Tracked, SessionTypeOK, SessionOK, SessionFields
<1> QED BY <1>1, <1>2, <1>3

-----------------------------------------------------------------------------
(* The invariant.                                                          *)

(***************************************************************************)
(* The sessions X3DH leads to satisfy the invariant.                       *)
(***************************************************************************)
LEMMA InitOK == Init => IInv
<1> SUFFICES ASSUME Init PROVE IInv
  OBVIOUS
<1>1. Sent = {} /\ \A p \in Party : SentBy(p) = {}
  BY DEF Init, Sent, SentBy
<1>2. DOMAIN state = Party
  BY DEF Init
<1>3. \A p \in Party :
         /\ SessionTypeOK(state[p]) /\ SessionOK(state[p])
         /\ state[p].is_sender = (p = Alice)
         /\ state[p].header_nonce_counter = 0
  <2>1. Cardinality(DOMAIN EmptyStore) <= MaxSkippedKeys /\ IsStore(EmptyStore)
    BY EmptyIsStore, SkipAssumption
  <2>2. \A sk, own, remote :
           LET s == InitSenderState(sk, own, remote)
           IN  /\ SessionTypeOK(s) /\ SessionOK(s)
               /\ s.is_sender = TRUE /\ s.header_nonce_counter = 0
    BY <2>1, LimitAssumption
       DEF InitSenderState, SessionTypeOK, SessionOK, SessionFields, KdfRkHe
  <2>3. \A sk, own :
           LET s == InitReceiverState(sk, own)
           IN  /\ SessionTypeOK(s) /\ SessionOK(s)
               /\ s.is_sender = FALSE /\ s.header_nonce_counter = 0
    BY <2>1, LimitAssumption
       DEF InitReceiverState, SessionTypeOK, SessionOK, SessionFields
  <2>4. state[Alice] = InitSenderState(SharedSecret, Key(Alice, 1), Key(Bob, 0))
    BY DEF Init, Party
  <2>5. state[Bob] = InitReceiverState(SharedSecret, Key(Bob, 0))
    BY PartyAssumption DEF Init, Party
  <2>6. /\ SessionTypeOK(state[Alice]) /\ SessionOK(state[Alice])
        /\ state[Alice].is_sender = TRUE /\ state[Alice].header_nonce_counter = 0
    BY <2>2, <2>4
  <2>7. /\ SessionTypeOK(state[Bob]) /\ SessionOK(state[Bob])
        /\ state[Bob].is_sender = FALSE /\ state[Bob].header_nonce_counter = 0
    BY <2>3, <2>5
  <2> QED BY <2>6, <2>7, PartyAssumption DEF Party
<1>4. TypeOK /\ (\A p \in Party : SessionOK(state[p])) /\ (\A m \in Sent : PacketOK(m))
  BY <1>1, <1>2, <1>3 DEF TypeOK
<1>5. NoncesOK
  <2>1. IsFiniteSet({}) /\ Cardinality({}) = 0
    BY FS_EmptySet
  <2> QED BY <1>1, <1>3, <2>1 DEF NoncesOK
<1> QED BY <1>4, <1>5 DEF IInv

(***************************************************************************)
(* A step that changes one session, and neither its role nor its header    *)
(* nonce counter nor what was sent, keeps the invariant.                   *)
(***************************************************************************)
LEMMA LocalStep ==
    ASSUME IInv, NEW p \in Party, NEW c,
           SessionTypeOK(c), SessionOK(c),
           c.is_sender = state[p].is_sender,
           c.header_nonce_counter = state[p].header_nonce_counter,
           state' = [state EXCEPT ![p] = c],
           Sent' = Sent, \A m \in Sent : handed'[m] \in Nat
    PROVE  IInv'
<1>1. DOMAIN state' = Party /\ DOMAIN state = Party
  BY DEF IInv, TypeOK
<1>2. \A q \in Party : state'[q] = IF q = p THEN c ELSE state[q]
  BY <1>1
<1>3. \A q \in Party :
         /\ SessionTypeOK(state'[q]) /\ SessionOK(state'[q])
         /\ state'[q].is_sender = (q = Alice)
         /\ state'[q].header_nonce_counter = state[q].header_nonce_counter
  BY <1>2, Zenon DEF IInv, TypeOK
<1>4. TypeOK'
  BY <1>1, <1>3, Zenon DEF IInv, TypeOK
<1>5. \A q \in Party : SentBy(q)' = SentBy(q)
  BY DEF SentBy, Sender
<1>6. NoncesOK'
  BY <1>3, <1>5 DEF IInv, NoncesOK
<1>7. (\A q \in Party : SessionOK(state[q]))' /\ (\A m \in Sent : PacketOK(m))'
  BY <1>3 DEF IInv
<1> QED BY <1>4, <1>6, <1>7 DEF IInv

(***************************************************************************)
(* A successful encrypt puts a message on the network whose nonce no       *)
(* message before it had.                                                  *)
(***************************************************************************)
LEMMA EncryptStep ==
    ASSUME IInv, NEW p \in Party, Encrypt(p)
    PROVE  IInv'
<1> DEFINE s == state[p]
           a == AfterEncrypt(s)
           new == Packet(s)
<1>1. /\ SessionTypeOK(s) /\ SessionOK(s) /\ s.is_sender = (p = Alice)
      /\ ValidForEncryption(s) /\ ~NumberOverflows(s) /\ ~NonceOverflows(s)
  BY ErrorAssumption DEF IInv, TypeOK, Encrypt, EncryptError, Errors
<1>2. /\ SessionTypeOK(a) /\ SessionOK(a)
      /\ a.is_sender = s.is_sender
      /\ a.header_nonce_counter = s.header_nonce_counter + 1
      /\ PacketTypeOK(new) /\ PacketOK(new)
      /\ new.nonce = [is_sender |-> s.is_sender, counter |-> s.header_nonce_counter]
  <2> HIDE DEF s
  <2> QED BY <1>1, EncryptKeeps
<1>3. /\ state' = [state EXCEPT ![p] = a]
      /\ handed' = [m \in Sent \cup {new} |-> IF m \in Sent THEN handed[m] ELSE 0]
  BY DEF Encrypt
<1>4. s.header_nonce_counter \in Nat
  BY <1>1 DEF SessionTypeOK
<1> HIDE DEF a, new
<1>5. Sender(new) = p
  <2>1. new.nonce.is_sender = s.is_sender
    BY <1>2
  <2>2. new.nonce.is_sender = (p = Alice)
    BY <1>1, <2>1, Zenon
  <2> QED BY <2>2, PartyAssumption, Zenon DEF Sender, Party
<1>6. DOMAIN state' = Party /\ DOMAIN state = Party
  BY <1>3 DEF IInv, TypeOK
<1>7. \A q \in Party : state'[q] = IF q = p THEN a ELSE state[q]
  BY <1>3, <1>6
<1>8. Sent' = Sent \cup {new} /\ \A m \in Sent' : handed'[m] \in Nat
  BY <1>3 DEF Sent, IInv, TypeOK
<1>9. TypeOK'
  <2>1. \A q \in Party : SessionTypeOK(state'[q]) /\ state'[q].is_sender = (q = Alice)
    BY <1>1, <1>2, <1>7, Zenon DEF IInv, TypeOK
  <2>2. \A m \in Sent' : PacketTypeOK(m)
    BY <1>2, <1>8 DEF IInv, TypeOK
  <2> QED BY <1>6, <1>8, <2>1, <2>2, Zenon DEF TypeOK
<1>10. (\A q \in Party : SessionOK(state[q]))' /\ (\A m \in Sent : PacketOK(m))'
  BY <1>2, <1>7, <1>8 DEF IInv
<1>11. \A m \in SentBy(p) : m.nonce.counter < s.header_nonce_counter
  BY DEF IInv, NoncesOK
<1>12. \A m \in Sent : m.nonce # new.nonce
  <2> SUFFICES ASSUME NEW m \in Sent, m.nonce = new.nonce PROVE FALSE
    OBVIOUS
  <2>1. Sender(m) = p
    BY <1>5 DEF Sender
  <2>2. m.nonce.counter = s.header_nonce_counter
    BY <1>2
  <2>3. m.nonce.counter < s.header_nonce_counter
    BY <1>11, <2>1 DEF SentBy
  <2> QED BY <1>4, <2>2, <2>3
<1>13. new \notin Sent
  BY <1>12
<1>14. /\ SentBy(p)' = SentBy(p) \cup {new}
       /\ new \notin SentBy(p)
       /\ \A q \in Party \ {p} : SentBy(q)' = SentBy(q)
  BY <1>5, <1>8, <1>13 DEF SentBy, Sender
<1>15. NoncesOK'
  <2>1. \A m1, m2 \in Sent' : m1.nonce = m2.nonce => m1 = m2
    BY <1>8, <1>12 DEF IInv, NoncesOK
  <2>2. /\ IsFiniteSet(SentBy(p)')
        /\ Cardinality(SentBy(p)') = state'[p].header_nonce_counter
    <3>1. IsFiniteSet(SentBy(p)) /\ Cardinality(SentBy(p)) = s.header_nonce_counter
      BY DEF IInv, NoncesOK
    <3>2. /\ IsFiniteSet(SentBy(p) \cup {new})
          /\ Cardinality(SentBy(p) \cup {new}) = Cardinality(SentBy(p)) + 1
      BY <3>1, <1>14, FS_AddElement
    <3>3. state'[p] = a
      BY <1>7
    <3> QED BY <3>1, <3>2, <3>3, <1>2, <1>14, Zenon
  <2>3. \A m \in SentBy(p)' : m.nonce.counter < state'[p].header_nonce_counter
    <3> SUFFICES ASSUME NEW m \in SentBy(p) \cup {new}
                 PROVE  m.nonce.counter < a.header_nonce_counter
      BY <1>7, <1>14
    <3>1. CASE m = new
      BY <3>1, <1>2, <1>4
    <3>2. CASE m \in SentBy(p)
      <4>1. m.nonce.counter \in Nat
        BY <3>2 DEF IInv, TypeOK, PacketTypeOK, SentBy
      <4> QED BY <3>2, <4>1, <1>2, <1>4, <1>11
    <3> QED BY <3>1, <3>2
  <2>4. \A q \in Party \ {p} :
           /\ IsFiniteSet(SentBy(q)')
           /\ Cardinality(SentBy(q)') = state'[q].header_nonce_counter
           /\ \A m \in SentBy(q)' : m.nonce.counter < state'[q].header_nonce_counter
    BY <1>7, <1>14 DEF IInv, NoncesOK
  <2> QED BY <2>1, <2>2, <2>3, <2>4 DEF NoncesOK
<1> QED BY <1>9, <1>10, <1>15 DEF IInv

(***************************************************************************)
(* Every step of Next keeps the invariant.                                 *)
(***************************************************************************)
LEMMA HandKeepsSent ==
    ASSUME IInv, NEW m \in Sent, Hand(m)
    PROVE  Sent' = Sent /\ \A k \in Sent : handed'[k] \in Nat
BY DEF Hand, Sent, IInv, TypeOK

(***************************************************************************)
(* Every way out of decrypt that moves the session keeps the invariant.    *)
(***************************************************************************)
LEMMA DecryptStep ==
    ASSUME IInv, NEW p \in Party, NEW m \in Sent, Decrypt(p, m)
    PROVE  IInv'
<1> DEFINE s == state[p]
<1>1. SessionTypeOK(s) /\ SessionOK(s) /\ PacketTypeOK(m) /\ PacketOK(m)
  BY DEF IInv, TypeOK
<1>2. \A k \in Sent : handed[k] \in Nat
  BY DEF IInv, TypeOK
<1>3. CASE DecryptWithSkippedKey(p, m)
  <2>1. state' = [state EXCEPT ![p] = WithoutSkippedKey(s, m)] /\ Hand(m)
    BY <1>3 DEF DecryptWithSkippedKey
  <2> QED BY <1>1, <2>1, HandKeepsSent, SmallStepsKeep, LocalStep
<1>4. CASE DecryptLosesSkippedKeys(p, m)
  <2>1. state' = [state EXCEPT ![p] = SkippedKeysLost(s)] /\ handed' = handed
    BY <1>4 DEF DecryptLosesSkippedKeys
  <2>2. Sent' = Sent /\ \A k \in Sent : handed'[k] \in Nat
    BY <1>2, <2>1 DEF Sent
  <2> QED BY <1>1, <2>1, <2>2, SmallStepsKeep, LocalStep
<1>5. ASSUME Authentic(p, m), ~PreviousChainRefused(s, m)
      PROVE  LET c == Committed(s, m, FreshKey(p))
             IN  /\ SessionTypeOK(c) /\ SessionOK(c)
                 /\ c.is_sender = s.is_sender
                 /\ c.header_nonce_counter = s.header_nonce_counter
  <2>1. Admitted(s, m)
    BY <1>5 DEF Authentic, Admitted
  <2> HIDE DEF s
  <2> QED BY <1>1, <1>5, <2>1, CommittedKeeps
<1>6. CASE DecryptTooMany(p, m, FreshKey(p))
  <2> DEFINE c == Committed(s, m, FreshKey(p))
  <2>1. /\ Authentic(p, m) /\ ~PreviousChainRefused(s, m)
        /\ state' = [state EXCEPT ![p] = c] /\ handed' = handed
    BY <1>6 DEF DecryptTooMany
  <2>2. Sent' = Sent /\ \A k \in Sent : handed'[k] \in Nat
    BY <1>2, <2>1 DEF Sent
  <2>3. /\ SessionTypeOK(c) /\ SessionOK(c) /\ c.is_sender = s.is_sender
        /\ c.header_nonce_counter = s.header_nonce_counter
    BY <1>5, <2>1
  <2> HIDE DEF c
  <2> QED BY <2>1, <2>2, <2>3, LocalStep
<1>7. CASE DecryptOnChain(p, m, FreshKey(p))
  <2> DEFINE c == Committed(s, m, FreshKey(p))
             d == Tracked(c, m)
  <2>1. /\ Authentic(p, m) /\ ~PreviousChainRefused(s, m)
        /\ state' = [state EXCEPT ![p] = d] /\ Hand(m)
    BY <1>7 DEF DecryptOnChain
  <2>2. /\ SessionTypeOK(c) /\ SessionOK(c) /\ c.is_sender = s.is_sender
        /\ c.header_nonce_counter = s.header_nonce_counter
    BY <1>5, <2>1
  <2>3. /\ SessionTypeOK(d) /\ SessionOK(d) /\ d.is_sender = s.is_sender
        /\ d.header_nonce_counter = s.header_nonce_counter
    <3> HIDE DEF c, s
    <3> QED BY <2>2, SmallStepsKeep
  <2> HIDE DEF d
  <2> QED BY <2>1, <2>3, HandKeepsSent, LocalStep
<1> QED BY <1>3, <1>4, <1>6, <1>7 DEF Decrypt

(***************************************************************************)
(* A call that is refused keeps the invariant, and so does every step.     *)
(***************************************************************************)
LEMMA StutterStep == IInv /\ UNCHANGED vars => IInv'
BY DEF vars, IInv, TypeOK, NoncesOK, SentBy, Sender, Sent

(***************************************************************************)
(* The invariant is inductive.                                             *)
(***************************************************************************)
LEMMA NextOK == IInv /\ [Next]_vars => IInv'
<1> SUFFICES ASSUME IInv, [Next]_vars PROVE IInv'
  OBVIOUS
<1>1. ASSUME NEW p \in Party, EncryptNumberOverflow(p) PROVE IInv'
  <2> DEFINE c == ChainAdvanced(state[p])
  <2>1. /\ NumberOverflows(state[p])
        /\ state' = [state EXCEPT ![p] = c] /\ handed' = handed
    BY <1>1 DEF EncryptNumberOverflow
  <2>2. /\ SessionTypeOK(c) /\ SessionOK(c) /\ c.is_sender = state[p].is_sender
        /\ c.header_nonce_counter = state[p].header_nonce_counter
    BY <2>1, FailedEncryptKeeps DEF IInv, TypeOK
  <2>3. Sent' = Sent /\ \A k \in Sent : handed'[k] \in Nat
    BY <2>1 DEF Sent, IInv, TypeOK
  <2> HIDE DEF c
  <2> QED BY <2>1, <2>2, <2>3, LocalStep
<1>2. ASSUME NEW p \in Party, EncryptNonceOverflow(p) PROVE IInv'
  <2> DEFINE c == Numbered(state[p])
  <2>1. /\ ValidForEncryption(state[p]) /\ ~NumberOverflows(state[p])
        /\ state' = [state EXCEPT ![p] = c] /\ handed' = handed
    BY <1>2, ErrorAssumption DEF EncryptNonceOverflow, EncryptError, Errors
  <2>2. /\ SessionTypeOK(c) /\ SessionOK(c) /\ c.is_sender = state[p].is_sender
        /\ c.header_nonce_counter = state[p].header_nonce_counter
    BY <2>1, FailedEncryptKeeps DEF IInv, TypeOK
  <2>3. Sent' = Sent /\ \A k \in Sent : handed'[k] \in Nat
    BY <2>1 DEF Sent, IInv, TypeOK
  <2> HIDE DEF c
  <2> QED BY <2>1, <2>2, <2>3, LocalStep
<1>3. ASSUME NEW p \in Party, NEW ad \in AdSizes, EncryptRefused(p, ad) PROVE IInv'
  BY <1>3, StutterStep DEF EncryptRefused
<1>4. ASSUME NEW p \in Party, NEW m \in Sent, NEW fault \in Faults,
             DecryptRefused(p, m, fault)
      PROVE  IInv'
  BY <1>4, StutterStep DEF DecryptRefused
<1> QED BY <1>1, <1>2, <1>3, <1>4, EncryptStep, DecryptStep, StutterStep DEF Next

(***************************************************************************)
(* IInv is an inductive invariant of a session.                            *)
(***************************************************************************)
THEOREM Invariance == Spec => []IInv
BY InitOK, NextOK, PTL DEF Spec

-----------------------------------------------------------------------------
(* The properties of Session that follow.                                  *)

(***************************************************************************)
(* The fields of the sessions and messages keep their types; in particular *)
(* ns, pn and the header nonce counter never pass their widths.            *)
(***************************************************************************)
THEOREM TypeCorrect == Spec => []TypeOK
BY Invariance, PTL DEF IInv

(***************************************************************************)
(* encrypt_header never uses a nonce twice, for any number of messages,    *)
(* ratchets and failed calls.                                              *)
(***************************************************************************)
THEOREM NoncesNeverRepeat == Spec => []HeaderNoncesUnique
<1>1. IInv => HeaderNoncesUnique
  BY DEF IInv, NoncesOK, HeaderNoncesUnique, SentBy
<1> QED BY <1>1, Invariance, PTL

(***************************************************************************)
(* The store of skipped keys stays within MAX_SKIPPED_KEYS.                *)
(***************************************************************************)
THEOREM StoreNeverOverflows == Spec => []SkippedKeysBounded
<1>1. IInv => SkippedKeysBounded
  BY DEF IInv, SessionOK, SkippedKeysBounded
<1> QED BY <1>1, Invariance, PTL

(***************************************************************************)
(* Once a message is authenticated, no return of commit_state_changes      *)
(* after the DH ratchet can be taken.                                      *)
(***************************************************************************)
THEOREM CommitGoesThrough == Spec => []CommitCannotFailHalfway
<1>1. IInv => CommitCannotFailHalfway
  <2> SUFFICES ASSUME IInv, NEW p \in Party, NEW m \in Sent, Authentic(p, m)
               PROVE  /\ SkipAllowed(ReceivingFrom(state[p], m).nr, m.n)
                      /\ ReceivingFrom(state[p], m).nr < MaxCounter
    BY DEF CommitCannotFailHalfway
  <2>1. /\ SessionTypeOK(state[p]) /\ SessionOK(state[p])
        /\ PacketTypeOK(m) /\ PacketOK(m)
    BY DEF IInv, TypeOK
  <2>2. Admitted(state[p], m)
    BY DEF Authentic, Admitted
  <2> QED BY <2>1, <2>2, AdmittedInRange
<1> QED BY <1>1, Invariance, PTL

-----------------------------------------------------------------------------
(* Both parties at once.                                                   *)

(***************************************************************************)
(* The hypothesis of the theorems below: Option::None is not one of the    *)
(* keys, which are pairs.                                                  *)
(***************************************************************************)
NoneIsNoKey == \A x, y : None # <<x, y>>

(***************************************************************************)
(* The parts of the invariant take the two sessions as an argument st, so  *)
(* that they can be stated of the next state without a prime.              *)
(*                                                                         *)
(* Freshness.  A key pair is known once generated, and a key of the root   *)
(* chain is known if it was derived from key pairs that are.  What a DH    *)
(* ratchet derives depends on the pair it generates and was not known.     *)
(***************************************************************************)
Generated(st, k) == \E p \in Party : \E i \in 0 .. st[p].dh_pair[2] : k = Key(p, i)

Known(st, okm) == \A k \in okm[3] : Generated(st, k)

KnownHeaderKey(st, hk) == hk[1] = "nhk" => Known(st, hk[2])

(***************************************************************************)
(* The keys of one session.                                                *)
(***************************************************************************)
OwnKeysOK(st, p) ==
    LET s == st[p]
    IN  /\ s.dh_pair[2] \in Nat
        /\ s.dh_pair = Key(p, s.dh_pair[2])
        /\ s.nhk_s # None
        /\ (s.hk_s = None) <=> (s.ck_s = None)
        /\ (s.hk_r = None) <=> (s.ck_r = None)
        /\ s.ck_s # None =>
              s.ck_s = <<s.rk, s.ck_s[2]>> /\ s.ck_s[2] \in Nat /\ Known(st, s.rk)
        /\ \A hk \in {s.hk_s, s.nhk_s, s.hk_r} \ {None} : KnownHeaderKey(st, hk)

KeysOK(st) == \A p \in Party : OwnKeysOK(st, p)

(***************************************************************************)
(* The leader and the other one.  The header keys in use and the next ones *)
(* are all different, and so are the two root keys.                        *)
(***************************************************************************)
Turn(st, l) ==
    LET a == st[l]
        b == st[Peer(l)]
    IN  /\ Leads(a, b)
        /\ a.rk # b.rk
        /\ a.nhk_s \notin {a.hk_s, b.hk_s, b.nhk_s, b.hk_r}
        /\ b.nhk_s \notin {a.hk_s, b.hk_s, b.hk_r}
        /\ a.hk_s \notin {b.hk_s, b.hk_r}
        /\ b.hk_s # None => b.hk_s # b.hk_r

(***************************************************************************)
(* A message of the sending chain that p is on, known by any one of its    *)
(* header key, its chain and its public key.                               *)
(***************************************************************************)
Current(m, s) ==
    \/ m.hk = s.hk_s
    \/ s.ck_s # None /\ m.mk[2] = s.ck_s[1]
    \/ m.dh_pub = s.dh_pair

SentOn(m, p, s) ==
    /\ Sender(m) = p
    /\ m.hk = s.hk_s
    /\ s.ck_s # None /\ m.mk[2] = s.ck_s[1]
    /\ m.dh_pub = s.dh_pair
    /\ m.pn = s.pn
    /\ m.n < s.ns

(***************************************************************************)
(* A message that was sent: its keys are known, and it belongs to the      *)
(* chain that its sender is on if any of them does.                        *)
(***************************************************************************)
MessageOK(st, m) ==
    /\ m.mk = <<"mk", m.mk[2], m.n>>
    /\ Known(st, m.mk[2]) /\ KnownHeaderKey(st, m.hk) /\ Generated(st, m.dh_pub)
    /\ \A p \in Party : /\ m.hk # st[p].nhk_s
                        /\ Current(m, st[p]) => SentOn(m, p, st[p])

(***************************************************************************)
(* A message of the leader's previous chain, if the other party still      *)
(* reads that chain.                                                       *)
(***************************************************************************)
PreviousOK(st, l, m) ==
    LET a == st[l]
        b == st[Peer(l)]
    IN  m.hk = b.hk_r => Sender(m) = l /\ m.mk[2] = b.ck_r[1] /\ m.n < a.pn

(***************************************************************************)
(* No two messages share their key, or the id by which decrypt knows them. *)
(***************************************************************************)
IdsUnique ==
    \A m1, m2 \in Sent : m1.mk = m2.mk \/ MessageId(m1) = MessageId(m2) => m1 = m2

(***************************************************************************)
(* A stored key belongs to a chain that has begun, and lies below the      *)
(* number that its sender will use next.                                   *)
(***************************************************************************)
EntryOK(st, k) ==
    /\ k = <<k[1], k[2]>> /\ k[2] \in Nat
    /\ k[1] # None /\ KnownHeaderKey(st, k[1])
    /\ \A p \in Party : /\ k[1] # st[p].nhk_s
                        /\ k[1] = st[p].hk_s => k[2] < st[p].ns

StoresOK ==
    /\ \A p \in Party : \A k \in DOMAIN state[p].mkskipped : EntryOK(state, k)
    /\ SkippedKeysGenuine

ReceivedOK ==
    \A p \in Party : \A id \in state[p].received_messages :
        \E m \in Sent : MessageId(m) = id /\ handed[m] > 0

(***************************************************************************)
(* The inductive invariant.                                                *)
(***************************************************************************)
AInv ==
    /\ IInv
    /\ KeysOK(state)
    /\ \A m \in Sent : MessageOK(state, m)
    /\ \E l \in Party : Turn(state, l) /\ \A m \in Sent : PreviousOK(state, l, m)
    /\ IdsUnique
    /\ StoresOK
    /\ ReceivedOK

-----------------------------------------------------------------------------
(* Lemmas about the parties and about freshness.                           *)

(***************************************************************************)
(* There are two parties, and each is the other one's peer.                *)
(***************************************************************************)
LEMMA TwoParties ==
    \A p \in Party : /\ Peer(p) \in Party /\ Peer(p) # p /\ Peer(Peer(p)) = p
                     /\ \A q \in Party : q = p \/ q = Peer(p)
BY PartyAssumption DEF Party, Peer

(***************************************************************************)
(* The key pair that a DH ratchet generates, later than that of the        *)
(* session, is new, and so is what is derived from it.                     *)
(***************************************************************************)
LEMMA FreshIsNew ==
    ASSUME NEW st, KeysOK(st), NEW p \in Party, NEW rk, NEW k,
           NEW i \in Nat, st[p].dh_pair[2] < i
    PROVE  LET fresh == Key(p, i)
               kdf == KdfRkHe(rk, DH(fresh, k))
           IN  /\ ~Generated(st, fresh)
               /\ ~Known(st, kdf.rk)
               /\ ~KnownHeaderKey(st, kdf.nhk)
<1> DEFINE fresh == Key(p, i)
           okm == <<"okm", rk, {fresh, k}>>
<1>1. ~Generated(st, fresh)
  BY DEF KeysOK, OwnKeysOK, Generated, Key
<1>2. ~Known(st, okm)
  BY <1>1 DEF Known
<1>3. /\ KdfRkHe(rk, DH(fresh, k)).rk = okm
      /\ KdfRkHe(rk, DH(fresh, k)).nhk = <<"nhk", okm>>
  BY DEF KdfRkHe, DH
<1> HIDE DEF okm
<1>4. ~KnownHeaderKey(st, <<"nhk", okm>>)
  BY <1>2 DEF KnownHeaderKey
<1> QED BY <1>1, <1>2, <1>3, <1>4

(***************************************************************************)
(* What is known stays known while the key pairs only move on.             *)
(***************************************************************************)
LEMMA KnownStays ==
    ASSUME NEW st, NEW st2,
           \A p \in Party : /\ st[p].dh_pair[2] \in Nat
                            /\ st2[p].dh_pair[2] \in Nat
                            /\ st[p].dh_pair[2] <= st2[p].dh_pair[2]
    PROVE  /\ \A k : Generated(st, k) => Generated(st2, k)
           /\ \A r : Known(st, r) => Known(st2, r)
           /\ \A hk : KnownHeaderKey(st, hk) => KnownHeaderKey(st2, hk)
<1>1. \A k : Generated(st, k) => Generated(st2, k)
  BY DEF Generated
<1>2. \A r : Known(st, r) => Known(st2, r)
  BY <1>1 DEF Known
<1> QED BY <1>1, <1>2 DEF KnownHeaderKey

-----------------------------------------------------------------------------
(* What the steps of encrypt and decrypt do to the fields of a session.    *)

(***************************************************************************)
(* A successful encrypt, and the two that fail halfway.                    *)
(***************************************************************************)
LEMMA EncryptFields ==
    ASSUME NEW s, DOMAIN s = SessionFields,
           NEW c \in {AfterEncrypt(s), Numbered(s), ChainAdvanced(s)}
    PROVE  /\ c.ck_s = <<s.ck_s[1], s.ck_s[2] + 1>>
           /\ c.ns = IF c = ChainAdvanced(s) THEN s.ns ELSE s.ns + 1
           /\ \A f \in SessionFields \ {"ck_s", "ns", "header_nonce_counter"} :
                 c[f] = s[f]
BY DEF AfterEncrypt, Numbered, ChainAdvanced, KdfCk, SessionFields

(***************************************************************************)
(* A commit without a DH ratchet moves the receiving chain by one key.     *)
(***************************************************************************)
LEMMA CommittedOnChain ==
    ASSUME NEW s, DOMAIN s = SessionFields, NEW m, NEW fresh, ~DhRatchetNeeded(s, m)
    PROVE  LET c == Committed(s, m, fresh)
           IN  /\ c.ck_r = <<s.ck_r[1], s.ck_r[2] + 1>>
               /\ c.nr = s.nr + 1
               /\ c.mkskipped = SkipMessageKeys(s.mkskipped, s.ck_r, s.hk_r, s.nr, m.n)
               /\ \A f \in SessionFields \ {"ck_r", "nr", "mkskipped"} : c[f] = s[f]
<1> DEFINE store == SkipMessageKeys(s.mkskipped, s.ck_r, s.hk_r, s.nr, m.n)
<1>1. Committed(s, m, fresh) = [s EXCEPT !.mkskipped = store,
                                         !.ck_r = <<s.ck_r[1], s.ck_r[2] + 1>>,
                                         !.nr = s.nr + 1]
  BY DEF Committed, Ratcheted, Advanced, GapStored, KdfCk
<1> HIDE DEF store
<1>2. /\ Committed(s, m, fresh).ck_r = <<s.ck_r[1], s.ck_r[2] + 1>>
      /\ Committed(s, m, fresh).nr = s.nr + 1
      /\ Committed(s, m, fresh).mkskipped = store
      /\ \A f \in SessionFields \ {"ck_r", "nr", "mkskipped"} :
            Committed(s, m, fresh)[f] = s[f]
  BY <1>1 DEF SessionFields
<1> QED BY <1>2 DEF store

(***************************************************************************)
(* A commit with a DH ratchet: the keys move on by one, and the message's  *)
(* chain by one key.                                                       *)
(***************************************************************************)
LEMMA CommittedRatchet ==
    ASSUME NEW s, DOMAIN s = SessionFields, NEW m, NEW fresh, DhRatchetNeeded(s, m)
    PROVE  LET c == Committed(s, m, fresh)
               recv == KdfRkHe(s.rk, DH(s.dh_pair, m.dh_pub))
               send == KdfRkHe(recv.rk, DH(fresh, m.dh_pub))
           IN  /\ c.mkskipped = SkipMessageKeys(PreviousChainStored(s, m),
                                                recv.ck, s.nhk_r, 0, m.n)
               /\ c.pn = s.ns /\ c.ns = 0 /\ c.nr = 1
               /\ c.hk_s = s.nhk_s /\ c.hk_r = s.nhk_r
               /\ c.dh_remote = m.dh_pub /\ c.dh_pair = fresh
               /\ c.rk = send.rk
               /\ c.ck_r = <<recv.rk, 1>> /\ c.ck_s = <<send.rk, 0>>
               /\ c.nhk_r = recv.nhk /\ c.nhk_s = send.nhk
               /\ c.received_messages = {}
               /\ c.is_sender = s.is_sender
               /\ c.header_nonce_counter = s.header_nonce_counter
<1> DEFINE recv == KdfRkHe(s.rk, DH(s.dh_pair, m.dh_pub))
           send == KdfRkHe(recv.rk, DH(fresh, m.dh_pub))
           d == DhRatchet(s, m, fresh)
           previous == PreviousChainStored(s, m)
           store == SkipMessageKeys(previous, recv.ck, s.nhk_r, 0, m.n)
<1>1. d = [s EXCEPT
            !.mkskipped = previous, !.pn = s.ns, !.ns = 0, !.nr = 0,
            !.hk_s = s.nhk_s, !.hk_r = s.nhk_r,
            !.dh_remote = m.dh_pub, !.dh_pair = fresh,
            !.rk = send.rk, !.ck_r = recv.ck, !.ck_s = send.ck,
            !.nhk_r = recv.nhk, !.nhk_s = send.nhk,
            !.received_messages = {}]
  BY Zenon DEF DhRatchet, Derived
<1>2. recv.ck = <<recv.rk, 0>> /\ send.ck = <<send.rk, 0>>
  BY DEF KdfRkHe
<1> HIDE DEF recv, send, d, previous
<1>3. /\ d.mkskipped = previous /\ d.pn = s.ns /\ d.ns = 0 /\ d.nr = 0
      /\ d.hk_s = s.nhk_s /\ d.hk_r = s.nhk_r
      /\ d.dh_remote = m.dh_pub /\ d.dh_pair = fresh
      /\ d.rk = send.rk /\ d.ck_r = <<recv.rk, 0>> /\ d.ck_s = <<send.rk, 0>>
      /\ d.nhk_r = recv.nhk /\ d.nhk_s = send.nhk
      /\ d.received_messages = {}
      /\ d.is_sender = s.is_sender
      /\ d.header_nonce_counter = s.header_nonce_counter
      /\ DOMAIN d = SessionFields
  BY <1>1, <1>2 DEF SessionFields
<1>4. Committed(s, m, fresh) = [d EXCEPT !.mkskipped = store,
                                         !.ck_r = <<recv.rk, 1>>, !.nr = 1]
  <2>1. Ratcheted(s, m, fresh) = d
    BY DEF Ratcheted, d
  <2>2. GapStored(d, m) = store
    BY <1>2, <1>3 DEF GapStored
  <2> HIDE DEF store
  <2>3. KdfCk(d.ck_r).ck = <<recv.rk, 1>> /\ d.nr + 1 = 1
    BY <1>3 DEF KdfCk
  <2>4. Committed(s, m, fresh) = [Advanced(d, m) EXCEPT !.mkskipped = GapStored(d, m)]
    BY <2>1 DEF Committed
  <2>5. Advanced(d, m) = [d EXCEPT !.ck_r = KdfCk(d.ck_r).ck, !.nr = d.nr + 1]
    BY DEF Advanced
  <2> QED BY <2>2, <2>3, <2>4, <2>5
<1> HIDE DEF store
<1>5. LET c == [d EXCEPT !.mkskipped = store, !.ck_r = <<recv.rk, 1>>, !.nr = 1]
      IN  /\ c.mkskipped = store /\ c.ck_r = <<recv.rk, 1>> /\ c.nr = 1
          /\ \A f \in SessionFields \ {"ck_r", "nr", "mkskipped"} : c[f] = d[f]
  BY <1>3 DEF SessionFields
<1>6. LET c == Committed(s, m, fresh)
      IN  /\ c.mkskipped = store
          /\ c.pn = s.ns /\ c.ns = 0 /\ c.nr = 1
          /\ c.hk_s = s.nhk_s /\ c.hk_r = s.nhk_r
          /\ c.dh_remote = m.dh_pub /\ c.dh_pair = fresh
          /\ c.rk = send.rk
          /\ c.ck_r = <<recv.rk, 1>> /\ c.ck_s = <<send.rk, 0>>
          /\ c.nhk_r = recv.nhk /\ c.nhk_s = send.nhk
          /\ c.received_messages = {}
          /\ c.is_sender = s.is_sender
          /\ c.header_nonce_counter = s.header_nonce_counter
  BY <1>3, <1>4, <1>5 DEF SessionFields
<1> QED BY <1>6 DEF recv, send, store, previous

-----------------------------------------------------------------------------
(* Steps that derive no root key.                                          *)

(***************************************************************************)
(* Only the chain keys and the message number of the session may move on.  *)
(***************************************************************************)
MovesOn(old, new) == new = old \/ (old # None /\ new = <<old[1], old[2] + 1>>)

(***************************************************************************)
(* A step of one session, from s to c, that derives no root key.           *)
(***************************************************************************)
Quiet(s, c) ==
    /\ c.dh_pair = s.dh_pair /\ c.dh_remote = s.dh_remote
    /\ c.rk = s.rk /\ c.pn = s.pn
    /\ c.hk_s = s.hk_s /\ c.hk_r = s.hk_r
    /\ c.nhk_s = s.nhk_s /\ c.nhk_r = s.nhk_r
    /\ s.ns \in Nat /\ c.ns \in {s.ns, s.ns + 1}
    /\ MovesOn(s.ck_s, c.ck_s)
    /\ MovesOn(s.ck_r, c.ck_r)

(***************************************************************************)
(* A chain key that moves on stays with its chain, and None stays None.    *)
(***************************************************************************)
LEMMA MovesOnKeeps ==
    ASSUME NoneIsNoKey, NEW old, NEW new, MovesOn(old, new)
    PROVE  /\ (new = None) <=> (old = None)
           /\ old # None => new[1] = old[1]
<1> SUFFICES ASSUME old # None, new = <<old[1], old[2] + 1>>
             PROVE  new # None /\ new[1] = old[1]
  BY DEF MovesOn
<1>1. <<old[1], old[2] + 1>> # None
  BY Zenon DEF NoneIsNoKey
<1> QED BY <1>1

(***************************************************************************)
(* A step that derives no root key keeps what the invariant says of the    *)
(* keys, the messages on the network and the stored keys.                  *)
(***************************************************************************)
LEMMA QuietStep ==
    ASSUME NoneIsNoKey, NEW st, NEW st2, KeysOK(st),
           NEW l \in Party, Turn(st, l),
           \A p \in Party : Quiet(st[p], st2[p]),
           Leads(st2[l], st2[Peer(l)])
    PROVE  /\ KeysOK(st2)
           /\ Turn(st2, l)
           /\ \A m : MessageOK(st, m) /\ m.n \in Nat => MessageOK(st2, m)
           /\ \A m : m.hk # None /\ PreviousOK(st, l, m) => PreviousOK(st2, l, m)
           /\ \A k : EntryOK(st, k) => EntryOK(st2, k)
<1>1. \A p \in Party :
         /\ st2[p].dh_pair = st[p].dh_pair /\ st2[p].rk = st[p].rk
         /\ st2[p].hk_s = st[p].hk_s /\ st2[p].hk_r = st[p].hk_r
         /\ st2[p].nhk_s = st[p].nhk_s
         /\ st2[p].pn = st[p].pn
         /\ st[p].ns \in Nat /\ st2[p].ns \in Nat /\ st[p].ns <= st2[p].ns
         /\ MovesOn(st[p].ck_s, st2[p].ck_s)
         /\ MovesOn(st[p].ck_r, st2[p].ck_r)
  BY DEF Quiet
<1>2. \A p \in Party : /\ (st2[p].ck_s = None) <=> (st[p].ck_s = None)
                       /\ (st2[p].ck_r = None) <=> (st[p].ck_r = None)
                       /\ st[p].ck_s # None => st2[p].ck_s[1] = st[p].ck_s[1]
                       /\ st[p].ck_r # None => st2[p].ck_r[1] = st[p].ck_r[1]
  BY <1>1, MovesOnKeeps
<1>3. /\ \A k : Generated(st, k) => Generated(st2, k)
      /\ \A r : Known(st, r) => Known(st2, r)
      /\ \A hk : KnownHeaderKey(st, hk) => KnownHeaderKey(st2, hk)
  <2>1. \A p \in Party : /\ st[p].dh_pair[2] \in Nat
                         /\ st2[p].dh_pair[2] = st[p].dh_pair[2]
    BY <1>1 DEF KeysOK, OwnKeysOK
  <2> QED BY <2>1, KnownStays
<1>4. KeysOK(st2)
  <2> SUFFICES ASSUME NEW p \in Party PROVE OwnKeysOK(st2, p)
    BY DEF KeysOK
  <2>1. OwnKeysOK(st, p)
    BY DEF KeysOK
  <2>2. ASSUME st2[p].ck_s # None
        PROVE  /\ st2[p].ck_s = <<st2[p].rk, st2[p].ck_s[2]>>
               /\ st2[p].ck_s[2] \in Nat /\ Known(st2, st2[p].rk)
    <3>1. st[p].ck_s = <<st[p].rk, st[p].ck_s[2]>> /\ st[p].ck_s[2] \in Nat
      BY <2>1, <2>2, <1>2 DEF OwnKeysOK
    <3>2. \/ st2[p].ck_s = st[p].ck_s
          \/ st2[p].ck_s = <<st[p].ck_s[1], st[p].ck_s[2] + 1>>
      BY <1>1 DEF MovesOn
    <3>3. Known(st2, st[p].rk)
      BY <2>1, <2>2, <1>2, <1>3 DEF OwnKeysOK
    <3> QED BY <3>1, <3>2, <3>3, <1>1
  <2> QED BY <2>1, <2>2, <1>1, <1>2, <1>3 DEF OwnKeysOK
<1>5. Turn(st2, l)
  BY <1>1, TwoParties DEF Turn
<1>6. ASSUME NEW m, MessageOK(st, m), m.n \in Nat PROVE MessageOK(st2, m)
  <2>1. \A p \in Party : Current(m, st2[p]) => Current(m, st[p])
    BY <1>1, <1>2 DEF Current
  <2>2. \A p \in Party : SentOn(m, p, st[p]) => SentOn(m, p, st2[p])
    BY <1>6, <1>1, <1>2 DEF SentOn
  <2> QED BY <1>6, <2>1, <2>2, <1>1, <1>3 DEF MessageOK
<1>7. ASSUME NEW m, m.hk # None, PreviousOK(st, l, m) PROVE PreviousOK(st2, l, m)
  <2> SUFFICES ASSUME m.hk = st2[Peer(l)].hk_r
               PROVE  /\ Sender(m) = l
                      /\ m.mk[2] = st2[Peer(l)].ck_r[1]
                      /\ m.n < st2[l].pn
    BY DEF PreviousOK
  <2>1. m.hk = st[Peer(l)].hk_r /\ st[Peer(l)].hk_r # None
    BY <1>7, <1>1, TwoParties
  <2>2. st[Peer(l)].ck_r # None
    BY <2>1, TwoParties DEF KeysOK, OwnKeysOK
  <2> QED BY <1>7, <2>1, <2>2, <1>1, <1>2, TwoParties DEF PreviousOK
<1>8. ASSUME NEW k, EntryOK(st, k) PROVE EntryOK(st2, k)
  BY <1>8, <1>1, <1>3 DEF EntryOK
<1> QED BY <1>4, <1>5, <1>6, <1>7, <1>8

(***************************************************************************)
(* Nor does it change who leads, if the message numbers stay within bounds. *)
(***************************************************************************)
LEMMA QuietLeads ==
    ASSUME NoneIsNoKey, NEW a, NEW b, NEW a2, NEW b2,
           Leads(a, b), Quiet(a, a2), Quiet(b, b2),
           a2.ck_s[2] >= a2.ns, a2.nr <= b2.ns, b2.nr <= a2.pn,
           a2.ck_r # None => a2.ck_r[2] = a2.nr
    PROVE  Leads(a2, b2)
<1>1. /\ a2.dh_pair = a.dh_pair /\ a2.dh_remote = a.dh_remote /\ a2.rk = a.rk
      /\ a2.hk_s = a.hk_s /\ a2.hk_r = a.hk_r
      /\ a2.nhk_s = a.nhk_s /\ a2.nhk_r = a.nhk_r
      /\ b2.dh_pair = b.dh_pair /\ b2.rk = b.rk
      /\ b2.hk_s = b.hk_s /\ b2.nhk_s = b.nhk_s /\ b2.nhk_r = b.nhk_r
  BY DEF Quiet
<1>2. /\ MovesOn(a.ck_s, a2.ck_s) /\ MovesOn(b.ck_s, b2.ck_s)
      /\ MovesOn(a.ck_r, a2.ck_r)
  BY DEF Quiet
<1>3. /\ (a2.ck_s = None) <=> (a.ck_s = None)
      /\ (b2.ck_s = None) <=> (b.ck_s = None)
      /\ (a2.ck_r = None) <=> (a.ck_r = None)
      /\ a.ck_s # None => a2.ck_s[1] = a.ck_s[1]
      /\ b.ck_s # None => b2.ck_s[1] = b.ck_s[1]
      /\ a.ck_r # None => a2.ck_r[1] = a.ck_r[1]
  BY <1>2, MovesOnKeeps
<1>4. a2.ck_r # None => a2.ck_r = <<b2.ck_s[1], a2.nr>>
  <2> SUFFICES ASSUME a2.ck_r # None PROVE a2.ck_r = <<b2.ck_s[1], a2.nr>>
    OBVIOUS
  <2>1. a.ck_r # None /\ b.ck_s # None /\ a.ck_r = <<b.ck_s[1], a.nr>>
    BY <1>3 DEF Leads
  <2>2. a2.ck_r = <<a2.ck_r[1], a2.ck_r[2]>>
    BY <2>1, <1>2 DEF MovesOn
  <2> QED BY <2>1, <2>2, <1>3
<1> QED BY <1>1, <1>3, <1>4 DEF Leads

-----------------------------------------------------------------------------
(* encrypt.                                                                *)

(***************************************************************************)
(* The three ways in which encrypt changes a session are quiet, and leave  *)
(* the leader leading.                                                     *)
(***************************************************************************)
LEMMA EncryptIsQuiet ==
    ASSUME NoneIsNoKey, IInv, KeysOK(state),
           NEW l \in Party, Leads(state[l], state[Peer(l)]),
           NEW p \in Party, ValidForEncryption(state[p]),
           NEW c \in {AfterEncrypt(state[p]), Numbered(state[p]), ChainAdvanced(state[p])},
           state' = [state EXCEPT ![p] = c]
    PROVE  /\ \A q \in Party : Quiet(state[q], state'[q])
           /\ Leads(state'[l], state'[Peer(l)])
           /\ \A q \in Party : /\ state'[q].mkskipped = state[q].mkskipped
                               /\ state'[q].received_messages = state[q].received_messages
<1> DEFINE s == state[p]
<1>1. /\ SessionTypeOK(s) /\ SessionOK(s)
      /\ s.ns \in Nat /\ s.ck_s # None /\ s.ck_s[2] \in Nat
      /\ s.ck_s = <<s.ck_s[1], s.ck_s[2]>>
  BY LimitAssumption
     DEF IInv, TypeOK, SessionTypeOK, KeysOK, OwnKeysOK, ValidForEncryption
<1> HIDE DEF s
<1>2. /\ c.ck_s = <<s.ck_s[1], s.ck_s[2] + 1>>
      /\ c.ns \in {s.ns, s.ns + 1}
      /\ \A f \in SessionFields \ {"ck_s", "ns", "header_nonce_counter"} :
            c[f] = s[f]
  BY <1>1, EncryptFields DEF s, SessionTypeOK
<1>3. Quiet(s, c) /\ c.nr = s.nr /\ c.ck_r = s.ck_r
      /\ c.mkskipped = s.mkskipped /\ c.received_messages = s.received_messages
      /\ c.pn = s.pn
  BY <1>1, <1>2 DEF Quiet, MovesOn, SessionFields
<1>4. \A q \in Party : state'[q] = IF q = p THEN c ELSE state[q]
  BY DEF IInv, TypeOK
<1>5. \A q \in Party : Quiet(state[q], state[q])
  BY LimitAssumption DEF Quiet, MovesOn, IInv, TypeOK, SessionTypeOK
<1>6. \A q \in Party : Quiet(state[q], state'[q])
  BY <1>3, <1>4, <1>5 DEF s
<1>7. \A q \in Party : /\ state'[q].mkskipped = state[q].mkskipped
                       /\ state'[q].received_messages = state[q].received_messages
                       /\ state'[q].nr = state[q].nr /\ state'[q].ck_r = state[q].ck_r
                       /\ state'[q].pn = state[q].pn
  BY <1>3, <1>4 DEF s
<1>8. Leads(state'[l], state'[Peer(l)])
  <2> DEFINE a == state[l]
             b == state[Peer(l)]
             a2 == state'[l]
             b2 == state'[Peer(l)]
  <2>1. /\ a.ns \in Nat /\ b.ns \in Nat /\ a.nr \in Nat /\ a.ck_s[2] \in Nat
        /\ Leads(a, b) /\ a.ck_s[2] >= a.ns /\ a.nr <= b.ns /\ b.nr <= a.pn
        /\ a.ck_r # None => a.ck_r[2] = a.nr
    BY TwoParties, LimitAssumption
       DEF Leads, IInv, TypeOK, SessionTypeOK, KeysOK, OwnKeysOK
  <2>2. a2.nr = a.nr /\ b2.nr = b.nr /\ a2.ck_r = a.ck_r /\ a2.pn = a.pn
    BY <1>7, TwoParties
  <2>3. b2.ns \in {b.ns, b.ns + 1}
    BY <1>6, TwoParties DEF Quiet
  <2>4. a2.ck_s[2] >= a2.ns
    <3>1. CASE l = p
      <4>1. a2 = c /\ a = s
        BY <3>1, <1>4 DEF s
      <4> HIDE DEF a, a2
      <4> QED BY <4>1, <1>2, <2>1
    <3>2. CASE l # p
      BY <3>2, <1>4, <2>1
    <3> QED BY <3>1, <3>2
  <2>5. Quiet(a, a2) /\ Quiet(b, b2)
    BY <1>6, TwoParties
  <2> HIDE DEF a, b, a2, b2
  <2>6. Leads(a2, b2)
    BY <2>1, <2>2, <2>3, <2>4, <2>5, QuietLeads
  <2> QED BY <2>6 DEF a2, b2
<1> QED BY <1>6, <1>7, <1>8

(***************************************************************************)
(* An encrypt that fails halfway.                                          *)
(***************************************************************************)
LEMMA FailedEncryptAgrees ==
    ASSUME NoneIsNoKey, AInv, IInv',
           NEW p \in Party, ValidForEncryption(state[p]),
           NEW c \in {Numbered(state[p]), ChainAdvanced(state[p])},
           state' = [state EXCEPT ![p] = c], handed' = handed
    PROVE  AInv'
<1>1. PICK l \in Party : /\ Turn(state, l)
                         /\ \A m \in Sent : PreviousOK(state, l, m)
  BY DEF AInv
<1>2. /\ \A q \in Party : Quiet(state[q], state'[q])
      /\ Leads(state'[l], state'[Peer(l)])
      /\ \A q \in Party : /\ state'[q].mkskipped = state[q].mkskipped
                          /\ state'[q].received_messages = state[q].received_messages
  BY <1>1, EncryptIsQuiet DEF AInv, Turn
<1>3. \A m \in Sent : m.n \in Nat /\ m.hk # None
  BY DEF AInv, IInv, TypeOK, PacketTypeOK, PacketOK
<1>4. /\ KeysOK(state')
      /\ Turn(state', l)
      /\ \A m : MessageOK(state, m) /\ m.n \in Nat => MessageOK(state', m)
      /\ \A m : m.hk # None /\ PreviousOK(state, l, m) => PreviousOK(state', l, m)
      /\ \A k : EntryOK(state, k) => EntryOK(state', k)
  BY <1>1, <1>2, QuietStep DEF AInv
<1>5. Sent' = Sent
  BY DEF Sent
<1>6. /\ \A m \in Sent' : MessageOK(state', m) /\ PreviousOK(state', l, m)
  BY <1>1, <1>3, <1>4, <1>5 DEF AInv
<1>7. IdsUnique'
  BY <1>5 DEF AInv, IdsUnique
<1>8. StoresOK'
  <2>1. SkippedKeysGenuine'
    <3> SUFFICES ASSUME NEW q \in Party, NEW k \in DOMAIN state'[q].mkskipped,
                        NEW m \in Sent, k = <<m.hk, m.n>>
                 PROVE  /\ state'[q].mkskipped[k].mk = m.mk
                        /\ Sender(m) = Peer(q)
      BY <1>5 DEF SkippedKeysGenuine, Sender
    <3>1. state'[q].mkskipped = state[q].mkskipped
      BY <1>2
    <3> QED BY <3>1 DEF AInv, StoresOK, SkippedKeysGenuine
  <2> QED BY <2>1, <1>2, <1>4 DEF AInv, StoresOK
<1>9. ReceivedOK'
  BY <1>2, <1>5 DEF AInv, ReceivedOK
<1> QED BY <1>4, <1>6, <1>7, <1>8, <1>9 DEF AInv

(***************************************************************************)
(* A successful encrypt.  The new message continues the current chain of   *)
(* its sender, and its number is one above those that were used.           *)
(***************************************************************************)
LEMMA EncryptAgrees ==
    ASSUME NoneIsNoKey, AInv, IInv', NEW p \in Party, Encrypt(p)
    PROVE  AInv'
<1> DEFINE s == state[p]
           new == Packet(s)
<1>1. /\ ValidForEncryption(s) /\ ~NumberOverflows(s)
      /\ state' = [state EXCEPT ![p] = AfterEncrypt(s)]
      /\ handed' = [m \in Sent \cup {new} |-> IF m \in Sent THEN handed[m] ELSE 0]
  BY ErrorAssumption DEF Encrypt, EncryptError, Errors
<1>2. PICK l \in Party : /\ Turn(state, l)
                         /\ \A m \in Sent : PreviousOK(state, l, m)
  BY DEF AInv
<1>3. /\ \A q \in Party : Quiet(state[q], state'[q])
      /\ Leads(state'[l], state'[Peer(l)])
      /\ \A q \in Party : /\ state'[q].mkskipped = state[q].mkskipped
                          /\ state'[q].received_messages = state[q].received_messages
  BY <1>1, <1>2, EncryptIsQuiet DEF AInv, Turn
<1>4. /\ KeysOK(state')
      /\ Turn(state', l)
      /\ \A m : MessageOK(state, m) /\ m.n \in Nat => MessageOK(state', m)
      /\ \A m : m.hk # None /\ PreviousOK(state, l, m) => PreviousOK(state', l, m)
      /\ \A k : EntryOK(state, k) => EntryOK(state', k)
  BY <1>2, <1>3, QuietStep DEF AInv
<1>5. \A m \in Sent : m.n \in Nat /\ m.hk # None /\ MessageOK(state, m)
  BY DEF AInv, IInv, TypeOK, PacketTypeOK, PacketOK
<1>6. Sent' = Sent \cup {new} /\ \A m \in Sent : handed'[m] = handed[m]
  BY <1>1 DEF Sent
<1>7. /\ s.ck_s # None /\ s.hk_s # None /\ s.ck_s = <<s.rk, s.ns>>
      /\ s.ns \in Nat /\ s.ns < MaxCounter
      /\ s.is_sender = (p = Alice)
      /\ s.dh_pair = Key(p, s.dh_pair[2]) /\ s.dh_pair[2] \in Nat
      /\ Known(state, s.rk) /\ KnownHeaderKey(state, s.hk_s)
  <2>1. OwnKeysOK(state, p) /\ SessionOK(s) /\ SessionTypeOK(s) /\ s.is_sender = (p = Alice)
    BY DEF AInv, KeysOK, IInv, TypeOK
  <2> HIDE DEF s
  <2>2. s.ck_s # None /\ s.hk_s # None /\ s.ns \in 0 .. MaxCounter /\ s.ns # MaxCounter
    BY <1>1, <2>1 DEF ValidForEncryption, NumberOverflows, SessionTypeOK
  <2> QED BY <2>1, <2>2, LimitAssumption DEF OwnKeysOK, SessionOK, s
<1>8. /\ new.hk = s.hk_s /\ new.dh_pub = s.dh_pair /\ new.pn = s.pn /\ new.n = s.ns
      /\ new.mk = <<"mk", s.rk, s.ns>>
      /\ new.nonce.is_sender = s.is_sender
  BY <1>7 DEF Packet, KdfCk, HeaderNonce
<1>9. Sender(new) = p
  <2>1. new.nonce.is_sender = (p = Alice)
    BY <1>7, <1>8, Zenon
  <2> QED BY <2>1, PartyAssumption, Zenon DEF Sender, Party
<1>10. /\ state'[p].ns = s.ns + 1 /\ state'[p].ck_s = <<s.rk, s.ns + 1>>
       /\ state'[p].hk_s = s.hk_s /\ state'[p].dh_pair = s.dh_pair
       /\ state'[p].pn = s.pn
  <2>1. state'[p] = AfterEncrypt(s) /\ SessionTypeOK(s)
    BY <1>1 DEF AInv, IInv, TypeOK
  <2>2. AfterEncrypt(s).ns = s.ns + 1 /\ AfterEncrypt(s).ck_s = <<s.rk, s.ns + 1>>
    BY <2>1, <1>7 DEF AfterEncrypt, Numbered, ChainAdvanced, KdfCk,
                      SessionTypeOK, SessionFields
  <2> QED BY <2>1, <2>2, <1>3 DEF Quiet
<1> HIDE DEF new, s
<1>11. MessageOK(state', new)
  <2>1. OwnKeysOK(state', p)
    BY <1>4 DEF KeysOK
  <2>2. /\ Known(state', s.rk) /\ KnownHeaderKey(state', s.hk_s)
        /\ Generated(state', s.dh_pair)
    <3>1. Known(state', state'[p].rk) /\ state'[p].rk = s.rk
      <4>1. state'[p].ck_s # None
        BY <1>10 DEF NoneIsNoKey
      <4> QED BY <4>1, <2>1, <1>3 DEF OwnKeysOK, Quiet, s
    <3>2. KnownHeaderKey(state', s.hk_s)
      BY <2>1, <1>7, <1>10 DEF OwnKeysOK
    <3>3. Generated(state', s.dh_pair)
      <4>1. s.dh_pair[2] \in 0 .. state'[p].dh_pair[2]
        BY <1>7, <1>10
      <4> QED BY <4>1, <1>7 DEF Generated
    <3> QED BY <3>1, <3>2, <3>3
  <2>3. ASSUME NEW q \in Party PROVE new.hk # state'[q].nhk_s
    BY <1>4, <1>8, <1>10, TwoParties DEF Turn
  <2>4. SentOn(new, p, state'[p])
    BY <1>7, <1>8, <1>9, <1>10 DEF SentOn, NoneIsNoKey
  <2>5. ~Current(new, state'[Peer(p)])
    <3> DEFINE o == state'[Peer(p)]
    <3>1. new.hk # o.hk_s
      BY <1>4, <1>7, <1>8, <1>10, TwoParties DEF Turn
    <3>2. o.ck_s # None => o.ck_s[1] # s.rk
      <4>1. o.ck_s # None => o.ck_s[1] = o.rk
        BY <1>4, TwoParties DEF KeysOK, OwnKeysOK
      <4>2. o.rk # state'[p].rk /\ state'[p].rk = s.rk
        BY <1>3, <1>4, TwoParties DEF Turn, Quiet, s
      <4> QED BY <4>1, <4>2
    <3>3. o.dh_pair # s.dh_pair
      <4>1. o.dh_pair = Key(Peer(p), o.dh_pair[2])
        BY <1>4, TwoParties DEF KeysOK, OwnKeysOK
      <4> QED BY <4>1, <1>7, TwoParties DEF Key
    <3> HIDE DEF o
    <3>4. ~Current(new, o)
      BY <3>1, <3>2, <3>3, <1>8 DEF Current
    <3> QED BY <3>4 DEF o
  <2> QED BY <2>2, <2>3, <2>4, <2>5, <1>8, TwoParties DEF MessageOK
<1>12. PreviousOK(state', l, new)
  BY <1>4, <1>7, <1>8, <1>10, TwoParties DEF PreviousOK, Turn
<1>13. \A m \in Sent' : MessageOK(state', m) /\ PreviousOK(state', l, m)
  BY <1>2, <1>4, <1>5, <1>6, <1>11, <1>12
<1>14. \A m \in Sent : Current(m, s) => m.n < s.ns
  BY <1>5 DEF MessageOK, SentOn, s
<1>15. IdsUnique'
  <2>1. \A m \in Sent : m.mk # new.mk /\ MessageId(m) # MessageId(new)
    <3> SUFFICES ASSUME NEW m \in Sent,
                        m.mk = new.mk \/ MessageId(m) = MessageId(new)
                 PROVE  FALSE
      OBVIOUS
    <3>1. m.mk = <<"mk", m.mk[2], m.n>> /\ m.n \in Nat
      BY <1>5 DEF MessageOK
    <3>2. CASE m.mk = new.mk
      <4>1. m.mk[2] = s.rk /\ m.n = s.ns
        BY <3>1, <3>2, <1>8
      <4>2. Current(m, s)
        BY <4>1, <1>7 DEF Current
      <4> QED BY <4>1, <4>2, <1>7, <1>14
    <3>3. CASE MessageId(m) = MessageId(new)
      <4>1. m.dh_pub = s.dh_pair /\ m.n = s.ns
        BY <3>3, <1>8 DEF MessageId
      <4>2. Current(m, s)
        BY <4>1 DEF Current
      <4> QED BY <4>1, <4>2, <1>7, <1>14
    <3> QED BY <3>2, <3>3
  <2> QED BY <2>1, <1>6 DEF IdsUnique, AInv
<1>16. StoresOK'
  <2>1. ASSUME NEW q \in Party, NEW k \in DOMAIN state[q].mkskipped
        PROVE  k # <<new.hk, new.n>>
    <3>1. EntryOK(state, k)
      BY DEF AInv, StoresOK
    <3>2. k[1] = s.hk_s => k[2] < s.ns /\ k[2] \in Nat
      BY <3>1 DEF EntryOK, s
    <3> QED BY <3>2, <1>7, <1>8
  <2> QED BY <2>1, <1>3, <1>4, <1>6 DEF StoresOK, SkippedKeysGenuine, AInv, Sender
<1>17. ReceivedOK'
  BY <1>3, <1>6 DEF ReceivedOK, AInv
<1> QED BY <1>4, <1>13, <1>15, <1>16, <1>17 DEF AInv

-----------------------------------------------------------------------------
(* decrypt.                                                                *)

(***************************************************************************)
(* SkippedKeysGenuine of one store, with the messages as an argument.      *)
(***************************************************************************)
Genuine(store, p, sent) ==
    \A k \in DOMAIN store : \A m \in sent :
        k = <<m.hk, m.n>> => store[k].mk = m.mk /\ Sender(m) = Peer(p)

(***************************************************************************)
(* skip_message_keys stores genuine keys: chain key ck at number `from`    *)
(* belongs to the chain whose headers are sealed with hk.                  *)
(***************************************************************************)
LEMMA SkipKeepsGenuine ==
    ASSUME NEW store, NEW ck, NEW hk, NEW from \in Nat, NEW to \in Nat,
           NEW p, NEW sent, Genuine(store, p, sent), ck[2] = from,
           \A m \in sent : /\ m.mk = <<"mk", m.mk[2], m.n>>
                           /\ m.hk = hk => m.mk[2] = ck[1] /\ Sender(m) = Peer(p)
    PROVE  Genuine(SkipMessageKeys(store, ck, hk, from, to), p, sent)
<1> DEFINE new == SkipMessageKeys(store, ck, hk, from, to)
<1>1. ASSUME NEW k \in DOMAIN new
      PROVE  \/ k \in DOMAIN store /\ new[k] = store[k]
             \/ /\ k = <<hk, k[2]>> /\ k[2] \in from .. to - 1
                /\ new[k].mk = <<"mk", ck[1], ck[2] + (k[2] - from)>>
  <2>1. HoldsSkipped(new, store, ck, hk, from, to)
    BY SkipMessageKeysEntries
  <2> HIDE DEF new
  <2> QED BY <2>1 DEF HoldsSkipped
<1> HIDE DEF new
<1>2. ASSUME NEW k \in DOMAIN new, NEW m \in sent, k = <<m.hk, m.n>>
      PROVE  new[k].mk = m.mk /\ Sender(m) = Peer(p)
  <2>1. CASE k \in DOMAIN store /\ new[k] = store[k]
    BY <2>1, <1>2 DEF Genuine
  <2>2. CASE /\ k = <<hk, k[2]>> /\ k[2] \in from .. to - 1
             /\ new[k].mk = <<"mk", ck[1], ck[2] + (k[2] - from)>>
    <3>1. m.hk = hk /\ m.n = k[2]
      BY <2>2, <1>2
    <3>2. ck[2] + (k[2] - from) = k[2]
      BY <2>2
    <3> QED BY <2>2, <3>1, <3>2
  <2> QED BY <2>1, <2>2, <1>1
<1> QED BY <1>2 DEF Genuine, new

(***************************************************************************)
(* SkippedKeysGenuine is Genuine of both stores.                           *)
(***************************************************************************)
LEMMA StoresOfGenuine ==
    /\ SkippedKeysGenuine <=> \A p \in Party : Genuine(state[p].mkskipped, p, Sent)
    /\ SkippedKeysGenuine' <=> \A p \in Party : Genuine(state'[p].mkskipped, p, Sent')
BY DEF SkippedKeysGenuine, Genuine, Sender

(***************************************************************************)
(* A number up to that of a message in flight may be stored for its chain. *)
(***************************************************************************)
LEMMA NumberMayBeStored ==
    ASSUME NEW st, NEW m, MessageOK(st, m), m.hk # None, m.n \in Nat,
           \A p \in Party : st[p].ns \in Nat,
           NEW n \in Nat, n <= m.n
    PROVE  EntryOK(st, <<m.hk, n>>)
BY DEF MessageOK, EntryOK, Current, SentOn

(***************************************************************************)
(* The chain a party receives on: its headers open under hk_r, its keys    *)
(* come from ck_r, it is the other party's, and the messages that are on   *)
(* the network do not lie beyond what that party has numbered.             *)
(***************************************************************************)
LEMMA ReceivingChain ==
    ASSUME AInv, NEW l \in Party, Turn(state, l),
           \A m \in Sent : PreviousOK(state, l, m),
           NEW p \in Party, NEW m \in Sent, m.hk = state[p].hk_r
    PROVE  /\ Sender(m) = Peer(p)
           /\ m.mk[2] = state[p].ck_r[1]
           /\ m.n < IF p = l THEN state[Peer(l)].ns ELSE state[l].pn
<1>1. m.hk # None /\ MessageOK(state, m)
  BY DEF AInv, IInv, PacketOK
<1>2. CASE p = l
  <2> DEFINE b == state[Peer(l)]
  <2>1. m.hk = b.hk_s
    BY <1>2 DEF Turn, Leads
  <2>2. SentOn(m, Peer(l), b)
    BY <1>1, <2>1, TwoParties DEF MessageOK, Current
  <2>3. state[l].ck_r # None
    BY <1>1, <1>2 DEF AInv, KeysOK, OwnKeysOK
  <2>4. state[l].ck_r[1] = b.ck_s[1]
    BY <2>3 DEF Turn, Leads
  <2> QED BY <1>2, <2>2, <2>4 DEF SentOn
<1>3. CASE p # l
  BY <1>3, TwoParties DEF PreviousOK
<1> QED BY <1>2, <1>3

(***************************************************************************)
(* What decrypt leaves in a session after the commit: the commit, with or  *)
(* without the message among the received ones.                            *)
(***************************************************************************)
AfterCommit(c, next, m) ==
    /\ \A f \in SessionFields \ {"received_messages"} : c[f] = next[f]
    /\ \A id \in c.received_messages :
          id \in next.received_messages \/ (id = MessageId(m) /\ handed'[m] > 0)

(***************************************************************************)
(* The two ways out of a commit: TooManyMessages, and the plaintext.       *)
(***************************************************************************)
LEMMA CommitOrTracked ==
    ASSUME NEW next, SessionTypeOK(next), NEW m
    PROVE  /\ AfterCommit(next, next, m)
           /\ handed'[m] > 0 => AfterCommit(Tracked(next, m), next, m)
BY DEF AfterCommit, Tracked, SessionTypeOK, SessionFields

(***************************************************************************)
(* What such a session looks like after a commit without a DH ratchet.     *)
(***************************************************************************)
LEMMA OnChainFields ==
    ASSUME NEW s, SessionTypeOK(s), NEW m, NEW fresh, NEW c,
           ~DhRatchetNeeded(s, m), AfterCommit(c, Committed(s, m, fresh), m)
    PROVE  /\ c.ck_r = <<s.ck_r[1], s.ck_r[2] + 1>>
           /\ c.nr = s.nr + 1
           /\ c.mkskipped = SkipMessageKeys(s.mkskipped, s.ck_r, s.hk_r, s.nr, m.n)
           /\ \A f \in SessionFields \ {"ck_r", "nr", "mkskipped", "received_messages"} :
                 c[f] = s[f]
           /\ \A id \in c.received_messages :
                 \/ id \in s.received_messages
                 \/ id = MessageId(m) /\ handed'[m] > 0
<1> DEFINE next == Committed(s, m, fresh)
           store == SkipMessageKeys(s.mkskipped, s.ck_r, s.hk_r, s.nr, m.n)
<1>1. /\ next.ck_r = <<s.ck_r[1], s.ck_r[2] + 1>>
      /\ next.nr = s.nr + 1
      /\ next.mkskipped = store
      /\ \A f \in SessionFields \ {"ck_r", "nr", "mkskipped"} : next[f] = s[f]
  BY CommittedOnChain DEF SessionTypeOK
<1>2. AfterCommit(c, next, m)
  OBVIOUS
<1> HIDE DEF next, store
<1>3. c.ck_r = next.ck_r /\ c.nr = next.nr /\ c.mkskipped = next.mkskipped
  BY <1>2 DEF AfterCommit, SessionFields
<1>4. next.received_messages = s.received_messages
  BY <1>1 DEF SessionFields
<1>5. \A f \in SessionFields \ {"ck_r", "nr", "mkskipped", "received_messages"} :
          c[f] = s[f]
  BY <1>1, <1>2 DEF AfterCommit
<1> QED BY <1>1, <1>2, <1>3, <1>4, <1>5 DEF AfterCommit, store

(***************************************************************************)
(* The ids that were tracked are those of messages that were decrypted.    *)
(***************************************************************************)
LEMMA ReceivedStays ==
    ASSUME IInv, ReceivedOK, NEW p \in Party, NEW m \in Sent, NEW c,
           state' = [state EXCEPT ![p] = c],
           Sent' = Sent, \A k \in Sent : handed[k] > 0 => handed'[k] > 0,
           \A id \in c.received_messages :
              \/ id \in state[p].received_messages
              \/ id = MessageId(m) /\ handed'[m] > 0
    PROVE  ReceivedOK'
<1>1. \A q \in Party : state'[q] = IF q = p THEN c ELSE state[q]
  BY DEF IInv, TypeOK
<1> SUFFICES ASSUME NEW q \in Party, NEW id \in state'[q].received_messages
             PROVE  \E k \in Sent : MessageId(k) = id /\ handed'[k] > 0
  BY DEF ReceivedOK
<1>2. \/ id \in state[q].received_messages
      \/ id = MessageId(m) /\ handed'[m] > 0
  BY <1>1
<1> QED BY <1>2 DEF ReceivedOK

(***************************************************************************)
(* A commit without a DH ratchet.  For the leader the message is one of    *)
(* the other party's current chain, for the other party one of the         *)
(* leader's previous chain; in both cases it lies within what was sent.    *)
(***************************************************************************)
LEMMA OnChainAgrees ==
    ASSUME NoneIsNoKey, AInv, IInv',
           NEW p \in Party, NEW m \in Sent, NEW c, NEW fresh,
           Admitted(state[p], m), ~DhRatchetNeeded(state[p], m),
           AfterCommit(c, Committed(state[p], m, fresh), m),
           state' = [state EXCEPT ![p] = c],
           Sent' = Sent, \A k \in Sent : handed[k] > 0 => handed'[k] > 0
    PROVE  AInv'
<1> DEFINE s == state[p]
           store == SkipMessageKeys(s.mkskipped, s.ck_r, s.hk_r, s.nr, m.n)
<1>1. PICK l \in Party : /\ Turn(state, l)
                         /\ \A k \in Sent : PreviousOK(state, l, k)
  BY DEF AInv
<1>2. /\ SessionTypeOK(s) /\ SessionOK(s) /\ PacketTypeOK(m) /\ PacketOK(m)
      /\ s.ns \in Nat /\ s.nr \in Nat /\ m.n \in Nat /\ m.hk # None
      /\ MessageOK(state, m) /\ OwnKeysOK(state, p)
  BY LimitAssumption
     DEF AInv, IInv, TypeOK, SessionTypeOK, PacketTypeOK, PacketOK, KeysOK
<1>3. m.hk = s.hk_r /\ s.ck_r # None /\ s.ck_r[2] = s.nr
  BY <1>2 DEF DhRatchetNeeded, SessionOK, OwnKeysOK
<1>4. s.nr <= m.n
  BY <1>2, AdmittedInRange DEF ReceivingFrom, SkipAllowed
<1>5. /\ c.ck_r = <<s.ck_r[1], s.nr + 1>>
      /\ c.nr = s.nr + 1
      /\ c.mkskipped = store
      /\ \A f \in SessionFields \ {"ck_r", "nr", "mkskipped", "received_messages"} :
            c[f] = s[f]
      /\ \A id \in c.received_messages :
            \/ id \in s.received_messages
            \/ id = MessageId(m) /\ handed'[m] > 0
  <2>1. SessionTypeOK(s) /\ AfterCommit(c, Committed(s, m, fresh), m)
    BY <1>2
  <2> HIDE DEF s
  <2> QED BY <2>1, <1>3, OnChainFields DEF s
<1>6. \A q \in Party : state'[q] = IF q = p THEN c ELSE state[q]
  BY DEF AInv, IInv, TypeOK
<1> HIDE DEF store
<1>7. \A q \in Party : Quiet(state[q], state'[q])
  <2>1. Quiet(s, c)
    BY <1>2, <1>3, <1>5 DEF Quiet, MovesOn, SessionFields
  <2>2. \A q \in Party : Quiet(state[q], state[q])
    BY LimitAssumption DEF Quiet, MovesOn, AInv, IInv, TypeOK, SessionTypeOK
  <2> QED BY <2>1, <2>2, <1>6
<1>8. Leads(state'[l], state'[Peer(l)])
  <2> DEFINE a == state[l]
             b == state[Peer(l)]
             a2 == state'[l]
             b2 == state'[Peer(l)]
  <2>1. /\ a.ns \in Nat /\ b.ns \in Nat /\ a.nr \in Nat /\ b.nr \in Nat
        /\ a.pn \in Nat
        /\ Leads(a, b) /\ a.ck_s[2] >= a.ns /\ a.nr <= b.ns /\ b.nr <= a.pn
        /\ a.ck_r # None => a.ck_r[2] = a.nr
    BY <1>1, TwoParties, LimitAssumption
       DEF Turn, Leads, AInv, IInv, TypeOK, SessionTypeOK
  <2>2. /\ a2.ck_s = a.ck_s /\ a2.ns = a.ns /\ a2.pn = a.pn
        /\ b2.ns = b.ns
    BY <1>5, <1>6, TwoParties DEF SessionFields
  <2>3. Quiet(a, a2) /\ Quiet(b, b2)
    BY <1>7, TwoParties
  <2>4. m.n < IF p = l THEN b.ns ELSE a.pn
    BY <1>1, <1>3, ReceivingChain
  <2>5. /\ a2.nr <= b2.ns
        /\ b2.nr <= a2.pn
        /\ a2.ck_r # None => a2.ck_r[2] = a2.nr
    <3>1. CASE p = l
      <4>1. a2 = c /\ a = s /\ b2 = b
        BY <3>1, <1>6, TwoParties
      <4>2. m.n < b.ns
        BY <3>1, <2>4
      <4> HIDE DEF a, b, a2, b2, s
      <4> QED BY <4>1, <4>2, <1>2, <1>4, <1>5, <2>1, <2>2
    <3>2. CASE p # l
      <4>1. b2 = c /\ b = s /\ a2 = a
        BY <3>2, <1>6, TwoParties
      <4>2. m.n < a.pn
        BY <3>2, <2>4
      <4> HIDE DEF a, b, a2, b2, s
      <4> QED BY <4>1, <4>2, <1>2, <1>4, <1>5, <2>1, <2>2
    <3> QED BY <3>1, <3>2
  <2> HIDE DEF a, b, a2, b2
  <2>6. Leads(a2, b2)
    BY <2>1, <2>2, <2>3, <2>5, QuietLeads
  <2> QED BY <2>6 DEF a2, b2
<1>9. /\ KeysOK(state')
      /\ Turn(state', l)
      /\ \A k : MessageOK(state, k) /\ k.n \in Nat => MessageOK(state', k)
      /\ \A k : k.hk # None /\ PreviousOK(state, l, k) => PreviousOK(state', l, k)
      /\ \A k : EntryOK(state, k) => EntryOK(state', k)
  BY <1>1, <1>7, <1>8, QuietStep DEF AInv
<1>10. \A k \in Sent' : MessageOK(state', k) /\ PreviousOK(state', l, k)
  BY <1>1, <1>9 DEF AInv, IInv, TypeOK, PacketTypeOK, PacketOK
<1>11. /\ Genuine(store, p, Sent)
       /\ \A k \in DOMAIN store : EntryOK(state, k)
  <2>1. \A k \in Sent : /\ k.mk = <<"mk", k.mk[2], k.n>>
                        /\ k.hk = s.hk_r => k.mk[2] = s.ck_r[1] /\ Sender(k) = Peer(p)
    BY <1>1, ReceivingChain DEF AInv, MessageOK
  <2>2. Genuine(s.mkskipped, p, Sent)
    BY StoresOfGenuine DEF AInv, StoresOK
  <2>3. /\ Genuine(store, p, Sent)
        /\ \A k \in DOMAIN store : \/ k \in DOMAIN s.mkskipped
                                   \/ k = <<s.hk_r, k[2]>> /\ k[2] \in s.nr .. m.n - 1
    <3>1. s.ck_r[2] = s.nr /\ s.nr \in Nat /\ m.n \in Nat
      BY <1>2, <1>3
    <3> HIDE DEF s
    <3>2. Genuine(store, p, Sent)
      BY <3>1, <2>1, <2>2, SkipKeepsGenuine DEF store
    <3>3. HoldsSkipped(store, s.mkskipped, s.ck_r, s.hk_r, s.nr, m.n)
      BY <3>1, SkipMessageKeysEntries DEF store
    <3> QED BY <3>2, <3>3 DEF HoldsSkipped
  <2>4. ASSUME NEW n \in s.nr .. m.n - 1 PROVE EntryOK(state, <<m.hk, n>>)
    <3>1. n \in Nat /\ n <= m.n
      BY <1>2
    <3>2. \A q \in Party : state[q].ns \in Nat
      BY LimitAssumption DEF AInv, IInv, TypeOK, SessionTypeOK
    <3> QED BY <3>1, <3>2, <1>2, NumberMayBeStored
  <2>5. ASSUME NEW k \in DOMAIN store PROVE EntryOK(state, k)
    <3>1. CASE k \in DOMAIN s.mkskipped
      BY <3>1 DEF AInv, StoresOK
    <3>2. CASE k = <<s.hk_r, k[2]>> /\ k[2] \in s.nr .. m.n - 1
      BY <3>2, <2>4, <1>3, Zenon
    <3> QED BY <3>1, <3>2, <2>3
  <2> QED BY <2>3, <2>5
<1>12. StoresOK'
  <2>1. ASSUME NEW q \in Party
        PROVE  /\ Genuine(state'[q].mkskipped, q, Sent)
               /\ \A k \in DOMAIN state'[q].mkskipped : EntryOK(state', k)
    <3>1. CASE q = p
      BY <3>1, <1>5, <1>6, <1>9, <1>11
    <3>2. CASE q # p
      BY <3>2, <1>6, <1>9, StoresOfGenuine DEF AInv, StoresOK
    <3> QED BY <3>1, <3>2
  <2> QED BY <2>1, StoresOfGenuine DEF StoresOK
<1>13. IdsUnique'
  BY DEF AInv, IdsUnique
<1>14. ReceivedOK'
  BY <1>5, ReceivedStays DEF AInv
<1> QED BY <1>9, <1>10, <1>12, <1>13, <1>14 DEF AInv

(***************************************************************************)
(* Keys leave the store: one that was used, or all of them when the commit *)
(* fails at its first step.                                                *)
(***************************************************************************)
StoreShrinks(s, c) ==
    /\ \A f \in SessionFields \ {"mkskipped"} : c[f] = s[f]
    /\ DOMAIN c.mkskipped \subseteq DOMAIN s.mkskipped
    /\ \A k \in DOMAIN c.mkskipped : c.mkskipped[k] = s.mkskipped[k]

(***************************************************************************)
(* try_skipped_message_keys takes one key out of the store, and a commit   *)
(* that fails at its first step takes out all of them.                     *)
(***************************************************************************)
LEMMA StoreShrinksSteps ==
    ASSUME NEW s, DOMAIN s = SessionFields, NEW m
    PROVE  /\ StoreShrinks(s, WithoutSkippedKey(s, m))
           /\ StoreShrinks(s, SkippedKeysLost(s))
<1>1. StoreShrinks(s, WithoutSkippedKey(s, m))
  <2> DEFINE store == Restrict(s.mkskipped, DOMAIN s.mkskipped \ {<<m.hk, m.n>>})
  <2>1. /\ DOMAIN store \subseteq DOMAIN s.mkskipped
        /\ \A k \in DOMAIN store : store[k] = s.mkskipped[k]
    BY DEF Restrict
  <2>2. WithoutSkippedKey(s, m) = [s EXCEPT !.mkskipped = store]
    BY DEF WithoutSkippedKey
  <2> HIDE DEF store
  <2>3. LET c == WithoutSkippedKey(s, m)
        IN  /\ c.mkskipped = store
            /\ \A f \in SessionFields \ {"mkskipped"} : c[f] = s[f]
    BY <2>2 DEF SessionFields
  <2> QED BY <2>1, <2>3 DEF StoreShrinks
<1>2. StoreShrinks(s, SkippedKeysLost(s))
  BY DEF StoreShrinks, SkippedKeysLost, EmptyStore, SessionFields
<1> QED BY <1>1, <1>2

(***************************************************************************)
(* Neither disturbs the agreement of the two sessions.                     *)
(***************************************************************************)
LEMMA StoreShrinksAgrees ==
    ASSUME NoneIsNoKey, AInv, IInv',
           NEW p \in Party, NEW c, StoreShrinks(state[p], c),
           state' = [state EXCEPT ![p] = c],
           Sent' = Sent, \A k \in Sent : handed[k] > 0 => handed'[k] > 0
    PROVE  AInv'
<1>1. PICK l \in Party : /\ Turn(state, l)
                         /\ \A k \in Sent : PreviousOK(state, l, k)
  BY DEF AInv
<1>2. \A q \in Party : state'[q] = IF q = p THEN c ELSE state[q]
  BY DEF AInv, IInv, TypeOK
<1>3. \A q \in Party : StoreShrinks(state[q], state'[q])
  BY <1>2 DEF StoreShrinks
<1>4. \A q \in Party :
         /\ state'[q].dh_pair = state[q].dh_pair
         /\ state'[q].dh_remote = state[q].dh_remote
         /\ state'[q].rk = state[q].rk /\ state'[q].pn = state[q].pn
         /\ state'[q].hk_s = state[q].hk_s /\ state'[q].hk_r = state[q].hk_r
         /\ state'[q].nhk_s = state[q].nhk_s /\ state'[q].nhk_r = state[q].nhk_r
         /\ state'[q].ns = state[q].ns /\ state'[q].nr = state[q].nr
         /\ state'[q].ck_s = state[q].ck_s /\ state'[q].ck_r = state[q].ck_r
         /\ state'[q].received_messages = state[q].received_messages
  BY <1>3 DEF StoreShrinks, SessionFields
<1>5. \A q \in Party : Quiet(state[q], state'[q])
  BY <1>4, LimitAssumption DEF Quiet, MovesOn, AInv, IInv, TypeOK, SessionTypeOK
<1>6. Leads(state'[l], state'[Peer(l)])
  BY <1>1, <1>4, TwoParties DEF Turn, Leads
<1>7. /\ KeysOK(state')
      /\ Turn(state', l)
      /\ \A k : MessageOK(state, k) /\ k.n \in Nat => MessageOK(state', k)
      /\ \A k : k.hk # None /\ PreviousOK(state, l, k) => PreviousOK(state', l, k)
      /\ \A k : EntryOK(state, k) => EntryOK(state', k)
  BY <1>1, <1>5, <1>6, QuietStep DEF AInv
<1>8. \A k \in Sent' : MessageOK(state', k) /\ PreviousOK(state', l, k)
  BY <1>1, <1>7 DEF AInv, IInv, TypeOK, PacketTypeOK, PacketOK
<1>9. StoresOK'
  <2>1. ASSUME NEW q \in Party
        PROVE  /\ Genuine(state'[q].mkskipped, q, Sent)
               /\ \A k \in DOMAIN state'[q].mkskipped : EntryOK(state', k)
    <3>1. /\ DOMAIN state'[q].mkskipped \subseteq DOMAIN state[q].mkskipped
          /\ \A k \in DOMAIN state'[q].mkskipped :
                state'[q].mkskipped[k] = state[q].mkskipped[k]
      BY <1>3 DEF StoreShrinks
    <3>2. /\ Genuine(state[q].mkskipped, q, Sent)
          /\ \A k \in DOMAIN state[q].mkskipped : EntryOK(state, k)
      BY StoresOfGenuine DEF AInv, StoresOK
    <3>3. Genuine(state'[q].mkskipped, q, Sent)
      BY <3>1, <3>2 DEF Genuine
    <3>4. \A k \in DOMAIN state'[q].mkskipped : EntryOK(state', k)
      BY <3>1, <3>2, <1>7
    <3> QED BY <3>3, <3>4
  <2> QED BY <2>1, StoresOfGenuine DEF StoresOK
<1>10. IdsUnique'
  BY DEF AInv, IdsUnique
<1>11. ReceivedOK'
  BY <1>4 DEF AInv, ReceivedOK
<1> QED BY <1>7, <1>8, <1>9, <1>10, <1>11 DEF AInv

(***************************************************************************)
(* What a DH ratchet on a message of the leader a's current chain makes of *)
(* the keys and counters of the other session, b.                          *)
(***************************************************************************)
TakesTheLead(a, b, c, fresh) ==
    LET send == KdfRkHe(a.rk, DH(fresh, a.dh_pair))
    IN  /\ c.pn = b.ns /\ c.ns = 0 /\ c.nr = 1
        /\ c.hk_s = b.nhk_s /\ c.hk_r = b.nhk_r
        /\ c.dh_remote = a.dh_pair /\ c.dh_pair = fresh
        /\ c.rk = send.rk
        /\ c.ck_r = <<a.rk, 1>> /\ c.ck_s = <<send.rk, 0>>
        /\ c.nhk_r = a.nhk_s /\ c.nhk_s = send.nhk

(***************************************************************************)
(* The two root keys derived from one exchange are the same: X25519 does   *)
(* not tell which of the two key pairs is the own one.                     *)
(***************************************************************************)
LEMMA CommittedTakesTheLead ==
    ASSUME NEW a, NEW b, Leads(a, b), DOMAIN b = SessionFields,
           NEW m, m.dh_pub = a.dh_pair, DhRatchetNeeded(b, m), NEW fresh
    PROVE  LET c == Committed(b, m, fresh)
           IN  /\ TakesTheLead(a, b, c, fresh)
               /\ c.mkskipped = SkipMessageKeys(PreviousChainStored(b, m),
                                                <<a.rk, 0>>, b.nhk_r, 0, m.n)
               /\ c.received_messages = {}
<1> DEFINE c == Committed(b, m, fresh)
           recv == KdfRkHe(b.rk, DH(b.dh_pair, m.dh_pub))
           send == KdfRkHe(recv.rk, DH(fresh, m.dh_pub))
           previous == PreviousChainStored(b, m)
<1>1. /\ c.mkskipped = SkipMessageKeys(previous, recv.ck, b.nhk_r, 0, m.n)
      /\ c.pn = b.ns /\ c.ns = 0 /\ c.nr = 1
      /\ c.hk_s = b.nhk_s /\ c.hk_r = b.nhk_r
      /\ c.dh_remote = m.dh_pub /\ c.dh_pair = fresh
      /\ c.rk = send.rk
      /\ c.ck_r = <<recv.rk, 1>> /\ c.ck_s = <<send.rk, 0>>
      /\ c.nhk_r = recv.nhk /\ c.nhk_s = send.nhk
      /\ c.received_messages = {}
  BY CommittedRatchet
<1>2. recv = KdfRkHe(b.rk, DH(a.dh_pair, b.dh_pair))
  <2>1. DH(b.dh_pair, m.dh_pub) = DH(a.dh_pair, b.dh_pair)
    BY DEF DH
  <2> QED BY <2>1
<1>3. recv.rk = a.rk /\ recv.nhk = a.nhk_s
  BY <1>2 DEF Leads
<1>4. recv.ck = <<recv.rk, 0>>
  BY DEF KdfRkHe
<1>5. send = KdfRkHe(a.rk, DH(fresh, a.dh_pair))
  BY <1>3
<1> HIDE DEF c, recv, send, previous
<1>6. TakesTheLead(a, b, c, fresh)
  BY <1>1, <1>3, <1>5 DEF TakesTheLead
<1>7. c.mkskipped = SkipMessageKeys(previous, <<a.rk, 0>>, b.nhk_r, 0, m.n)
  BY <1>1, <1>3, <1>4
<1> QED BY <1>1, <1>6, <1>7 DEF c, previous

(***************************************************************************)
(* The party that takes the lead leads from then on.                       *)
(***************************************************************************)
LEMMA NewLeader ==
    ASSUME NoneIsNoKey, NEW a, NEW b, NEW c, NEW fresh,
           Leads(a, b), TakesTheLead(a, b, c, fresh),
           a.ck_s[1] = a.rk, a.ns \in Nat, a.ns > 0, a.nr <= b.ns
    PROVE  Leads(c, a)
<1> DEFINE send == KdfRkHe(a.rk, DH(fresh, a.dh_pair))
<1>1. /\ c.dh_remote = a.dh_pair
      /\ c.rk = send.rk /\ c.nhk_s = send.nhk
      /\ c.ck_s = <<send.rk, 0>> /\ c.ck_r = <<a.rk, 1>>
      /\ c.pn = b.ns /\ c.ns = 0 /\ c.nr = 1 /\ c.dh_pair = fresh
      /\ c.nhk_r = a.nhk_s
      /\ c.hk_s = b.nhk_s /\ c.hk_r = b.nhk_r
  BY DEF TakesTheLead
<1>2. /\ a.ck_s # None /\ a.hk_s = b.nhk_r /\ a.nhk_r = b.nhk_s
  BY DEF Leads
<1>3. send.ck[1] = send.rk
  BY DEF KdfRkHe
<1>4. c.ck_s # None /\ c.ck_r # None
  BY <1>1 DEF NoneIsNoKey
<1>5. /\ c.ck_s[1] = send.ck[1] /\ c.ck_s[2] >= c.ns
      /\ c.ck_r = <<a.ck_s[1], c.nr>> /\ c.nr <= a.ns
  <2> HIDE DEF send
  <2> QED BY <1>1, <1>3
<1>6. c.rk = KdfRkHe(a.rk, DH(c.dh_pair, a.dh_pair)).rk
      /\ c.nhk_s = KdfRkHe(a.rk, DH(c.dh_pair, a.dh_pair)).nhk
      /\ c.ck_s[1] = KdfRkHe(a.rk, DH(c.dh_pair, a.dh_pair)).ck[1]
  BY <1>1, <1>5
<1> HIDE DEF send
<1> QED BY <1>1, <1>2, <1>4, <1>5, <1>6 DEF Leads

(***************************************************************************)
(* When the lead changes hands, what was derived anew differs from all     *)
(* that was known, and the messages on the network and the stored keys     *)
(* stay what they were.                                                    *)
(***************************************************************************)
Led(st, st2, p) ==
    /\ KeysOK(st2)
    /\ Turn(st2, p)
    /\ \A m : MessageOK(st, m) => MessageOK(st2, m)
    /\ \A k : EntryOK(st, k) => EntryOK(st2, k)

LEMMA LeadChangesHands ==
    ASSUME NoneIsNoKey, NEW st, NEW st2, KeysOK(st),
           NEW l \in Party, NEW p \in Party, p = Peer(l), Turn(st, l),
           st2[l] = st[l], st[l].ns \in Nat, st[l].ns > 0, st[l].nr <= st[p].ns,
           NEW i \in Nat, st[p].dh_pair[2] < i,
           TakesTheLead(st[l], st[p], st2[p], Key(p, i))
    PROVE  Led(st, st2, p)
<1> DEFINE a == st[l]
           b == st[p]
           c == st2[p]
           fresh == Key(p, i)
           send == KdfRkHe(a.rk, DH(fresh, a.dh_pair))
<1>1. /\ l # p /\ Peer(p) = l /\ \A q \in Party : q = l \/ q = p
      /\ OwnKeysOK(st, l) /\ OwnKeysOK(st, p)
  BY TwoParties DEF KeysOK
<1>2. /\ c.hk_s = b.nhk_s /\ c.hk_r = b.nhk_r
      /\ c.dh_pair = fresh
      /\ c.rk = send.rk /\ c.nhk_s = send.nhk
      /\ c.ck_r = <<a.rk, 1>> /\ c.ck_s = <<send.rk, 0>>
      /\ c.ns = 0
  BY DEF TakesTheLead
<1>3. /\ ~Generated(st, fresh) /\ ~Known(st, send.rk) /\ ~KnownHeaderKey(st, send.nhk)
      /\ send.rk = <<"okm", a.rk, {fresh, a.dh_pair}>>
      /\ send.nhk = <<"nhk", send.rk>>
  BY FreshIsNew DEF KdfRkHe, DH
<1>4. fresh = <<p, i>> /\ fresh[2] = i
      /\ b.dh_pair[2] \in Nat /\ a.dh_pair[2] \in Nat
      /\ a.dh_pair = Key(l, a.dh_pair[2])
  BY <1>1 DEF Key, OwnKeysOK
<1>5. /\ a.ck_s # None /\ a.ck_s[1] = a.rk /\ Known(st, a.rk)
      /\ a.hk_s # None /\ a.hk_s = b.nhk_r /\ a.hk_r = b.hk_s
      /\ a.nhk_s # None /\ b.nhk_s # None
  <2>1. Leads(a, b)
    BY DEF Turn
  <2>2. a.ck_s # None /\ a.hk_s = b.nhk_r /\ a.hk_r = b.hk_s
    BY <2>1 DEF Leads
  <2>3. a.ck_s = <<a.rk, a.ck_s[2]>> /\ Known(st, a.rk) /\ a.hk_s # None
        /\ a.nhk_s # None /\ b.nhk_s # None
    BY <1>1, <2>2 DEF OwnKeysOK
  <2> HIDE DEF a, b
  <2>4. a.ck_s[1] = a.rk
    BY <2>3
  <2> QED BY <2>2, <2>3, <2>4
<1>6. Leads(c, a)
  BY <1>5, NewLeader DEF Turn
<1>7. /\ \A k : Generated(st, k) => Generated(st2, k)
      /\ \A r : Known(st, r) => Known(st2, r)
      /\ \A hk : KnownHeaderKey(st, hk) => KnownHeaderKey(st2, hk)
  <2>1. \A q \in Party : /\ st[q].dh_pair[2] \in Nat
                         /\ st2[q].dh_pair[2] \in Nat
                         /\ st[q].dh_pair[2] <= st2[q].dh_pair[2]
    BY <1>1, <1>2, <1>4
  <2> QED BY <2>1, KnownStays
<1>8. Generated(st2, fresh) /\ Known(st2, send.rk)
  <2>1. Generated(st2, fresh)
    <3>1. i \in 0 .. st2[p].dh_pair[2] /\ fresh = Key(p, i)
      BY <1>2, <1>4
    <3> HIDE DEF fresh
    <3> QED BY <3>1 DEF Generated
  <2>2. Generated(st2, a.dh_pair)
    <3>1. a.dh_pair[2] \in 0 .. st2[l].dh_pair[2]
      BY <1>4
    <3> QED BY <3>1, <1>4 DEF Generated
  <2>3. send.rk[3] = {fresh, a.dh_pair}
    BY <1>3
  <2> HIDE DEF send, fresh
  <2> QED BY <2>1, <2>2, <2>3 DEF Known
<1> HIDE DEF fresh, send
<1>9. send.nhk # None /\ send.nhk[1] = "nhk" /\ send.nhk[2] = send.rk
  BY <1>3 DEF NoneIsNoKey
<1>10. OwnKeysOK(st2, p)
  <2>1. /\ c.dh_pair[2] \in Nat /\ c.dh_pair = Key(p, c.dh_pair[2])
    BY <1>2, <1>4 DEF Key
  <2>2. c.hk_s # None /\ c.ck_s # None /\ c.hk_r # None /\ c.ck_r # None
    BY <1>2, <1>5 DEF NoneIsNoKey
  <2>3. c.ck_s = <<c.rk, c.ck_s[2]>> /\ c.ck_s[2] \in Nat /\ Known(st2, c.rk)
    BY <1>2, <1>8
  <2>4. KnownHeaderKey(st2, c.hk_s)
    BY <1>1, <1>2, <1>5, <1>7 DEF OwnKeysOK
  <2>5. KnownHeaderKey(st2, c.hk_r)
    BY <1>1, <1>2, <1>5, <1>7 DEF OwnKeysOK
  <2>6. KnownHeaderKey(st2, c.nhk_s)
    BY <1>2, <1>8, <1>9 DEF KnownHeaderKey
  <2>7. c.nhk_s # None
    BY <1>2, <1>9
  <2> HIDE DEF c
  <2> QED BY <2>1, <2>2, <2>3, <2>4, <2>5, <2>6, <2>7 DEF OwnKeysOK, c
<1>11. OwnKeysOK(st2, l)
  BY <1>1, <1>7 DEF OwnKeysOK
<1>12. KeysOK(st2)
  BY <1>1, <1>10, <1>11 DEF KeysOK
<1>13. Turn(st2, p)
  <2>1. c.rk # a.rk
    BY <1>2, <1>3, <1>5
  <2>2. c.nhk_s \notin {b.nhk_s, a.hk_s, a.nhk_s, a.hk_r}
    BY <1>1, <1>2, <1>3, <1>5, <1>9 DEF OwnKeysOK
  <2>3. /\ a.nhk_s \notin {b.nhk_s, a.hk_s, a.hk_r}
        /\ b.nhk_s \notin {a.hk_s, a.hk_r}
        /\ a.hk_s # a.hk_r
    BY <1>5 DEF Turn
  <2> QED BY <1>1, <1>2, <1>6, <2>1, <2>2, <2>3 DEF Turn
<1>14. ASSUME NEW m, MessageOK(st, m) PROVE MessageOK(st2, m)
  <2>1. /\ m.mk = <<"mk", m.mk[2], m.n>>
        /\ Known(st, m.mk[2]) /\ KnownHeaderKey(st, m.hk) /\ Generated(st, m.dh_pub)
        /\ m.hk # a.nhk_s /\ m.hk # b.nhk_s
        /\ Current(m, a) => SentOn(m, l, a)
    BY <1>14 DEF MessageOK
  <2>2. ~Current(m, c)
    <3>1. m.hk # c.hk_s
      BY <2>1, <1>2
    <3>2. m.mk[2] # c.ck_s[1]
      <4>1. m.mk[2] # send.rk
        BY <2>1, <1>3
      <4>2. c.ck_s[1] = send.rk
        BY <1>2
      <4> QED BY <4>1, <4>2
    <3>3. m.dh_pub # c.dh_pair
      BY <2>1, <1>2, <1>3
    <3> HIDE DEF c
    <3> QED BY <3>1, <3>2, <3>3 DEF Current
  <2>3. m.hk # c.nhk_s
    BY <2>1, <1>2, <1>3
  <2> QED BY <2>1, <2>2, <2>3, <1>1, <1>7 DEF MessageOK
<1>15. ASSUME NEW k, EntryOK(st, k) PROVE EntryOK(st2, k)
  <2>1. /\ k = <<k[1], k[2]>> /\ k[2] \in Nat /\ k[1] # None
        /\ KnownHeaderKey(st, k[1])
        /\ k[1] # a.nhk_s /\ k[1] # b.nhk_s
        /\ k[1] = a.hk_s => k[2] < a.ns
    BY <1>15 DEF EntryOK
  <2>2. k[1] # c.hk_s /\ k[1] # c.nhk_s
    BY <2>1, <1>2, <1>3
  <2> QED BY <2>1, <2>2, <1>1, <1>7 DEF EntryOK
<1> QED BY <1>12, <1>13, <1>14, <1>15 DEF Led

(***************************************************************************)
(* A message under the next header key was sent by the leader, on its      *)
(* current chain.  So it is the other party that ratchets.                 *)
(***************************************************************************)
LEMMA RatchetIsTheOthers ==
    ASSUME AInv, NEW l \in Party, Turn(state, l),
           NEW p \in Party, NEW m \in Sent,
           Admitted(state[p], m), DhRatchetNeeded(state[p], m)
    PROVE  /\ p = Peer(l)
           /\ m.hk = state[p].nhk_r /\ m.hk = state[l].hk_s
           /\ SentOn(m, l, state[l])
<1>1. m.hk = state[p].nhk_r
  BY AdmittedGuards DEF DhRatchetNeeded
<1>2. /\ state[l].nhk_r = state[Peer(l)].nhk_s
      /\ state[l].hk_s = state[Peer(l)].nhk_r
  BY DEF Turn, Leads
<1>3. MessageOK(state, m)
  BY DEF AInv
<1>4. p # l
  BY <1>1, <1>2, <1>3, TwoParties DEF MessageOK
<1>5. p = Peer(l)
  BY <1>4, TwoParties
<1>6. m.hk = state[l].hk_s
  BY <1>1, <1>2, <1>5
<1>7. SentOn(m, l, state[l])
  BY <1>3, <1>6 DEF MessageOK, Current
<1> QED BY <1>1, <1>5, <1>6, <1>7

(***************************************************************************)
(* The keys stored by a commit with a DH ratchet: the rest of the chain    *)
(* that ends, then those of the new one up to the message.                 *)
(***************************************************************************)
LEMMA RatchetStores ==
    ASSUME NoneIsNoKey, AInv, NEW l \in Party, Turn(state, l),
           \A k \in Sent : PreviousOK(state, l, k),
           NEW p \in Party, NEW m \in Sent,
           Admitted(state[p], m), DhRatchetNeeded(state[p], m)
    PROVE  LET store == SkipMessageKeys(PreviousChainStored(state[p], m),
                                        <<state[l].rk, 0>>, state[p].nhk_r, 0, m.n)
           IN  /\ Genuine(store, p, Sent)
               /\ \A k \in DOMAIN store : EntryOK(state, k)
<1> DEFINE a == state[l]
           b == state[p]
           previous == PreviousChainStored(b, m)
           store == SkipMessageKeys(previous, <<a.rk, 0>>, b.nhk_r, 0, m.n)
<1>1. /\ p = Peer(l) /\ l = Peer(p) /\ \A q \in Party : q = l \/ q = p
      /\ m.hk = b.nhk_r /\ m.hk = a.hk_s /\ SentOn(m, l, a)
  BY RatchetIsTheOthers, TwoParties
<1>2. /\ SessionOK(b) /\ OwnKeysOK(state, p) /\ OwnKeysOK(state, l)
      /\ b.nr \in Nat /\ a.ns \in Nat /\ b.ns \in Nat
      /\ m.n \in Nat /\ m.pn \in Nat /\ m.hk # None /\ MessageOK(state, m)
  BY LimitAssumption
     DEF AInv, IInv, TypeOK, SessionTypeOK, PacketTypeOK, PacketOK, KeysOK
<1>3. \A k \in Sent : k.mk = <<"mk", k.mk[2], k.n>>
  BY DEF AInv, MessageOK
<1>4. \A k \in Sent : k.hk = b.nhk_r => k.mk[2] = a.rk /\ Sender(k) = Peer(p)
  <2> SUFFICES ASSUME NEW k \in Sent, k.hk = b.nhk_r
               PROVE  k.mk[2] = a.rk /\ Sender(k) = l
    BY <1>1
  <2>1. SentOn(k, l, a)
    BY <1>1 DEF AInv, MessageOK, Current
  <2>2. a.ck_s # None /\ k.mk[2] = a.ck_s[1] /\ Sender(k) = l
    BY <2>1 DEF SentOn
  <2>3. a.ck_s = <<a.rk, a.ck_s[2]>>
    BY <1>2, <2>2 DEF OwnKeysOK
  <2> HIDE DEF a
  <2>4. a.ck_s[1] = a.rk
    BY <2>3
  <2> QED BY <2>2, <2>4
<1>5. /\ Genuine(b.mkskipped, p, Sent)
      /\ \A k \in DOMAIN b.mkskipped : EntryOK(state, k)
  BY StoresOfGenuine DEF AInv, StoresOK
<1>6. /\ Genuine(previous, p, Sent)
      /\ \A k \in DOMAIN previous : EntryOK(state, k)
  <2>1. CASE b.ck_r = None
    BY <1>5, <2>1 DEF PreviousChainStored
  <2>2. CASE b.ck_r # None
    <3>1. previous = SkipMessageKeys(b.mkskipped, b.ck_r, b.hk_r, b.nr, m.pn)
      BY <2>2 DEF PreviousChainStored
    <3>2. b.hk_r # None /\ b.ck_r[2] = b.nr
      BY <2>2, <1>2 DEF OwnKeysOK, SessionOK
    <3>3. \A k \in Sent : k.hk = b.hk_r => k.mk[2] = b.ck_r[1] /\ Sender(k) = Peer(p)
      BY ReceivingChain
    <3>4. ASSUME NEW n \in Nat PROVE EntryOK(state, <<b.hk_r, n>>)
      <4>1. KnownHeaderKey(state, b.hk_r)
        BY <1>2, <3>2 DEF OwnKeysOK
      <4>2. /\ b.hk_r # a.nhk_s /\ b.hk_r # b.nhk_s
            /\ b.hk_r # a.hk_s /\ b.hk_r # b.hk_s
        BY <1>1, <3>2 DEF Turn
      <4> QED BY <1>1, <3>2, <4>1, <4>2 DEF EntryOK
    <3> HIDE DEF b, previous
    <3>5. Genuine(previous, p, Sent)
      BY <3>1, <3>2, <3>3, <1>2, <1>3, <1>5, SkipKeepsGenuine
    <3>6. HoldsSkipped(previous, b.mkskipped, b.ck_r, b.hk_r, b.nr, m.pn)
      BY <3>1, <1>2, SkipMessageKeysEntries
    <3>7. ASSUME NEW k \in DOMAIN previous PROVE EntryOK(state, k)
      <4>1. \/ k \in DOMAIN b.mkskipped
            \/ k = <<b.hk_r, k[2]>> /\ k[2] \in b.nr .. m.pn - 1
        BY <3>6 DEF HoldsSkipped
      <4>2. k[2] \in b.nr .. m.pn - 1 => k[2] \in Nat
        BY <1>2
      <4> QED BY <4>1, <4>2, <3>4, <1>5, Zenon
    <3> QED BY <3>5, <3>7
  <2> QED BY <2>1, <2>2
<1> HIDE DEF previous
<1>7. Genuine(store, p, Sent)
  <2>1. <<a.rk, 0>>[2] = 0 /\ <<a.rk, 0>>[1] = a.rk /\ 0 \in Nat
    OBVIOUS
  <2> HIDE DEF a, b
  <2> QED BY <2>1, <1>2, <1>3, <1>4, <1>6, SkipKeepsGenuine
<1>8. ASSUME NEW k \in DOMAIN store PROVE EntryOK(state, k)
  <2>1. HoldsSkipped(store, previous, <<a.rk, 0>>, b.nhk_r, 0, m.n)
    BY <1>2, SkipMessageKeysEntries
  <2> HIDE DEF store
  <2>2. \/ k \in DOMAIN previous
        \/ k = <<b.nhk_r, k[2]>> /\ k[2] \in 0 .. m.n - 1
    BY <2>1 DEF HoldsSkipped
  <2>3. ASSUME NEW n \in 0 .. m.n - 1 PROVE EntryOK(state, <<m.hk, n>>)
    <3>1. n \in Nat /\ n <= m.n
      BY <1>2
    <3>2. \A q \in Party : state[q].ns \in Nat
      BY LimitAssumption DEF AInv, IInv, TypeOK, SessionTypeOK
    <3> QED BY <3>1, <3>2, <1>2, NumberMayBeStored
  <2> QED BY <2>2, <2>3, <1>1, <1>6, Zenon
<1> QED BY <1>7, <1>8 DEF previous

(***************************************************************************)
(* A commit with a DH ratchet: the lead changes hands.                     *)
(***************************************************************************)
LEMMA RatchetAgrees ==
    ASSUME NoneIsNoKey, AInv, IInv',
           NEW p \in Party, NEW m \in Sent, NEW c,
           Admitted(state[p], m), DhRatchetNeeded(state[p], m),
           AfterCommit(c, Committed(state[p], m, FreshKey(p)), m),
           state' = [state EXCEPT ![p] = c],
           Sent' = Sent, \A k \in Sent : handed[k] > 0 => handed'[k] > 0
    PROVE  AInv'
<1>1. PICK l \in Party : /\ Turn(state, l)
                         /\ \A k \in Sent : PreviousOK(state, l, k)
  BY DEF AInv
<1> DEFINE a == state[l]
           b == state[p]
           next == Committed(b, m, FreshKey(p))
           store == SkipMessageKeys(PreviousChainStored(b, m), <<a.rk, 0>>, b.nhk_r, 0, m.n)
<1>2. /\ p = Peer(l) /\ l = Peer(p) /\ l # p /\ \A q \in Party : q = l \/ q = p
      /\ SentOn(m, l, a)
  BY <1>1, RatchetIsTheOthers, TwoParties
<1>3. /\ SessionTypeOK(b) /\ a.ns \in Nat /\ m.n \in Nat /\ m.n < a.ns
      /\ m.dh_pub = a.dh_pair /\ Leads(a, b) /\ a.nr <= b.ns
  BY <1>1, <1>2, LimitAssumption
     DEF AInv, IInv, TypeOK, SessionTypeOK, PacketTypeOK, SentOn, Turn, Leads
<1>4. /\ TakesTheLead(a, b, next, FreshKey(p))
      /\ next.mkskipped = store
      /\ next.received_messages = {}
  BY <1>3, CommittedTakesTheLead DEF SessionTypeOK
<1> HIDE DEF next, store
<1>5. /\ TakesTheLead(a, b, c, FreshKey(p))
      /\ c.mkskipped = store
      /\ \A id \in c.received_messages : id = MessageId(m) /\ handed'[m] > 0
  <2>1. /\ \A f \in SessionFields \ {"received_messages"} : c[f] = next[f]
        /\ \A id \in c.received_messages :
              id \in next.received_messages \/ (id = MessageId(m) /\ handed'[m] > 0)
    BY DEF AfterCommit, next
  <2> HIDE DEF a, b
  <2>2. TakesTheLead(a, b, c, FreshKey(p)) /\ c.mkskipped = next.mkskipped
    BY <2>1, <1>4 DEF TakesTheLead, SessionFields
  <2> QED BY <2>1, <2>2, <1>4
<1>6. \A q \in Party : state'[q] = IF q = p THEN c ELSE state[q]
  BY DEF AInv, IInv, TypeOK
<1>7. /\ KeysOK(state')
      /\ Turn(state', p)
      /\ \A k : MessageOK(state, k) => MessageOK(state', k)
      /\ \A k : EntryOK(state, k) => EntryOK(state', k)
  <2>1. /\ FreshKey(p) = Key(p, state[p].dh_pair[2] + 1)
        /\ state[p].dh_pair[2] \in Nat
    BY DEF FreshKey, AInv, KeysOK, OwnKeysOK
  <2>2. a.ns > 0
    BY <1>3
  <2>3. state'[l] = state[l] /\ state'[p] = c
    BY <1>2, <1>6
  <2> DEFINE i == state[p].dh_pair[2] + 1
  <2>4. i \in Nat /\ state[p].dh_pair[2] < i /\ FreshKey(p) = Key(p, i)
    BY <2>1
  <2> HIDE DEF i
  <2>5. Led(state, state', p)
    BY <1>1, <1>2, <1>3, <1>5, <2>2, <2>3, <2>4, LeadChangesHands DEF AInv
  <2> QED BY <2>5 DEF Led
<1>8. \A k \in Sent' : MessageOK(state', k)
  BY <1>7 DEF AInv
<1>9. \A k \in Sent' : PreviousOK(state', p, k)
  <2> SUFFICES ASSUME NEW k \in Sent, k.hk = a.hk_r
               PROVE  Sender(k) = p /\ k.mk[2] = a.ck_r[1] /\ k.n < state'[p].pn
    BY <1>2, <1>6 DEF PreviousOK
  <2>1. Sender(k) = p /\ k.mk[2] = a.ck_r[1] /\ k.n < b.ns
    BY <1>1, <1>2, ReceivingChain
  <2>2. state'[p].pn = b.ns
    BY <1>5, <1>6 DEF TakesTheLead
  <2> QED BY <2>1, <2>2
<1>10. StoresOK'
  <2>1. Genuine(store, p, Sent) /\ \A k \in DOMAIN store : EntryOK(state, k)
    BY <1>1, RatchetStores DEF store
  <2>2. ASSUME NEW q \in Party
        PROVE  /\ Genuine(state'[q].mkskipped, q, Sent)
               /\ \A k \in DOMAIN state'[q].mkskipped : EntryOK(state', k)
    <3>1. CASE q = p
      BY <3>1, <2>1, <1>5, <1>6, <1>7
    <3>2. CASE q # p
      BY <3>2, <1>6, <1>7, StoresOfGenuine DEF AInv, StoresOK
    <3> QED BY <3>1, <3>2
  <2> QED BY <2>2, StoresOfGenuine DEF StoresOK
<1>11. IdsUnique'
  BY DEF AInv, IdsUnique
<1>12. ReceivedOK'
  BY <1>5, ReceivedStays DEF AInv
<1> QED BY <1>7, <1>8, <1>9, <1>10, <1>11, <1>12 DEF AInv

(***************************************************************************)
(* Handing over a plaintext is counted for its message, and stays counted. *)
(***************************************************************************)
LEMMA HandCounts ==
    ASSUME IInv, NEW m \in Sent, Hand(m)
    PROVE  /\ Sent' = Sent /\ handed'[m] > 0
           /\ \A k \in Sent : handed[k] > 0 => handed'[k] > 0
<1>1. \A k \in Sent : handed[k] \in Nat
  BY DEF IInv, TypeOK
<1> QED BY <1>1 DEF Hand, Sent

(***************************************************************************)
(* A commit, with or without a DH ratchet.                                 *)
(***************************************************************************)
LEMMA CommitAgrees ==
    ASSUME NoneIsNoKey, AInv, IInv',
           NEW p \in Party, NEW m \in Sent, NEW c, Authentic(p, m),
           AfterCommit(c, Committed(state[p], m, FreshKey(p)), m),
           state' = [state EXCEPT ![p] = c],
           Sent' = Sent, \A k \in Sent : handed[k] > 0 => handed'[k] > 0
    PROVE  AInv'
<1>1. Admitted(state[p], m)
  BY DEF Authentic, Admitted
<1>2. CASE DhRatchetNeeded(state[p], m)
  BY <1>1, <1>2, RatchetAgrees
<1>3. CASE ~DhRatchetNeeded(state[p], m)
  BY <1>1, <1>3, OnChainAgrees
<1> QED BY <1>2, <1>3

(***************************************************************************)
(* Every way out of decrypt that changes the state.                        *)
(***************************************************************************)
LEMMA DecryptAgrees ==
    ASSUME NoneIsNoKey, AInv, IInv', NEW p \in Party, NEW m \in Sent, Decrypt(p, m)
    PROVE  AInv'
<1> DEFINE s == state[p]
           next == Committed(s, m, FreshKey(p))
<1>1. SessionTypeOK(s) /\ SessionOK(s) /\ PacketTypeOK(m) /\ PacketOK(m) /\ IInv
  BY DEF AInv, IInv, TypeOK
<1>2. CASE DecryptWithSkippedKey(p, m)
  BY <1>1, <1>2, HandCounts, StoreShrinksSteps, StoreShrinksAgrees
     DEF DecryptWithSkippedKey, SessionTypeOK
<1>3. CASE DecryptLosesSkippedKeys(p, m)
  <2>1. Sent' = Sent /\ \A k \in Sent : handed[k] > 0 => handed'[k] > 0
    BY <1>3 DEF DecryptLosesSkippedKeys, Sent
  <2> QED BY <1>1, <1>3, <2>1, StoreShrinksSteps, StoreShrinksAgrees
             DEF DecryptLosesSkippedKeys, SessionTypeOK
<1>4. ASSUME Authentic(p, m), ~PreviousChainRefused(s, m)
      PROVE  SessionTypeOK(next)
  <2>1. Admitted(s, m)
    BY <1>4 DEF Authentic, Admitted
  <2> QED BY <1>1, <1>4, <2>1, CommittedKeeps
<1>5. CASE DecryptTooMany(p, m, FreshKey(p))
  <2>1. /\ Authentic(p, m) /\ ~PreviousChainRefused(s, m)
        /\ state' = [state EXCEPT ![p] = next] /\ handed' = handed
    BY <1>5 DEF DecryptTooMany
  <2>2. Sent' = Sent /\ \A k \in Sent : handed[k] > 0 => handed'[k] > 0
    BY <2>1 DEF Sent
  <2>3. AfterCommit(next, next, m)
    BY <1>4, <2>1, CommitOrTracked
  <2> HIDE DEF next
  <2> QED BY <2>1, <2>2, <2>3, CommitAgrees DEF next
<1>6. CASE DecryptOnChain(p, m, FreshKey(p))
  <2> DEFINE c == Tracked(next, m)
  <2>1. /\ Authentic(p, m) /\ ~PreviousChainRefused(s, m)
        /\ state' = [state EXCEPT ![p] = c] /\ Hand(m)
    BY <1>6 DEF DecryptOnChain
  <2>2. /\ Sent' = Sent /\ handed'[m] > 0
        /\ \A k \in Sent : handed[k] > 0 => handed'[k] > 0
    BY <1>1, <2>1, HandCounts
  <2>3. AfterCommit(c, next, m)
    BY <1>4, <2>1, <2>2, CommitOrTracked
  <2> HIDE DEF c
  <2> QED BY <2>1, <2>2, <2>3, CommitAgrees
<1> QED BY <1>2, <1>3, <1>5, <1>6 DEF Decrypt

(***************************************************************************)
(* A step that changes nothing.                                            *)
(***************************************************************************)
LEMMA StutterAgrees == AInv /\ IInv' /\ UNCHANGED vars => AInv'
<1> SUFFICES ASSUME AInv, IInv', state' = state, handed' = handed PROVE AInv'
  BY DEF vars
<1>1. Sent' = Sent
  BY DEF Sent
<1>2. /\ KeysOK(state') /\ \A m \in Sent' : MessageOK(state', m)
      /\ \E l \in Party : Turn(state', l) /\ \A m \in Sent' : PreviousOK(state', l, m)
  BY <1>1 DEF AInv
<1>3. IdsUnique'
  BY <1>1 DEF AInv, IdsUnique
<1>4. StoresOK'
  BY <1>1, StoresOfGenuine DEF AInv, StoresOK
<1>5. ReceivedOK'
  BY <1>1 DEF AInv, ReceivedOK
<1> QED BY <1>2, <1>3, <1>4, <1>5 DEF AInv

(***************************************************************************)
(* Every step of the two parties keeps the invariant.                      *)
(***************************************************************************)
LEMMA NextAgrees == NoneIsNoKey /\ AInv /\ [Next]_vars => AInv'
<1> SUFFICES ASSUME NoneIsNoKey, AInv, [Next]_vars PROVE AInv'
  OBVIOUS
<1>1. IInv'
  BY NextOK DEF AInv
<1>2. ASSUME NEW p \in Party, Encrypt(p) PROVE AInv'
  BY <1>1, <1>2, EncryptAgrees
<1>3. ASSUME NEW p \in Party, EncryptNumberOverflow(p) PROVE AInv'
  <2>1. /\ ValidForEncryption(state[p])
        /\ state' = [state EXCEPT ![p] = ChainAdvanced(state[p])]
        /\ handed' = handed
    BY <1>3, ErrorAssumption DEF EncryptNumberOverflow, EncryptError, Errors
  <2> QED BY <1>1, <2>1, FailedEncryptAgrees
<1>4. ASSUME NEW p \in Party, EncryptNonceOverflow(p) PROVE AInv'
  <2>1. /\ ValidForEncryption(state[p])
        /\ state' = [state EXCEPT ![p] = Numbered(state[p])]
        /\ handed' = handed
    BY <1>4, ErrorAssumption DEF EncryptNonceOverflow, EncryptError, Errors
  <2> QED BY <1>1, <2>1, FailedEncryptAgrees
<1>5. ASSUME NEW p \in Party, NEW ad \in AdSizes, EncryptRefused(p, ad) PROVE AInv'
  BY <1>1, <1>5, StutterAgrees DEF EncryptRefused
<1>6. ASSUME NEW p \in Party, NEW m \in Sent, Decrypt(p, m) PROVE AInv'
  BY <1>1, <1>6, DecryptAgrees
<1>7. ASSUME NEW p \in Party, NEW m \in Sent, NEW fault \in Faults,
             DecryptRefused(p, m, fault)
      PROVE  AInv'
  BY <1>1, <1>7, StutterAgrees DEF DecryptRefused
<1> QED BY <1>1, <1>2, <1>3, <1>4, <1>5, <1>6, <1>7, StutterAgrees DEF Next

(***************************************************************************)
(* The session begins with Alice ahead by the exchange of her key pair     *)
(* with Bob's signed prekey.                                               *)
(***************************************************************************)
LEMMA InitAgrees == NoneIsNoKey /\ Init => AInv
<1> SUFFICES ASSUME NoneIsNoKey, Init PROVE AInv
  OBVIOUS
<1> DEFINE a == state[Alice]
           b == state[Bob]
           kdf == KdfRkHe(SharedSecret, DH(Key(Alice, 1), Key(Bob, 0)))
<1>1. /\ Alice \in Party /\ Bob \in Party /\ Alice # Bob
      /\ Peer(Alice) = Bob /\ Peer(Bob) = Alice
      /\ \A q \in Party : q = Alice \/ q = Bob
  BY PartyAssumption DEF Party, Peer
<1>2. /\ a = InitSenderState(SharedSecret, Key(Alice, 1), Key(Bob, 0))
      /\ b = InitReceiverState(SharedSecret, Key(Bob, 0))
      /\ Sent = {}
  BY <1>1 DEF Init, Sent
<1>3. /\ a.dh_pair = Key(Alice, 1) /\ a.dh_remote = Key(Bob, 0)
      /\ a.rk = kdf.rk /\ a.ck_s = kdf.ck /\ a.ck_r = None
      /\ a.hk_s = InitiatorHeaderKey(SharedSecret) /\ a.hk_r = None
      /\ a.nhk_s = kdf.nhk /\ a.nhk_r = ResponderHeaderKey(SharedSecret)
      /\ a.ns = 0 /\ a.nr = 0 /\ a.pn = 0 /\ a.mkskipped = EmptyStore
      /\ a.received_messages = {}
  BY <1>2 DEF InitSenderState
<1>4. /\ b.dh_pair = Key(Bob, 0) /\ b.dh_remote = None
      /\ b.rk = SharedSecret /\ b.ck_s = None /\ b.ck_r = None
      /\ b.hk_s = None /\ b.hk_r = None
      /\ b.nhk_s = ResponderHeaderKey(SharedSecret)
      /\ b.nhk_r = InitiatorHeaderKey(SharedSecret)
      /\ b.ns = 0 /\ b.nr = 0 /\ b.pn = 0 /\ b.mkskipped = EmptyStore
      /\ b.received_messages = {}
  BY <1>2 DEF InitReceiverState
<1> HIDE DEF a, b
<1>5. /\ kdf.rk = <<"okm", SharedSecret, {Key(Alice, 1), Key(Bob, 0)}>>
      /\ kdf.ck = <<kdf.rk, 0>> /\ kdf.nhk = <<"nhk", kdf.rk>>
      /\ kdf.rk[3] = {Key(Alice, 1), Key(Bob, 0)}
      /\ kdf.rk # SharedSecret
  BY DEF KdfRkHe, DH, SharedSecret
<1> HIDE DEF kdf
<1>6. /\ InitiatorHeaderKey(SharedSecret) # None
      /\ ResponderHeaderKey(SharedSecret) # None
      /\ InitiatorHeaderKey(SharedSecret)[1] = "initiator"
      /\ ResponderHeaderKey(SharedSecret)[1] = "responder"
      /\ kdf.nhk # None /\ kdf.nhk[1] = "nhk" /\ kdf.nhk[2] = kdf.rk
      /\ kdf.ck # None /\ kdf.ck[1] = kdf.rk /\ kdf.ck[2] = 0
  BY <1>5 DEF NoneIsNoKey, InitiatorHeaderKey, ResponderHeaderKey
<1>7. Known(state, kdf.rk)
  <2>1. Generated(state, Key(Alice, 1)) /\ Generated(state, Key(Bob, 0))
    <3>1. a.dh_pair[2] = 1 /\ b.dh_pair[2] = 0
      BY <1>3, <1>4 DEF Key
    <3> QED BY <1>1, <3>1 DEF Generated, a, b
  <2> QED BY <2>1, <1>5 DEF Known
<1>8. KeysOK(state)
  <2>1. OwnKeysOK(state, Alice)
    <3>1. /\ a.dh_pair[2] = 1 /\ a.nhk_s # None
          /\ (a.hk_s = None) <=> (a.ck_s = None)
          /\ (a.hk_r = None) <=> (a.ck_r = None)
      BY <1>3, <1>6 DEF Key
    <3>2. a.ck_s = <<a.rk, a.ck_s[2]>> /\ a.ck_s[2] = 0 /\ Known(state, a.rk)
      BY <1>3, <1>5, <1>6, <1>7
    <3>3. KnownHeaderKey(state, a.hk_s) /\ KnownHeaderKey(state, a.nhk_s) /\ a.hk_r = None
      BY <1>3, <1>6, <1>7 DEF KnownHeaderKey
    <3> QED BY <3>1, <3>2, <3>3, <1>3 DEF OwnKeysOK, a
  <2>2. OwnKeysOK(state, Bob)
    <3>1. b.dh_pair[2] = 0
      BY <1>4 DEF Key
    <3>2. KnownHeaderKey(state, b.nhk_s) /\ b.nhk_s # None
      BY <1>4, <1>6 DEF KnownHeaderKey
    <3> QED BY <3>1, <3>2, <1>4 DEF OwnKeysOK, b
  <2> QED BY <2>1, <2>2, <1>1 DEF KeysOK
<1>9. Turn(state, Alice)
  <2>1. Leads(a, b)
    <3>1. KdfRkHe(b.rk, DH(a.dh_pair, b.dh_pair)) = kdf
      BY <1>3, <1>4 DEF kdf
    <3> QED BY <3>1, <1>3, <1>4, <1>6 DEF Leads
  <2>2. a.nhk_s \notin {a.hk_s, b.hk_s, b.nhk_s, b.hk_r}
    BY <1>3, <1>4, <1>6
  <2>3. /\ b.nhk_s \notin {a.hk_s, b.hk_s, b.hk_r}
        /\ a.hk_s \notin {b.hk_s, b.hk_r}
    BY <1>3, <1>4, <1>6
  <2>4. a.rk # b.rk
    BY <1>3, <1>4, <1>5
  <2> QED BY <1>1, <1>4, <2>1, <2>2, <2>3, <2>4 DEF Turn, a, b
<1>10. StoresOK /\ ReceivedOK
  <2>1. \A q \in Party : state[q].mkskipped = EmptyStore /\ state[q].received_messages = {}
    BY <1>1, <1>3, <1>4 DEF a, b
  <2> QED BY <2>1 DEF StoresOK, SkippedKeysGenuine, ReceivedOK, EmptyStore
<1>11. IdsUnique /\ IInv
  BY <1>2, InitOK DEF IdsUnique
<1> QED BY <1>1, <1>2, <1>8, <1>9, <1>10, <1>11 DEF AInv

(***************************************************************************)
(* The invariant holds in every state that the two parties can reach.      *)
(***************************************************************************)
THEOREM Agreement == NoneIsNoKey => (Spec => []AInv)
<1>1. NoneIsNoKey /\ Init => AInv
  BY InitAgrees
<1>2. NoneIsNoKey /\ AInv /\ [Next]_vars => AInv'
  BY NextAgrees
<1> SUFFICES ASSUME NoneIsNoKey PROVE Spec => []AInv
  OBVIOUS
<1>3. Init => AInv
  BY <1>1
<1>4. AInv /\ [Next]_vars => AInv'
  BY <1>2
<1> QED BY <1>3, <1>4, PTL DEF Spec

-----------------------------------------------------------------------------
(* The properties of Session that follow.                                  *)

(***************************************************************************)
(* The sessions stay in step: the root keys, header keys, chains and       *)
(* message numbers of the two ends agree, whatever is lost, reordered,     *)
(* repeated or refused, and wherever a call fails halfway.                 *)
(***************************************************************************)
THEOREM StaysInStep == NoneIsNoKey => (Spec => []InStep)
<1>1. AInv => InStep
  BY DEF AInv, Turn, InStep
<1> QED BY <1>1, Agreement, PTL

(***************************************************************************)
(* encrypt_aead derives its IV from the message key alone; no message key  *)
(* is used for two messages, of either party.                              *)
(***************************************************************************)
THEOREM KeysNeverRepeat == NoneIsNoKey => (Spec => []MessageKeysUnique)
<1>1. AInv => MessageKeysUnique
  BY DEF AInv, IdsUnique, MessageKeysUnique
<1> QED BY <1>1, Agreement, PTL

(***************************************************************************)
(* try_skipped_message_keys never finds another message's key.             *)
(***************************************************************************)
THEOREM StoredKeysFit == NoneIsNoKey => (Spec => []SkippedKeysGenuine)
<1>1. AInv => SkippedKeysGenuine
  BY DEF AInv, StoresOK
<1> QED BY <1>1, Agreement, PTL

(***************************************************************************)
(* decrypt refuses a party's own messages at the header, whatever stored   *)
(* keys, ratchets and counters it has come to.                             *)
(***************************************************************************)
THEOREM OwnMessagesRefused == NoneIsNoKey => (Spec => []ReflectionRefused)
<1>1. AInv => ReflectionRefused
  <2> SUFFICES ASSUME AInv, NEW m \in Sent
               PROVE  DecryptError(state[Sender(m)], m, "none") = "HeaderDecryptionFailed"
    BY DEF ReflectionRefused
  <2> DEFINE p == Sender(m)
             s == state[p]
  <2>1. p \in Party
    BY DEF Sender, Party
  <2>2. p # Peer(p)
    BY <2>1, TwoParties
  <2>3. PICK l \in Party : /\ Turn(state, l)
                           /\ \A k \in Sent : PreviousOK(state, l, k)
    BY DEF AInv
  <2>4. ~SkippedKeyOpens(s, m, "none")
    <3>1. <<m.hk, m.n>> \notin DOMAIN s.mkskipped
      BY <2>1, <2>2 DEF AInv, StoresOK, SkippedKeysGenuine
    <3> QED BY <3>1 DEF SkippedKeyOpens
  <2>5. m.hk # s.hk_r
    BY <2>1, <2>2, <2>3, ReceivingChain
  <2>6. m.hk # s.nhk_r
    <3>1. MessageOK(state, m)
      BY DEF AInv
    <3>2. CASE p = l
      BY <2>3, <3>1, <3>2, TwoParties DEF Turn, Leads, MessageOK
    <3>3. CASE p # l
      <4>1. l = Peer(p) /\ Peer(l) = p
        BY <2>1, <3>3, TwoParties
      <4>2. s.nhk_r = state[l].hk_s
        BY <2>3, <4>1 DEF Turn, Leads
      <4>3. m.hk = state[l].hk_s => Sender(m) = l
        BY <3>1 DEF MessageOK, Current, SentOn
      <4> QED BY <3>3, <4>2, <4>3
    <3> QED BY <3>2, <3>3
  <2>7. ~HeaderOpens(s, m, "none")
    BY <2>5, <2>6 DEF HeaderOpens, HeaderDecrypts
  <2> HIDE DEF s, p
  <2>8. DecryptError(s, m, "none") = "HeaderDecryptionFailed"
    BY <2>4, <2>7 DEF DecryptError
  <2> QED BY <2>8 DEF s, p
<1> QED BY <1>1, Agreement, PTL

(***************************************************************************)
(* DuplicateMessage is never said of a message that was not decrypted.     *)
(***************************************************************************)
THEOREM NoFalseDuplicates == NoneIsNoKey => (Spec => []DuplicatesWereHanded)
<1>1. AInv => DuplicatesWereHanded
  <2> SUFFICES ASSUME AInv, NEW m \in Sent,
                      DecryptError(state[Peer(Sender(m))], m, "none") = "DuplicateMessage"
               PROVE  handed[m] > 0
    BY DEF DuplicatesWereHanded
  <2> DEFINE p == Peer(Sender(m))
  <2>1. p \in Party
    BY TwoParties DEF Sender, Party
  <2>2. MessageId(m) \in state[p].received_messages
    BY ErrorAssumption DEF DecryptError, Errors
  <2>3. PICK k \in Sent : MessageId(k) = MessageId(m) /\ handed[k] > 0
    BY <2>1, <2>2 DEF AInv, ReceivedOK
  <2>4. k = m
    BY <2>3 DEF AInv, IdsUnique
  <2> QED BY <2>3, <2>4
<1> QED BY <1>1, Agreement, PTL

(***************************************************************************)
(* What one DH ratchet does to the two sessions.                           *)
(***************************************************************************)
LEMMA RatchetTurns ==
    ASSUME NoneIsNoKey, AInv, NEW p \in Party, NEW m \in Sent, NEW c,
           Admitted(state[p], m), DhRatchetNeeded(state[p], m),
           AfterCommit(c, Committed(state[p], m, FreshKey(p)), m),
           state' = [state EXCEPT ![p] = c]
    PROVE  /\ Leads(state[Peer(p)], state[p])
           /\ Leads(state'[p], state'[Peer(p)])
           /\ state'[Peer(p)] = state[Peer(p)]
<1>1. PICK l \in Party : Turn(state, l)
  BY DEF AInv
<1> DEFINE a == state[l]
           b == state[p]
           next == Committed(b, m, FreshKey(p))
<1>2. p = Peer(l) /\ l = Peer(p) /\ l # p /\ SentOn(m, l, a)
  BY <1>1, RatchetIsTheOthers, TwoParties
<1>3. /\ SessionTypeOK(b) /\ a.ns \in Nat /\ a.ns > 0
      /\ m.dh_pub = a.dh_pair /\ Leads(a, b) /\ a.nr <= b.ns
  BY <1>1, <1>2, LimitAssumption
     DEF AInv, IInv, TypeOK, SessionTypeOK, PacketTypeOK, SentOn, Turn, Leads
<1>4. TakesTheLead(a, b, next, FreshKey(p))
  BY <1>3, CommittedTakesTheLead DEF SessionTypeOK
<1>5. a.ck_s[1] = a.rk
  <2>1. a.ck_s # None /\ OwnKeysOK(state, l)
    BY <1>3 DEF Leads, AInv, KeysOK
  <2>2. a.ck_s = <<a.rk, a.ck_s[2]>>
    BY <2>1 DEF OwnKeysOK
  <2> HIDE DEF a
  <2> QED BY <2>2
<1> HIDE DEF next
<1>6. TakesTheLead(a, b, c, FreshKey(p))
  <2>1. \A f \in SessionFields \ {"received_messages"} : c[f] = next[f]
    BY DEF AfterCommit, next
  <2> HIDE DEF a, b
  <2> QED BY <2>1, <1>4 DEF TakesTheLead, SessionFields
<1>7. Leads(c, a)
  BY <1>3, <1>5, <1>6, NewLeader
<1>8. state'[p] = c /\ state'[l] = a
  BY <1>2 DEF AInv, IInv, TypeOK
<1> QED BY <1>2, <1>3, <1>7, <1>8

(***************************************************************************)
(* A commit without a DH ratchet, and every other step, keeps the root     *)
(* keys.                                                                   *)
(***************************************************************************)
LEMMA CommitTurns ==
    ASSUME NoneIsNoKey, AInv, NEW p \in Party, NEW m \in Sent, NEW c, Authentic(p, m),
           AfterCommit(c, Committed(state[p], m, FreshKey(p)), m),
           state' = [state EXCEPT ![p] = c],
           NEW q \in Party, state'[q].rk # state[q].rk
    PROVE  /\ Leads(state[Peer(q)], state[q])
           /\ Leads(state'[q], state'[Peer(q)])
           /\ state'[Peer(q)] = state[Peer(q)]
<1>1. Admitted(state[p], m)
  BY DEF Authentic, Admitted
<1>2. q = p /\ c.rk # state[p].rk
  BY DEF AInv, IInv, TypeOK
<1>3. DhRatchetNeeded(state[p], m)
  <2> SUFFICES ASSUME ~DhRatchetNeeded(state[p], m) PROVE FALSE
    OBVIOUS
  <2> DEFINE next == Committed(state[p], m, FreshKey(p))
  <2>1. SessionTypeOK(state[p])
    BY DEF AInv, IInv, TypeOK
  <2>2. \A f \in SessionFields \ {"ck_r", "nr", "mkskipped"} : next[f] = state[p][f]
    BY <2>1, CommittedOnChain DEF SessionTypeOK
  <2>3. \A f \in SessionFields \ {"received_messages"} : c[f] = next[f]
    BY DEF AfterCommit
  <2> HIDE DEF next
  <2> QED BY <2>2, <2>3, <1>2 DEF SessionFields
<1> QED BY <1>1, <1>2, <1>3, RatchetTurns

(***************************************************************************)
(* Only the party that does not lead can move its root key, and it leads   *)
(* from then on: a late or repeated header never ratchets twice.           *)
(***************************************************************************)
THEOREM TurnsAreTaken == NoneIsNoKey => (Spec => RatchetsTakeTurns)
<1> SUFFICES ASSUME NoneIsNoKey PROVE Spec => RatchetsTakeTurns
  OBVIOUS
<1>1. ASSUME AInv, [Next]_vars, NEW q \in Party, state'[q].rk # state[q].rk
      PROVE  /\ Leads(state[Peer(q)], state[q])
             /\ Leads(state'[q], state'[Peer(q)])
             /\ state'[Peer(q)] = state[Peer(q)]
  <2>1. ASSUME NEW p \in Party, NEW c, c.rk = state[p].rk,
               state' = [state EXCEPT ![p] = c]
        PROVE  FALSE
    BY <1>1, <2>1 DEF AInv, IInv, TypeOK
  <2>2. ASSUME NEW p \in Party
        PROVE  LET s == state[p]
               IN  \A c \in {AfterEncrypt(s), Numbered(s), ChainAdvanced(s)} : c.rk = s.rk
    BY <1>1, EncryptFields DEF AInv, IInv, TypeOK, SessionTypeOK, SessionFields
  <2>3. ASSUME NEW p \in Party, NEW m
        PROVE  /\ WithoutSkippedKey(state[p], m).rk = state[p].rk
               /\ SkippedKeysLost(state[p]).rk = state[p].rk
    BY <1>1, StoreShrinksSteps
       DEF AInv, IInv, TypeOK, SessionTypeOK, StoreShrinks, SessionFields
  <2>4. ASSUME NEW p \in Party, NEW m \in Sent, Authentic(p, m),
               ~PreviousChainRefused(state[p], m)
        PROVE  LET next == Committed(state[p], m, FreshKey(p))
               IN  /\ AfterCommit(next, next, m)
                   /\ handed'[m] > 0 => AfterCommit(Tracked(next, m), next, m)
    <3>1. Admitted(state[p], m)
      BY <2>4 DEF Authentic, Admitted
    <3>2. SessionTypeOK(Committed(state[p], m, FreshKey(p)))
      BY <1>1, <2>4, <3>1, CommittedKeeps DEF AInv, IInv, TypeOK
    <3> QED BY <3>2, CommitOrTracked
  <2>5. ASSUME NEW p \in Party, NEW m \in Sent, DecryptTooMany(p, m, FreshKey(p))
        PROVE  /\ Leads(state[Peer(q)], state[q])
               /\ Leads(state'[q], state'[Peer(q)])
               /\ state'[Peer(q)] = state[Peer(q)]
    <3> DEFINE next == Committed(state[p], m, FreshKey(p))
    <3>1. /\ Authentic(p, m) /\ ~PreviousChainRefused(state[p], m)
          /\ state' = [state EXCEPT ![p] = next]
      BY <2>5 DEF DecryptTooMany
    <3>2. AfterCommit(next, next, m)
      BY <2>4, <3>1
    <3> HIDE DEF next
    <3> QED BY <1>1, <3>1, <3>2, CommitTurns DEF next
  <2>6. ASSUME NEW p \in Party, NEW m \in Sent, DecryptOnChain(p, m, FreshKey(p))
        PROVE  /\ Leads(state[Peer(q)], state[q])
               /\ Leads(state'[q], state'[Peer(q)])
               /\ state'[Peer(q)] = state[Peer(q)]
    <3> DEFINE next == Committed(state[p], m, FreshKey(p))
               c == Tracked(next, m)
    <3>1. /\ Authentic(p, m) /\ ~PreviousChainRefused(state[p], m)
          /\ state' = [state EXCEPT ![p] = c] /\ Hand(m)
      BY <2>6 DEF DecryptOnChain
    <3>2. handed'[m] > 0
      BY <1>1, <3>1, HandCounts DEF AInv
    <3>3. AfterCommit(c, next, m)
      BY <2>4, <3>1, <3>2
    <3> HIDE DEF c
    <3> QED BY <1>1, <3>1, <3>3, CommitTurns
  <2>7. ASSUME NEW p \in Party, Encrypt(p) PROVE FALSE
    BY <2>1, <2>2, <2>7 DEF Encrypt
  <2>8. ASSUME NEW p \in Party, EncryptNumberOverflow(p) PROVE FALSE
    BY <2>1, <2>2, <2>8 DEF EncryptNumberOverflow
  <2>9. ASSUME NEW p \in Party, EncryptNonceOverflow(p) PROVE FALSE
    BY <2>1, <2>2, <2>9 DEF EncryptNonceOverflow
  <2>10. ASSUME NEW p \in Party, NEW m \in Sent, DecryptWithSkippedKey(p, m) PROVE FALSE
    BY <2>1, <2>3, <2>10 DEF DecryptWithSkippedKey
  <2>11. ASSUME NEW p \in Party, NEW m \in Sent, DecryptLosesSkippedKeys(p, m) PROVE FALSE
    BY <2>1, <2>3, <2>11 DEF DecryptLosesSkippedKeys
  <2>12. state' # state
    BY <1>1
  <2> QED BY <1>1, <2>5, <2>6, <2>7, <2>8, <2>9, <2>10, <2>11, <2>12
             DEF Next, Decrypt, EncryptRefused, DecryptRefused, vars
<1>2. AInv /\ [Next]_vars => [\A p \in Party :
          state'[p].rk # state[p].rk =>
              /\ Leads(state[Peer(p)], state[p])
              /\ Leads(state[p], state[Peer(p)])'
              /\ state'[Peer(p)] = state[Peer(p)]]_vars
  BY <1>1
<1>3. Spec => []AInv
  BY Agreement
<1> QED BY <1>2, <1>3, PTL DEF Spec, RatchetsTakeTurns

-----------------------------------------------------------------------------
(* Within the limits.                                                      *)

(***************************************************************************)
(* The hypothesis of NothingStranded: no party sends as much as would      *)
(* exhaust a limit of the other one or a counter of its own.  With the     *)
(* code's constants it says that neither sends more than 1000 messages.    *)
(***************************************************************************)
WithinLimits ==
    \A p \in Party : /\ MaxSends[p] <= MaxSkip
                     /\ MaxSends[p] < MaxSkippedKeys
                     /\ MaxSends[p] < MaxReceived
                     /\ MaxSends[p] + MaxSkip < MaxCounter
                     /\ MaxSends[p] < MaxNonce

(***************************************************************************)
(* The counters of the sessions and of the messages on the network are     *)
(* bounded by what their sender may send.                                  *)
(***************************************************************************)
NumbersMatchSent ==
    /\ \A p \in Party : /\ state[p].header_nonce_counter <= MaxSends[p]
                        /\ state[p].ns <= state[p].header_nonce_counter
                        /\ state[p].pn <= state[p].header_nonce_counter
    /\ \A m \in Sent : m.n < MaxSends[Sender(m)]

(***************************************************************************)
(* The names under which the messages of a party may be stored.  A chain   *)
(* has no holes: every number below one that was used was used.            *)
(***************************************************************************)
SentKeys(p) == {<<m.hk, m.n>> : m \in SentBy(p)}

NoHoles(keys, hk, n) == \A i \in 0 .. n - 1 : <<hk, i>> \in keys

ChainsWhole ==
    /\ \A m \in Sent : NoHoles(SentKeys(Sender(m)), m.hk, m.n)
    /\ \A p \in Party : NoHoles(SentKeys(p), state[p].hk_s, state[p].ns)

PreviousWhole ==
    \A p \in Party :
        LET s == state[p]
            o == state[Peer(p)]
        IN  s.ck_r # None /\ s.hk_r # o.hk_s => NoHoles(SentKeys(Peer(p)), s.hk_r, o.pn)

(***************************************************************************)
(* What a party keeps of the messages it receives are those of the other   *)
(* one, so that neither the store nor the list of ids can outgrow what     *)
(* that one has sent.                                                      *)
(***************************************************************************)
KeptOK ==
    \A p \in Party :
        /\ DOMAIN state[p].mkskipped \subseteq SentKeys(Peer(p))
        /\ state[p].received_messages \subseteq {MessageId(m) : m \in SentBy(Peer(p))}

(***************************************************************************)
(* A message that was not decrypted has its key in the store, or lies      *)
(* ahead on the receiving chain, or announces a DH ratchet.                *)
(***************************************************************************)
Awaited(s, m) ==
    \/ <<m.hk, m.n>> \in DOMAIN s.mkskipped
    \/ m.hk = s.hk_r /\ s.nr <= m.n
    \/ m.hk = s.nhk_r

AllAwaited == \A m \in Sent : handed[m] = 0 => Awaited(state[Peer(Sender(m))], m)

(***************************************************************************)
(* The inductive invariant.                                                *)
(***************************************************************************)
LInv ==
    /\ AInv
    /\ NumbersMatchSent
    /\ ChainsWhole
    /\ PreviousWhole
    /\ KeptOK
    /\ AllAwaited

-----------------------------------------------------------------------------
(* What the limits leave room for.                                         *)

(***************************************************************************)
(* Everything a party may store or track of the other one's messages fits. *)
(***************************************************************************)
LEMMA SentFits ==
    ASSUME WithinLimits, IInv, NumbersMatchSent, NEW p \in Party
    PROVE  /\ IsFiniteSet(SentKeys(p))
           /\ Cardinality(SentKeys(p)) < MaxSkippedKeys
           /\ \A ids \in SUBSET {MessageId(m) : m \in SentBy(p)} :
                 ~(Cardinality(ids) >= MaxReceived)
<1> DEFINE keys == [m \in SentBy(p) |-> <<m.hk, m.n>>]
           names == [m \in SentBy(p) |-> MessageId(m)]
           all == {MessageId(m) : m \in SentBy(p)}
<1>1. /\ IsFiniteSet(SentBy(p)) /\ Cardinality(SentBy(p)) \in Nat
      /\ Cardinality(SentBy(p)) <= MaxSends[p]
  BY FS_CardinalityType DEF IInv, NoncesOK, NumbersMatchSent
<1>2. /\ MaxSends[p] \in Nat
      /\ MaxSends[p] < MaxSkippedKeys /\ MaxSends[p] < MaxReceived
      /\ MaxSkippedKeys \in Nat /\ MaxReceived \in Nat
  BY PartyAssumption, SkipAssumption, LimitAssumption DEF WithinLimits, Party
<1>3. keys \in Surjection(SentBy(p), SentKeys(p)) /\ names \in Surjection(SentBy(p), all)
  BY DEF Surjection, SentKeys
<1> HIDE DEF keys, names, all
<1>4. /\ IsFiniteSet(SentKeys(p))
      /\ Cardinality(SentKeys(p)) <= Cardinality(SentBy(p))
      /\ IsFiniteSet(all) /\ Cardinality(all) <= Cardinality(SentBy(p))
  BY <1>1, <1>3, FS_Surjection
<1>5. Cardinality(SentKeys(p)) \in Nat /\ Cardinality(all) \in Nat
  BY <1>4, FS_CardinalityType
<1>6. ASSUME NEW ids \in SUBSET all PROVE ~(Cardinality(ids) >= MaxReceived)
  <2>1. Cardinality(ids) \in Nat /\ Cardinality(ids) <= Cardinality(all)
    BY <1>4, FS_Subset, FS_CardinalityType
  <2> QED BY <2>1, <1>1, <1>2, <1>4, <1>5
<1> QED BY <1>1, <1>2, <1>4, <1>5, <1>6 DEF all

(***************************************************************************)
(* No counter of a sender overflows.                                       *)
(***************************************************************************)
LEMMA NothingOverflows ==
    ASSUME WithinLimits, IInv, NumbersMatchSent, NEW p \in Party
    PROVE  ~NumberOverflows(state[p]) /\ ~NonceOverflows(state[p])
<1>1. /\ state[p].ns \in Nat /\ state[p].header_nonce_counter \in Nat
      /\ state[p].ns <= state[p].header_nonce_counter
      /\ state[p].header_nonce_counter <= MaxSends[p]
  BY LimitAssumption DEF IInv, TypeOK, SessionTypeOK, NumbersMatchSent
<1>2. /\ MaxSends[p] \in Nat /\ MaxSkip \in Nat
      /\ MaxSends[p] + MaxSkip < MaxCounter /\ MaxSends[p] < MaxNonce
  BY PartyAssumption, SkipAssumption DEF WithinLimits, Party
<1> QED BY <1>1, <1>2, LimitAssumption DEF NumberOverflows, NonceOverflows

(***************************************************************************)
(* skip_message_keys adds the names of the skipped messages to those in    *)
(* the store, and nothing is evicted.                                      *)
(***************************************************************************)
LEMMA SkipAddsNames ==
    ASSUME WithinLimits, IInv, NumbersMatchSent, NEW p \in Party,
           NEW store, DOMAIN store \subseteq SentKeys(p),
           NEW ck, NEW hk, NEW from \in Nat, NEW to \in Nat, NoHoles(SentKeys(p), hk, to)
    PROVE  LET new == SkipMessageKeys(store, ck, hk, from, to)
           IN  /\ DOMAIN store \subseteq DOMAIN new
               /\ \A i \in from .. to - 1 : <<hk, i>> \in DOMAIN new
               /\ DOMAIN new \subseteq SentKeys(p)
<1>1. {hk} \X (from .. to - 1) \subseteq SentKeys(p)
  BY DEF NoHoles
<1>2. IsFiniteSet(SentKeys(p)) /\ Cardinality(SentKeys(p)) < MaxSkippedKeys
  BY SentFits
<1>3. HasNames(SkipMessageKeys(store, ck, hk, from, to), store, hk, from, to)
  <2>1. DOMAIN store \cup ({hk} \X (from .. to - 1)) \in SUBSET SentKeys(p)
    BY <1>1
  <2> QED BY <1>2, <2>1, NothingEvicted
<1>4. \A i \in from .. to - 1 : <<hk, i>> \in {hk} \X (from .. to - 1)
  OBVIOUS
<1> QED BY <1>1, <1>3, <1>4 DEF HasNames

-----------------------------------------------------------------------------
(* The steps within the limits.                                            *)

(***************************************************************************)
(* A successful encrypt: the new message continues its chain without a     *)
(* hole, and the other party awaits it on the chain it receives on or as   *)
(* the announcement of a DH ratchet.                                       *)
(***************************************************************************)
LEMMA EncryptWithinLimits ==
    ASSUME WithinLimits, NoneIsNoKey, LInv, AInv', NEW p \in Party, Encrypt(p)
    PROVE  LInv'
<1> DEFINE s == state[p]
           c == AfterEncrypt(s)
           new == Packet(s)
<1>1. /\ state' = [state EXCEPT ![p] = c]
      /\ handed' = [m \in Sent \cup {new} |-> IF m \in Sent THEN handed[m] ELSE 0]
      /\ Cardinality(SentBy(p)) < MaxSends[p]
  BY DEF Encrypt, MaySend
<1>2. /\ SessionTypeOK(s) /\ s.is_sender = (p = Alice)
      /\ s.header_nonce_counter \in Nat /\ s.ns \in Nat
      /\ Cardinality(SentBy(p)) = s.header_nonce_counter
  BY LimitAssumption DEF LInv, AInv, IInv, TypeOK, SessionTypeOK, NoncesOK
<1>3. /\ c.ns = s.ns + 1 /\ c.header_nonce_counter = s.header_nonce_counter + 1
      /\ \A f \in SessionFields \ {"ck_s", "ns", "header_nonce_counter"} : c[f] = s[f]
  BY <1>2 DEF AfterEncrypt, Numbered, ChainAdvanced, KdfCk, SessionTypeOK, SessionFields
<1>4. /\ c.pn = s.pn /\ c.hk_s = s.hk_s /\ c.hk_r = s.hk_r /\ c.nhk_r = s.nhk_r
      /\ c.ck_r = s.ck_r /\ c.nr = s.nr /\ c.mkskipped = s.mkskipped
      /\ c.received_messages = s.received_messages
  BY <1>3 DEF SessionFields
<1>5. new.hk = s.hk_s /\ new.n = s.ns /\ new.nonce.is_sender = (p = Alice)
  BY <1>2, Zenon DEF Packet, HeaderNonce
<1>6. Sender(new) = p
  BY <1>5, PartyAssumption, Zenon DEF Sender, Party
<1>7. /\ \A q \in Party : state'[q] = IF q = p THEN c ELSE state[q]
      /\ Sent' = Sent \cup {new}
      /\ \A m \in Sent : handed'[m] = handed[m]
  BY <1>1 DEF LInv, AInv, IInv, TypeOK, Sent
<1> HIDE DEF s, c, new
<1>8. \A q \in Party : /\ SentBy(q)' = IF q = p THEN SentBy(q) \cup {new} ELSE SentBy(q)
                       /\ SentKeys(q) \subseteq SentKeys(q)'
                       /\ SentBy(q) \subseteq SentBy(q)'
  BY <1>6, <1>7 DEF SentBy, SentKeys, Sender
<1>9. <<s.hk_s, s.ns>> \in SentKeys(p)'
  BY <1>5, <1>8 DEF SentKeys
<1>10. \A q \in Party : \A hk, n : NoHoles(SentKeys(q), hk, n) => NoHoles(SentKeys(q)', hk, n)
  BY <1>8 DEF NoHoles
<1>11. NumbersMatchSent'
  <2>1. /\ s.ns <= s.header_nonce_counter /\ s.pn <= s.header_nonce_counter
        /\ s.pn \in Nat /\ MaxSends[p] \in Nat
    BY <1>2, LimitAssumption, PartyAssumption
       DEF LInv, NumbersMatchSent, SessionTypeOK, Party, s
  <2>2. /\ c.header_nonce_counter <= MaxSends[p]
        /\ c.ns <= c.header_nonce_counter /\ c.pn <= c.header_nonce_counter
        /\ s.ns < MaxSends[p]
    BY <2>1, <1>1, <1>2, <1>3, <1>4
  <2>3. \A m \in Sent' : m.n < MaxSends[Sender(m)]
    BY <2>2, <1>5, <1>6, <1>7 DEF LInv, NumbersMatchSent
  <2>4. \A q \in Party : /\ state'[q].header_nonce_counter <= MaxSends[q]
                         /\ state'[q].ns <= state'[q].header_nonce_counter
                         /\ state'[q].pn <= state'[q].header_nonce_counter
    BY <2>2, <1>7 DEF LInv, NumbersMatchSent
  <2> QED BY <2>3, <2>4 DEF NumbersMatchSent, Sender
<1>12. ChainsWhole'
  <2>1. NoHoles(SentKeys(p)', s.hk_s, s.ns)
    BY <1>10 DEF LInv, ChainsWhole, s
  <2>2. NoHoles(SentKeys(p)', s.hk_s, s.ns + 1)
    BY <2>1, <1>2, <1>9 DEF NoHoles
  <2>3. \A m \in Sent' : NoHoles(SentKeys(Sender(m))', m.hk, m.n)
    <3>1. ASSUME NEW m \in Sent PROVE NoHoles(SentKeys(Sender(m))', m.hk, m.n)
      <4>1. Sender(m) \in Party
        BY DEF Sender, Party
      <4> QED BY <4>1, <1>10 DEF LInv, ChainsWhole, Sender
    <3>2. NoHoles(SentKeys(p)', new.hk, new.n)
      BY <2>1, <1>5, <1>6
    <3> QED BY <3>1, <3>2, <1>6, <1>7
  <2>4. \A q \in Party : NoHoles(SentKeys(q)', state'[q].hk_s, state'[q].ns)
    <3> SUFFICES ASSUME NEW q \in Party PROVE NoHoles(SentKeys(q)', state'[q].hk_s, state'[q].ns)
      OBVIOUS
    <3>1. CASE q = p
      BY <3>1, <2>2, <1>3, <1>4, <1>7
    <3>2. CASE q # p
      BY <3>2, <1>7, <1>10 DEF LInv, ChainsWhole
    <3> QED BY <3>1, <3>2
  <2> QED BY <2>3, <2>4 DEF ChainsWhole
<1>13. \A q \in Party : /\ state'[q].hk_s = state[q].hk_s /\ state'[q].hk_r = state[q].hk_r
                        /\ state'[q].ck_r = state[q].ck_r /\ state'[q].pn = state[q].pn
                        /\ state'[q].nhk_r = state[q].nhk_r /\ state'[q].nr = state[q].nr
                        /\ state'[q].mkskipped = state[q].mkskipped
                        /\ state'[q].received_messages = state[q].received_messages
  BY <1>4, <1>7 DEF s
<1>14. PreviousWhole'
  <2> SUFFICES ASSUME NEW q \in Party,
                      state[q].ck_r # None, state[q].hk_r # state[Peer(q)].hk_s
               PROVE  NoHoles(SentKeys(Peer(q))', state[q].hk_r, state[Peer(q)].pn)
    BY <1>13, TwoParties DEF PreviousWhole
  <2>1. NoHoles(SentKeys(Peer(q)), state[q].hk_r, state[Peer(q)].pn)
    BY DEF LInv, PreviousWhole
  <2> QED BY <2>1, <1>10, TwoParties
<1>15. KeptOK'
  BY <1>8, <1>13, TwoParties DEF LInv, KeptOK
<1>16. AllAwaited'
  <2>1. ASSUME NEW m \in Sent, handed[m] = 0
        PROVE  Awaited(state'[Peer(Sender(m))], m)
    <3>1. Peer(Sender(m)) \in Party
      BY TwoParties DEF Sender, Party
    <3>2. Awaited(state[Peer(Sender(m))], m)
      BY <2>1 DEF LInv, AllAwaited
    <3> QED BY <3>1, <3>2, <1>13 DEF Awaited
  <2>2. Awaited(state'[Peer(p)], new)
    <3>1. PICK l \in Party : Turn(state, l)
      BY DEF LInv, AInv
    <3>2. CASE p = l
      BY <3>1, <3>2, <1>5, <1>13, TwoParties DEF Turn, Leads, Awaited, s
    <3>3. CASE p # l
      <4>1. l = Peer(p) /\ Peer(l) = p
        BY <3>3, TwoParties
      <4>2. state[l].hk_r = s.hk_s /\ state[l].nr <= s.ns
        BY <3>1, <4>1 DEF Turn, Leads, s
      <4> QED BY <4>1, <4>2, <1>5, <1>13 DEF Awaited
    <3> QED BY <3>2, <3>3
  <2> QED BY <2>1, <2>2, <1>6, <1>7 DEF AllAwaited, Sender
<1> QED BY <1>11, <1>12, <1>14, <1>15, <1>16 DEF LInv

(***************************************************************************)
(* A step that sends nothing leaves the names of what was sent.            *)
(***************************************************************************)
LEMMA SameSent ==
    ASSUME Sent' = Sent
    PROVE  \A q : SentBy(q)' = SentBy(q) /\ SentKeys(q)' = SentKeys(q)
BY DEF SentBy, SentKeys, Sender

(***************************************************************************)
(* A step of p that sends nothing leaves the nonce counters.               *)
(***************************************************************************)
LEMMA SameCounters ==
    ASSUME IInv, IInv', Sent' = Sent
    PROVE  \A q \in Party : state'[q].header_nonce_counter = state[q].header_nonce_counter
BY SameSent DEF IInv, NoncesOK

(***************************************************************************)
(* A chain has one message of each number.                                 *)
(***************************************************************************)
LEMMA OneOfEachNumber ==
    ASSUME AInv, NEW k \in Sent, NEW m \in Sent, k.mk[2] = m.mk[2], k.n = m.n
    PROVE  k = m
<1>1. k.mk = <<"mk", k.mk[2], k.n>> /\ m.mk = <<"mk", m.mk[2], m.n>>
  BY DEF AInv, MessageOK
<1>2. k.mk = m.mk
  BY <1>1
<1> QED BY <1>2 DEF AInv, IdsUnique

(***************************************************************************)
(* A stored key is used: no other message was waiting for it.              *)
(***************************************************************************)
LEMMA SkippedKeyWithinLimits ==
    ASSUME WithinLimits, LInv, AInv',
           NEW p \in Party, NEW m \in Sent, DecryptWithSkippedKey(p, m)
    PROVE  LInv'
<1> DEFINE s == state[p]
           c == WithoutSkippedKey(s, m)
<1>1. /\ state' = [state EXCEPT ![p] = c] /\ Hand(m)
      /\ SkippedKeyOpens(s, m, "none")
  BY DEF DecryptWithSkippedKey
<1>2. /\ Sent' = Sent /\ handed'[m] > 0 /\ \A k \in Sent : k # m => handed'[k] = handed[k]
  <2>1. Sent' = Sent /\ handed'[m] > 0
    BY <1>1, HandCounts DEF LInv, AInv
  <2>2. \A k \in Sent : k # m => handed'[k] = handed[k]
    BY <1>1 DEF Hand, Sent
  <2> QED BY <2>1, <2>2
<1>3. /\ \A q \in Party : state'[q] = IF q = p THEN c ELSE state[q]
      /\ SessionTypeOK(s)
  BY <1>1 DEF LInv, AInv, IInv, TypeOK
<1>4. DOMAIN c.mkskipped = DOMAIN s.mkskipped \ {<<m.hk, m.n>>}
  BY <1>3 DEF WithoutSkippedKey, Restrict, SessionTypeOK, SessionFields
<1>5. \A f \in SessionFields \ {"mkskipped"} : c[f] = s[f]
  BY <1>3, StoreShrinksSteps DEF StoreShrinks, SessionTypeOK
<1> HIDE DEF c
<1>6. \A q \in Party : /\ state'[q].ns = state[q].ns /\ state'[q].pn = state[q].pn
                       /\ state'[q].hk_s = state[q].hk_s /\ state'[q].hk_r = state[q].hk_r
                       /\ state'[q].ck_r = state[q].ck_r /\ state'[q].nr = state[q].nr
                       /\ state'[q].nhk_r = state[q].nhk_r
                       /\ state'[q].received_messages = state[q].received_messages
                       /\ DOMAIN state'[q].mkskipped \subseteq DOMAIN state[q].mkskipped
  BY <1>3, <1>4, <1>5 DEF SessionFields
<1>7. NumbersMatchSent'
  BY <1>2, <1>6, SameCounters DEF LInv, AInv, NumbersMatchSent, Sender
<1>8. ChainsWhole'
  BY <1>2, <1>6, SameSent DEF LInv, ChainsWhole
<1>9. PreviousWhole'
  BY <1>2, <1>6, SameSent, TwoParties DEF LInv, PreviousWhole
<1>10. KeptOK'
  BY <1>2, <1>6, SameSent DEF LInv, KeptOK
<1>11. AllAwaited'
  <2> SUFFICES ASSUME NEW k \in Sent, k # m, handed[k] = 0
               PROVE  Awaited(state'[Peer(Sender(k))], k)
    BY <1>2 DEF AllAwaited, Sender
  <2> DEFINE q == Peer(Sender(k))
  <2>1. q \in Party /\ Awaited(state[q], k)
    BY TwoParties DEF LInv, AllAwaited, Sender, Party
  <2>2. q = p => <<k.hk, k.n>> # <<m.hk, m.n>>
    <3> SUFFICES ASSUME q = p, <<k.hk, k.n>> = <<m.hk, m.n>> PROVE FALSE
      OBVIOUS
    <3>1. s.mkskipped[<<m.hk, m.n>>].mk = k.mk /\ s.mkskipped[<<m.hk, m.n>>].mk = m.mk
      BY <1>1 DEF LInv, AInv, StoresOK, SkippedKeysGenuine, SkippedKeyOpens
    <3> QED BY <3>1 DEF LInv, AInv, IdsUnique
  <2> HIDE DEF q
  <2>3. <<k.hk, k.n>> \in DOMAIN state[q].mkskipped
           => <<k.hk, k.n>> \in DOMAIN state'[q].mkskipped
    BY <2>1, <2>2, <1>3, <1>4
  <2>4. Awaited(state'[q], k)
    BY <2>1, <2>3, <1>6 DEF Awaited
  <2> QED BY <2>4 DEF q
<1> QED BY <1>7, <1>8, <1>9, <1>10, <1>11 DEF LInv

(***************************************************************************)
(* A commit without a DH ratchet: the messages it passes over are awaited  *)
(* in the store from then on.                                              *)
(***************************************************************************)
LEMMA OnChainWithinLimits ==
    ASSUME WithinLimits, LInv, AInv',
           NEW p \in Party, NEW m \in Sent, NEW c, NEW fresh,
           Admitted(state[p], m), ~DhRatchetNeeded(state[p], m),
           AfterCommit(c, Committed(state[p], m, fresh), m),
           state' = [state EXCEPT ![p] = c], Hand(m)
    PROVE  LInv'
<1> DEFINE s == state[p]
<1>1. PICK l \in Party : /\ Turn(state, l)
                         /\ \A k \in Sent : PreviousOK(state, l, k)
  BY DEF LInv, AInv
<1>2. /\ SessionTypeOK(s) /\ SessionOK(s) /\ PacketTypeOK(m) /\ PacketOK(m)
      /\ s.nr \in Nat /\ m.n \in Nat /\ m.hk # None
  BY DEF LInv, AInv, IInv, TypeOK, SessionTypeOK, PacketTypeOK, PacketOK
<1>3. m.hk = s.hk_r /\ Sender(m) = Peer(p) /\ m.mk[2] = s.ck_r[1]
  BY <1>1, ReceivingChain DEF LInv, DhRatchetNeeded
<1>4. s.nr <= m.n
  BY <1>2, AdmittedInRange DEF ReceivingFrom, SkipAllowed
<1>5. /\ c.nr = s.nr + 1
      /\ c.ck_r # None => s.ck_r # None
      /\ c.mkskipped = SkipMessageKeys(s.mkskipped, s.ck_r, s.hk_r, s.nr, m.n)
      /\ c.ns = s.ns /\ c.pn = s.pn /\ c.hk_s = s.hk_s /\ c.hk_r = s.hk_r
      /\ c.nhk_r = s.nhk_r
      /\ \A id \in c.received_messages : id \in s.received_messages \/ id = MessageId(m)
  <2>1. s.ck_r # None
    BY <1>2, <1>3 DEF LInv, AInv, KeysOK, OwnKeysOK
  <2>2. SessionTypeOK(s) /\ ~DhRatchetNeeded(s, m)
        /\ AfterCommit(c, Committed(s, m, fresh), m)
    BY <1>2
  <2> HIDE DEF s
  <2> QED BY <2>1, <2>2, OnChainFields DEF SessionFields
<1>6. \A q \in Party : state'[q] = IF q = p THEN c ELSE state[q]
  BY DEF LInv, AInv, IInv, TypeOK
<1>7. /\ Sent' = Sent /\ handed'[m] > 0 /\ \A k \in Sent : k # m => handed'[k] = handed[k]
  <2>1. Sent' = Sent /\ handed'[m] > 0
    BY HandCounts DEF LInv, AInv
  <2>2. \A k \in Sent : k # m => handed'[k] = handed[k]
    BY DEF Hand, Sent
  <2> QED BY <2>1, <2>2
<1>8. /\ DOMAIN s.mkskipped \subseteq DOMAIN c.mkskipped
      /\ \A i \in s.nr .. m.n - 1 : <<m.hk, i>> \in DOMAIN c.mkskipped
      /\ DOMAIN c.mkskipped \subseteq SentKeys(Peer(p))
  <2>1. NoHoles(SentKeys(Peer(p)), s.hk_r, m.n)
    BY <1>3 DEF LInv, ChainsWhole
  <2>2. DOMAIN s.mkskipped \subseteq SentKeys(Peer(p)) /\ Peer(p) \in Party
    BY TwoParties DEF LInv, KeptOK
  <2> HIDE DEF s
  <2> QED BY <2>1, <2>2, <1>2, <1>3, <1>5, SkipAddsNames DEF LInv, AInv
<1>9. \A q \in Party : /\ state'[q].ns = state[q].ns /\ state'[q].pn = state[q].pn
                       /\ state'[q].hk_s = state[q].hk_s /\ state'[q].hk_r = state[q].hk_r
                       /\ state'[q].ck_r # None => state[q].ck_r # None
                       /\ state'[q].nhk_r = state[q].nhk_r
  BY <1>5, <1>6
<1>10. NumbersMatchSent'
  BY <1>7, <1>9, SameCounters DEF LInv, AInv, NumbersMatchSent, Sender
<1>11. ChainsWhole'
  BY <1>7, <1>9, SameSent DEF LInv, ChainsWhole
<1>12. PreviousWhole'
  BY <1>7, <1>9, SameSent, TwoParties DEF LInv, PreviousWhole
<1>13. KeptOK'
  <2> SUFFICES ASSUME NEW q \in Party
               PROVE  /\ DOMAIN state'[q].mkskipped \subseteq SentKeys(Peer(q))
                      /\ state'[q].received_messages
                            \subseteq {MessageId(k) : k \in SentBy(Peer(q))}
    BY <1>7, SameSent DEF KeptOK
  <2>1. CASE q = p
    <3>1. MessageId(m) \in {MessageId(k) : k \in SentBy(Peer(p))}
      BY <1>3 DEF SentBy
    <3> QED BY <2>1, <3>1, <1>5, <1>6, <1>8 DEF LInv, KeptOK
  <2>2. CASE q # p
    BY <2>2, <1>6 DEF LInv, KeptOK
  <2> QED BY <2>1, <2>2
<1>14. AllAwaited'
  <2> SUFFICES ASSUME NEW k \in Sent, k # m, handed[k] = 0
               PROVE  Awaited(state'[Peer(Sender(k))], k)
    BY <1>7 DEF AllAwaited, Sender
  <2> DEFINE q == Peer(Sender(k))
  <2>1. q \in Party /\ Awaited(state[q], k) /\ k.n \in Nat
    BY TwoParties DEF LInv, AllAwaited, Sender, Party, AInv, IInv, TypeOK, PacketTypeOK
  <2> HIDE DEF q
  <2>2. CASE q # p
    BY <2>1, <2>2, <1>6 DEF q
  <2>3. CASE q = p
    <3>1. state'[q] = c /\ Awaited(s, k)
      BY <2>1, <2>3, <1>6
    <3>2. CASE <<k.hk, k.n>> \in DOMAIN s.mkskipped
      BY <3>1, <3>2, <1>8 DEF Awaited, q
    <3>3. CASE k.hk = s.nhk_r
      BY <3>1, <3>3, <1>5 DEF Awaited, q
    <3>4. CASE k.hk = s.hk_r /\ s.nr <= k.n
      <4>1. k.n # m.n
        <5>1. k.mk[2] = m.mk[2]
          BY <3>4, <1>1, <1>3, ReceivingChain DEF LInv
        <5> QED BY <5>1, OneOfEachNumber DEF LInv
      <4>2. k.n >= s.nr + 1 \/ k.n \in s.nr .. m.n - 1
        BY <4>1, <3>4, <2>1, <1>2, <1>4
      <4>3. Awaited(c, k)
        BY <4>2, <3>4, <1>3, <1>5, <1>8 DEF Awaited
      <4> QED BY <4>3, <3>1 DEF q
    <3> QED BY <3>1, <3>2, <3>3, <3>4 DEF Awaited
  <2> QED BY <2>2, <2>3
<1> QED BY <1>10, <1>11, <1>12, <1>13, <1>14 DEF LInv

(***************************************************************************)
(* The leader's chain, on which a DH ratchet starts: its messages are all  *)
(* awaited by the other party, and the rest of the chain before it fits    *)
(* into one call of skip_message_keys.                                     *)
(***************************************************************************)
LEMMA LeadersChain ==
    ASSUME WithinLimits, LInv, NEW l \in Party, Turn(state, l),
           \A k \in Sent : PreviousOK(state, l, k),
           NEW p \in Party, p = Peer(l), NEW k \in Sent, k.hk = state[p].nhk_r
    PROVE  /\ SentOn(k, l, state[l])
           /\ DhRatchetNeeded(state[p], k)
           /\ ~PreviousChainRefused(state[p], k)
<1> DEFINE a == state[l]
           b == state[p]
<1>1. k.hk = a.hk_s /\ k.hk # b.hk_r /\ b.nr <= a.pn
  BY DEF Turn, Leads
<1>2. SentOn(k, l, a)
  BY <1>1 DEF LInv, AInv, MessageOK, Current
<1>3. SkipAllowed(b.nr, k.pn)
  <2>1. /\ a.pn \in Nat /\ b.nr \in Nat /\ a.header_nonce_counter \in Nat
        /\ a.pn <= a.header_nonce_counter /\ a.header_nonce_counter <= MaxSends[l]
        /\ k.pn = a.pn
    BY <1>2, LimitAssumption
       DEF LInv, NumbersMatchSent, AInv, IInv, TypeOK, SessionTypeOK, SentOn
  <2>2. MaxSends[l] <= MaxSkip /\ MaxSends[l] \in Nat /\ MaxSkip \in Nat
    BY PartyAssumption, SkipAssumption DEF WithinLimits, Party
  <2> HIDE DEF a, b
  <2> QED BY <1>1, <2>1, <2>2 DEF SkipAllowed
<1> QED BY <1>1, <1>2, <1>3 DEF DhRatchetNeeded, PreviousChainRefused

(***************************************************************************)
(* What a commit with a DH ratchet makes of the session of party p: the    *)
(* store holds the rest of the chain that ends, and what the message skips *)
(* of the new one.                                                         *)
(***************************************************************************)
LEMMA RatchetStoresAll ==
    ASSUME WithinLimits, LInv,
           NEW l \in Party, Turn(state, l), \A k \in Sent : PreviousOK(state, l, k),
           NEW p \in Party, NEW m \in Sent, NEW c, NEW fresh,
           Admitted(state[p], m), DhRatchetNeeded(state[p], m),
           AfterCommit(c, Committed(state[p], m, fresh), m)
    PROVE  LET b == state[p]
           IN  /\ TakesTheLead(state[l], b, c, fresh)
               /\ \A id \in c.received_messages : id = MessageId(m)
               /\ DOMAIN b.mkskipped \subseteq DOMAIN c.mkskipped
               /\ b.ck_r # None =>
                     \A i \in b.nr .. state[l].pn - 1 : <<b.hk_r, i>> \in DOMAIN c.mkskipped
               /\ \A i \in 0 .. m.n - 1 : <<m.hk, i>> \in DOMAIN c.mkskipped
               /\ DOMAIN c.mkskipped \subseteq SentKeys(l)
<1> DEFINE a == state[l]
           b == state[p]
           next == Committed(b, m, fresh)
           previous == PreviousChainStored(b, m)
           store == SkipMessageKeys(previous, <<a.rk, 0>>, b.nhk_r, 0, m.n)
<1>1. /\ p = Peer(l) /\ l = Peer(p) /\ m.hk = b.nhk_r /\ SentOn(m, l, a)
  BY RatchetIsTheOthers, TwoParties DEF LInv
<1>2. /\ SessionTypeOK(b) /\ b.nr \in Nat /\ a.pn \in Nat /\ m.n \in Nat
      /\ m.pn = a.pn /\ m.dh_pub = a.dh_pair /\ Leads(a, b) /\ Sender(m) = l
  BY <1>1, LimitAssumption
     DEF LInv, AInv, IInv, TypeOK, SessionTypeOK, PacketTypeOK, SentOn, Turn
<1>3. /\ TakesTheLead(a, b, next, fresh)
      /\ next.mkskipped = store
      /\ next.received_messages = {}
  BY <1>2, CommittedTakesTheLead DEF SessionTypeOK
<1> HIDE DEF next, store
<1>4. /\ TakesTheLead(a, b, c, fresh)
      /\ c.mkskipped = store
      /\ \A id \in c.received_messages : id = MessageId(m)
  <2>1. /\ \A f \in SessionFields \ {"received_messages"} : c[f] = next[f]
        /\ \A id \in c.received_messages :
              id \in next.received_messages \/ id = MessageId(m)
    BY DEF AfterCommit, next
  <2> HIDE DEF a, b
  <2>2. TakesTheLead(a, b, c, fresh) /\ c.mkskipped = next.mkskipped
    BY <2>1, <1>3 DEF TakesTheLead, SessionFields
  <2> QED BY <2>1, <2>2, <1>3
<1>5. DOMAIN b.mkskipped \subseteq SentKeys(l) /\ IInv /\ NumbersMatchSent
  BY <1>1 DEF LInv, KeptOK, AInv
<1>6. /\ DOMAIN b.mkskipped \subseteq DOMAIN previous
      /\ b.ck_r # None =>
            \A i \in b.nr .. a.pn - 1 : <<b.hk_r, i>> \in DOMAIN previous
      /\ DOMAIN previous \subseteq SentKeys(l)
  <2>1. CASE b.ck_r = None
    BY <2>1, <1>5 DEF PreviousChainStored
  <2>2. CASE b.ck_r # None
    <3>1. previous = SkipMessageKeys(b.mkskipped, b.ck_r, b.hk_r, b.nr, a.pn)
      BY <2>2, <1>2 DEF PreviousChainStored
    <3>2. NoHoles(SentKeys(l), b.hk_r, a.pn)
      <4>1. b.hk_r # None
        BY <2>2 DEF LInv, AInv, KeysOK, OwnKeysOK
      <4>2. b.hk_r # a.hk_s
        BY <1>1 DEF Turn
      <4> QED BY <2>2, <4>2, <1>1 DEF LInv, PreviousWhole
    <3> HIDE DEF a, b, previous
    <3> QED BY <3>1, <3>2, <1>2, <1>5, SkipAddsNames
  <2> QED BY <2>1, <2>2
<1>7. /\ DOMAIN previous \subseteq DOMAIN store
      /\ \A i \in 0 .. m.n - 1 : <<m.hk, i>> \in DOMAIN store
      /\ DOMAIN store \subseteq SentKeys(l)
  <2>1. NoHoles(SentKeys(l), m.hk, m.n) /\ 0 \in Nat
    BY <1>2 DEF LInv, ChainsWhole
  <2>2. store = SkipMessageKeys(previous, <<a.rk, 0>>, m.hk, 0, m.n)
    BY <1>1 DEF store
  <2> HIDE DEF a, b, previous
  <2> QED BY <2>1, <2>2, <1>2, <1>5, <1>6, SkipAddsNames
<1> HIDE DEF previous
<1> QED BY <1>4, <1>6, <1>7

(***************************************************************************)
(* A commit with a DH ratchet: what was still to come of the chain that    *)
(* ends is awaited in the store from then on.                              *)
(***************************************************************************)
LEMMA RatchetWithinLimits ==
    ASSUME WithinLimits, LInv, AInv',
           NEW p \in Party, NEW m \in Sent, NEW c, NEW fresh,
           Admitted(state[p], m), DhRatchetNeeded(state[p], m),
           AfterCommit(c, Committed(state[p], m, fresh), m),
           state' = [state EXCEPT ![p] = c], Hand(m)
    PROVE  LInv'
<1>1. PICK l \in Party : /\ Turn(state, l)
                         /\ \A k \in Sent : PreviousOK(state, l, k)
  BY DEF LInv, AInv
<1> DEFINE a == state[l]
           b == state[p]
<1>2. /\ p = Peer(l) /\ l = Peer(p) /\ l # p /\ \A q \in Party : q = l \/ q = p
      /\ m.hk = b.nhk_r /\ SentOn(m, l, a)
  BY <1>1, RatchetIsTheOthers, TwoParties DEF LInv
<1>3. /\ TakesTheLead(a, b, c, fresh)
      /\ \A id \in c.received_messages : id = MessageId(m)
      /\ DOMAIN b.mkskipped \subseteq DOMAIN c.mkskipped
      /\ b.ck_r # None =>
            \A i \in b.nr .. a.pn - 1 : <<b.hk_r, i>> \in DOMAIN c.mkskipped
      /\ \A i \in 0 .. m.n - 1 : <<m.hk, i>> \in DOMAIN c.mkskipped
      /\ DOMAIN c.mkskipped \subseteq SentKeys(l)
  BY <1>1, RatchetStoresAll
<1>4. /\ b.ns \in Nat /\ b.nr \in Nat /\ b.header_nonce_counter \in Nat
      /\ Leads(a, b) /\ m.n \in Nat
  BY <1>1, <1>2, LimitAssumption
     DEF LInv, AInv, IInv, TypeOK, SessionTypeOK, PacketTypeOK, Turn
<1>5. /\ c.pn = b.ns /\ c.ns = 0 /\ c.nr = 1 /\ c.hk_r = b.nhk_r
  BY <1>3 DEF TakesTheLead
<1>6. \A q \in Party : state'[q] = IF q = p THEN c ELSE state[q]
  BY DEF LInv, AInv, IInv, TypeOK
<1>7. /\ Sent' = Sent /\ handed'[m] > 0 /\ \A k \in Sent : k # m => handed'[k] = handed[k]
  <2>1. Sent' = Sent /\ handed'[m] > 0
    BY HandCounts DEF LInv, AInv
  <2>2. \A k \in Sent : k # m => handed'[k] = handed[k]
    BY DEF Hand, Sent
  <2> QED BY <2>1, <2>2
<1>8. state'[p] = c /\ state'[l] = a
  BY <1>2, <1>6
<1>9. NumbersMatchSent'
  <2>1. \A q \in Party : /\ state'[q].ns <= state[q].header_nonce_counter
                         /\ state'[q].pn <= state[q].header_nonce_counter
    <3>1. /\ a.ns <= a.header_nonce_counter /\ a.pn <= a.header_nonce_counter
          /\ b.ns <= b.header_nonce_counter
      BY DEF LInv, NumbersMatchSent
    <3> HIDE DEF a, b
    <3>2. c.ns <= b.header_nonce_counter /\ c.pn <= b.header_nonce_counter
      BY <3>1, <1>4, <1>5
    <3> QED BY <3>1, <3>2, <1>2, <1>8 DEF a, b
  <2> QED BY <2>1, <1>7, SameCounters DEF LInv, AInv, NumbersMatchSent, Sender
<1>10. ChainsWhole'
  <2>1. NoHoles(SentKeys(p), c.hk_s, c.ns)
    BY <1>5 DEF NoHoles
  <2>2. \A q \in Party : NoHoles(SentKeys(q), state'[q].hk_s, state'[q].ns)
    BY <2>1, <1>2, <1>8 DEF LInv, ChainsWhole
  <2> QED BY <2>2, <1>7, SameSent DEF LInv, ChainsWhole
<1>11. PreviousWhole'
  <2>1. c.hk_r = a.hk_s
    BY <1>4, <1>5 DEF Leads
  <2>2. a.hk_r = b.hk_s
    BY <1>4 DEF Leads
  <2>3. NoHoles(SentKeys(p), a.hk_r, c.pn)
    BY <2>2, <1>5 DEF LInv, ChainsWhole
  <2>4. \A q \in Party :
           state'[q].ck_r # None /\ state'[q].hk_r # state'[Peer(q)].hk_s
              => NoHoles(SentKeys(Peer(q)), state'[q].hk_r, state'[Peer(q)].pn)
    BY <2>1, <2>3, <1>2, <1>8
  <2> QED BY <2>4, <1>7, SameSent DEF PreviousWhole
<1>12. KeptOK'
  <2>1. c.received_messages \subseteq {MessageId(k) : k \in SentBy(l)}
    BY <1>2, <1>3 DEF SentBy, SentOn
  <2>2. \A q \in Party : /\ DOMAIN state'[q].mkskipped \subseteq SentKeys(Peer(q))
                         /\ state'[q].received_messages
                               \subseteq {MessageId(k) : k \in SentBy(Peer(q))}
    BY <2>1, <1>2, <1>3, <1>8 DEF LInv, KeptOK
  <2> QED BY <2>2, <1>7, SameSent DEF KeptOK
<1>13. AllAwaited'
  <2> SUFFICES ASSUME NEW k \in Sent, k # m, handed[k] = 0
               PROVE  Awaited(state'[Peer(Sender(k))], k)
    BY <1>7 DEF AllAwaited, Sender
  <2> DEFINE q == Peer(Sender(k))
  <2>1. q \in Party /\ Awaited(state[q], k) /\ k.n \in Nat /\ k.hk # None
    BY TwoParties DEF LInv, AllAwaited, Sender, Party, AInv, IInv, TypeOK,
                      PacketTypeOK, PacketOK
  <2> HIDE DEF q
  <2>2. CASE q # p
    BY <2>1, <2>2, <1>6 DEF q
  <2>3. CASE q = p
    <3>1. state'[q] = c /\ Awaited(b, k)
      BY <2>1, <2>3, <1>8
    <3>2. CASE <<k.hk, k.n>> \in DOMAIN b.mkskipped
      BY <3>1, <3>2, <1>3 DEF Awaited, q
    <3>3. CASE k.hk = b.hk_r /\ b.nr <= k.n
      <4>1. b.ck_r # None
        BY <3>3, <2>1 DEF LInv, AInv, KeysOK, OwnKeysOK
      <4>2. k.n < a.pn /\ a.pn \in Nat
        BY <3>3, <1>1, <1>2, LimitAssumption
           DEF PreviousOK, LInv, AInv, IInv, TypeOK, SessionTypeOK
      <4>3. k.n \in b.nr .. a.pn - 1
        BY <4>2, <3>3, <2>1, <1>4
      <4> QED BY <4>1, <4>3, <3>1, <3>3, <1>3 DEF Awaited, q
    <3>4. CASE k.hk = b.nhk_r
      <4>1. SentOn(k, l, a)
        BY <3>4, <1>1, <1>2, LeadersChain
      <4>2. k.n # m.n
        <5>1. k.mk[2] = m.mk[2]
          BY <4>1, <1>2 DEF SentOn
        <5> QED BY <5>1, OneOfEachNumber DEF LInv
      <4>3. k.n >= 1 \/ k.n \in 0 .. m.n - 1
        BY <4>2, <2>1, <1>4
      <4>4. Awaited(c, k)
        BY <4>3, <3>4, <1>2, <1>3, <1>5 DEF Awaited
      <4> QED BY <4>4, <3>1 DEF q
    <3> QED BY <3>1, <3>2, <3>3, <3>4 DEF Awaited
  <2> QED BY <2>2, <2>3
<1> QED BY <1>9, <1>10, <1>11, <1>12, <1>13 DEF LInv

(***************************************************************************)
(* Every way out of decrypt that changes the state.  The two that strand a *)
(* message are not taken.                                                  *)
(***************************************************************************)
LEMMA DecryptWithinLimits ==
    ASSUME WithinLimits, LInv, AInv', NEW p \in Party, NEW m \in Sent, Decrypt(p, m)
    PROVE  LInv'
<1> DEFINE s == state[p]
           next == Committed(s, m, FreshKey(p))
<1>1. PICK l \in Party : /\ Turn(state, l)
                         /\ \A k \in Sent : PreviousOK(state, l, k)
  BY DEF LInv, AInv
<1>2. SessionTypeOK(s) /\ SessionOK(s) /\ PacketTypeOK(m) /\ PacketOK(m)
  BY DEF LInv, AInv, IInv, TypeOK
<1>3. CASE DecryptWithSkippedKey(p, m)
  BY <1>3, SkippedKeyWithinLimits
<1>4. ASSUME Admitted(s, m) PROVE ~PreviousChainRefused(s, m)
  <2> SUFFICES ASSUME DhRatchetNeeded(s, m) PROVE ~PreviousChainRefused(s, m)
    BY DEF PreviousChainRefused
  <2>1. p = Peer(l) /\ m.hk = s.nhk_r
    BY <1>1, <1>4, RatchetIsTheOthers DEF LInv
  <2> QED BY <2>1, <1>1, LeadersChain
<1>5. ASSUME Authentic(p, m)
      PROVE  /\ Admitted(s, m) /\ ~PreviousChainRefused(s, m)
             /\ SessionTypeOK(next)
  <2>1. Admitted(s, m)
    BY <1>5 DEF Authentic, Admitted
  <2> QED BY <2>1, <1>2, <1>4, CommittedKeeps
<1>6. ~DecryptLosesSkippedKeys(p, m)
  BY <1>5 DEF DecryptLosesSkippedKeys
<1>7. ~DecryptTooMany(p, m, FreshKey(p))
  <2> SUFFICES ASSUME Authentic(p, m) PROVE ~ReceivedFull(next)
    BY DEF DecryptTooMany
  <2>1. next.received_messages \subseteq s.received_messages
    <3>1. CASE DhRatchetNeeded(s, m)
      BY <3>1, <1>2, CommittedRatchet DEF SessionTypeOK
    <3>2. CASE ~DhRatchetNeeded(s, m)
      <4>1. \A f \in SessionFields \ {"ck_r", "nr", "mkskipped"} : next[f] = s[f]
        BY <3>2, <1>2, CommittedOnChain DEF SessionTypeOK
      <4> HIDE DEF next
      <4> QED BY <4>1 DEF SessionFields
    <3> QED BY <3>1, <3>2
  <2>2. s.received_messages \subseteq {MessageId(k) : k \in SentBy(Peer(p))}
    BY DEF LInv, KeptOK
  <2> HIDE DEF next, s
  <2>3. next.received_messages \in SUBSET {MessageId(k) : k \in SentBy(Peer(p))}
    BY <2>1, <2>2
  <2> QED BY <2>3, SentFits, TwoParties DEF LInv, AInv, ReceivedFull
<1>8. CASE DecryptOnChain(p, m, FreshKey(p))
  <2> DEFINE c == Tracked(next, m)
  <2>1. /\ Authentic(p, m) /\ state' = [state EXCEPT ![p] = c] /\ Hand(m)
    BY <1>8 DEF DecryptOnChain
  <2>2. handed'[m] > 0
    BY <2>1, HandCounts DEF LInv, AInv
  <2>3. AfterCommit(c, next, m)
    BY <1>5, <2>1, <2>2, CommitOrTracked
  <2> HIDE DEF c
  <2>4. Admitted(s, m)
    BY <1>5, <2>1
  <2>5. CASE DhRatchetNeeded(s, m)
    BY <2>1, <2>3, <2>4, <2>5, RatchetWithinLimits
  <2>6. CASE ~DhRatchetNeeded(s, m)
    BY <2>1, <2>3, <2>4, <2>6, OnChainWithinLimits
  <2> QED BY <2>5, <2>6
<1> QED BY <1>3, <1>6, <1>7, <1>8 DEF Decrypt

(***************************************************************************)
(* Every step keeps the invariant.                                         *)
(***************************************************************************)
LEMMA NextWithinLimits == WithinLimits /\ NoneIsNoKey /\ LInv /\ [Next]_vars => LInv'
<1> SUFFICES ASSUME WithinLimits, NoneIsNoKey, LInv, [Next]_vars PROVE LInv'
  OBVIOUS
<1>1. AInv'
  BY NextAgrees DEF LInv
<1>2. \A p \in Party : ~NumberOverflows(state[p]) /\ ~NonceOverflows(state[p])
  BY NothingOverflows DEF LInv, AInv
<1>3. ASSUME NEW p \in Party, Encrypt(p) PROVE LInv'
  BY <1>1, <1>3, EncryptWithinLimits
<1>4. ASSUME NEW p \in Party, NEW m \in Sent, Decrypt(p, m) PROVE LInv'
  BY <1>1, <1>4, DecryptWithinLimits
<1>5. ASSUME UNCHANGED vars PROVE LInv'
  <2>1. state' = state /\ handed' = handed /\ Sent' = Sent
    BY <1>5 DEF vars, Sent
  <2>2. NumbersMatchSent' /\ ChainsWhole' /\ PreviousWhole'
    BY <2>1, SameSent DEF LInv, NumbersMatchSent, ChainsWhole, PreviousWhole
  <2>3. KeptOK' /\ AllAwaited'
    BY <2>1, SameSent DEF LInv, KeptOK, AllAwaited
  <2> QED BY <1>1, <2>2, <2>3 DEF LInv
<1> QED BY <1>2, <1>3, <1>4, <1>5
           DEF Next, EncryptNumberOverflow, EncryptNonceOverflow,
               EncryptRefused, DecryptRefused

(***************************************************************************)
(* When the session begins nothing has been sent.                          *)
(***************************************************************************)
LEMMA InitWithinLimits == NoneIsNoKey /\ Init => LInv
<1> SUFFICES ASSUME NoneIsNoKey, Init PROVE LInv
  OBVIOUS
<1>1. AInv
  BY InitAgrees
<1>2. Sent = {} /\ \A p \in Party : MaxSends[p] \in Nat
  BY PartyAssumption DEF Init, Sent, Party
<1>3. \A p \in Party : /\ state[p].ns = 0 /\ state[p].pn = 0 /\ state[p].ck_r = None
                       /\ state[p].header_nonce_counter = 0
                       /\ state[p].mkskipped = EmptyStore
                       /\ state[p].received_messages = {}
  <2>1. /\ state[Alice] = InitSenderState(SharedSecret, Key(Alice, 1), Key(Bob, 0))
        /\ state[Bob] = InitReceiverState(SharedSecret, Key(Bob, 0))
    BY PartyAssumption DEF Init, Party
  <2> QED BY <2>1 DEF InitSenderState, InitReceiverState, Party
<1>4. NumbersMatchSent
  BY <1>2, <1>3 DEF NumbersMatchSent
<1>5. ChainsWhole /\ PreviousWhole
  BY <1>2, <1>3 DEF ChainsWhole, PreviousWhole, NoHoles
<1>6. KeptOK /\ AllAwaited
  BY <1>2, <1>3, EmptyIsStore DEF KeptOK, AllAwaited
<1> QED BY <1>1, <1>4, <1>5, <1>6 DEF LInv

(***************************************************************************)
(* A message that is awaited opens.                                        *)
(***************************************************************************)
LEMMA AwaitedOpens ==
    ASSUME WithinLimits, LInv, NEW m \in Sent,
           NEW p \in Party, p = Peer(Sender(m)),
           MessageId(m) \notin state[p].received_messages, Awaited(state[p], m)
    PROVE  /\ DecryptError(state[p], m, "none") = None
           /\ SkippedKeyOpens(state[p], m, "none") \/ ~PreviousChainRefused(state[p], m)
<1> DEFINE s == state[p]
<1>1. PICK l \in Party : /\ Turn(state, l)
                         /\ \A k \in Sent : PreviousOK(state, l, k)
  BY DEF LInv, AInv
<1>2. /\ SessionOK(s) /\ s.nr \in Nat /\ m.n \in Nat /\ m.hk # None
      /\ m.mk = <<"mk", m.mk[2], m.n>>
  BY DEF LInv, AInv, IInv, TypeOK, SessionTypeOK, PacketTypeOK, PacketOK, MessageOK
<1>3. m.n < MaxSends[Sender(m)] /\ Sender(m) \in Party
  BY DEF LInv, NumbersMatchSent, Sender, Party
<1>4. /\ MaxSends[Sender(m)] \in Nat /\ MaxSends[Sender(m)] <= MaxSkip
      /\ MaxSends[Sender(m)] + MaxSkip < MaxCounter
  BY <1>3, PartyAssumption DEF WithinLimits, Party
<1>5. ASSUME <<m.hk, m.n>> \in DOMAIN s.mkskipped
      PROVE  SkippedKeyOpens(s, m, "none")
  BY <1>5 DEF LInv, AInv, StoresOK, SkippedKeysGenuine, SkippedKeyOpens,
              HeaderDecrypts, BodyDecrypts
<1>6. ASSUME m.hk \in {s.hk_r, s.nhk_r}, ReceivingFrom(s, m).nr \in 0 .. m.n,
             ReceivingFrom(s, m).ck[1] = m.mk[2],
             ReceivingFrom(s, m).ck[2] = ReceivingFrom(s, m).nr,
             ~SkippedKeyOpens(s, m, "none")
      PROVE  DecryptError(s, m, "none") = None
  <2> DEFINE at == ReceivingFrom(s, m)
  <2>1. HeaderOpens(s, m, "none")
    BY <1>6 DEF HeaderOpens, HeaderDecrypts
  <2>2. ~BeyondSkipLimit(s, m)
    <3>1. /\ at.nr + MaxSkip \in 0 .. MaxCounter
          /\ at.nr + MaxSkip >= m.n
      BY <1>2, <1>3, <1>4, <1>6, SkipAssumption, LimitAssumption
    <3> HIDE DEF at
    <3>2. (at.nr + MaxSkip) % (MaxCounter + 1) = at.nr + MaxSkip
      BY <3>1, LimitAssumption
    <3> QED BY <3>1, <3>2, <1>2 DEF BeyondSkipLimit, at
  <2>3. ComputeMessageKey(s, m) = m.mk
    <3>1. at.ck[1] = m.mk[2] /\ at.ck[2] = at.nr /\ at.nr \in Nat /\ at.nr <= m.n
      BY <1>2, <1>6
    <3>2. ComputeMessageKey(s, m)
             = KdfCk(KdfCkIter(at.ck, IF m.n > at.nr THEN m.n - at.nr ELSE 0)).mk
      BY DEF ComputeMessageKey
    <3>3. at.nr + (IF m.n > at.nr THEN m.n - at.nr ELSE 0) = m.n
      BY <3>1, <1>2
    <3> HIDE DEF at, s
    <3> QED BY <3>1, <3>2, <3>3, <1>2 DEF KdfCk, KdfCkIter
  <2> HIDE DEF at
  <2> QED BY <1>6, <2>1, <2>2, <2>3 DEF DecryptError, BodyDecrypts
<1>7. CASE <<m.hk, m.n>> \in DOMAIN s.mkskipped
  BY <1>5, <1>7 DEF DecryptError
<1>8. CASE m.hk = s.hk_r /\ s.nr <= m.n
  <2>1. ~DhRatchetNeeded(s, m)
    BY <1>8 DEF DhRatchetNeeded
  <2>2. s.ck_r[1] = m.mk[2] /\ s.ck_r[2] = s.nr
    BY <1>1, <1>2, <1>8, ReceivingChain DEF LInv, SessionOK
  <2> QED BY <2>1, <2>2, <1>2, <1>5, <1>6, <1>8
             DEF ReceivingFrom, PreviousChainRefused, DecryptError
<1>9. CASE m.hk = s.nhk_r
  <2>1. p = Peer(l) /\ l = Sender(m)
    <3>1. CASE p = l
      BY <3>1, <1>1, <1>9, TwoParties DEF Turn, Leads, LInv, AInv, MessageOK
    <3>2. CASE p # l
      BY <3>2, <1>3, TwoParties
    <3> QED BY <3>1, <3>2
  <2>2. /\ SentOn(m, l, state[l])
        /\ DhRatchetNeeded(s, m) /\ ~PreviousChainRefused(s, m)
    BY <1>1, <1>9, <2>1, LeadersChain
  <2>3. KdfRkHe(s.rk, DH(s.dh_pair, m.dh_pub)).ck = <<m.mk[2], 0>>
    <3>1. /\ m.dh_pub = state[l].dh_pair /\ m.mk[2] = state[l].ck_s[1]
          /\ state[l].ck_s[1] = KdfRkHe(s.rk, DH(m.dh_pub, s.dh_pair)).ck[1]
      BY <1>1, <2>1, <2>2 DEF SentOn, Turn, Leads
    <3> HIDE DEF s
    <3> QED BY <3>1 DEF KdfRkHe, DH
  <2> QED BY <2>2, <2>3, <1>2, <1>6, <1>9 DEF ReceivingFrom, DecryptError
<1> QED BY <1>7, <1>8, <1>9 DEF Awaited

(***************************************************************************)
(* A message that was not decrypted can be, however late it comes and      *)
(* whichever DH ratchets came first, as long as neither party sends more   *)
(* than the limits have room for.                                          *)
(***************************************************************************)
THEOREM NothingStranded ==
    WithinLimits /\ NoneIsNoKey => (Spec => []NoMessageStranded)
<1>1. WithinLimits /\ LInv => NoMessageStranded
  <2> SUFFICES ASSUME WithinLimits, LInv, NEW m \in Sent, handed[m] = 0
               PROVE  LET p == Peer(Sender(m))
                      IN  /\ DecryptError(state[p], m, "none") = None
                          /\ \/ SkippedKeyOpens(state[p], m, "none")
                             \/ ~PreviousChainRefused(state[p], m)
    BY DEF NoMessageStranded
  <2> DEFINE p == Peer(Sender(m))
  <2>1. p \in Party /\ Awaited(state[p], m)
    BY TwoParties DEF LInv, AllAwaited, Sender, Party
  <2>2. MessageId(m) \notin state[p].received_messages
    <3> SUFFICES ASSUME MessageId(m) \in state[p].received_messages PROVE FALSE
      OBVIOUS
    <3>1. PICK k \in Sent : MessageId(k) = MessageId(m) /\ handed[k] > 0
      BY <2>1 DEF LInv, AInv, ReceivedOK
    <3>2. k = m
      BY <3>1 DEF LInv, AInv, IdsUnique
    <3> QED BY <3>1, <3>2
  <2> QED BY <2>1, <2>2, AwaitedOpens
<1> SUFFICES ASSUME WithinLimits, NoneIsNoKey PROVE Spec => []NoMessageStranded
  OBVIOUS
<1>2. Init => LInv
  BY InitWithinLimits
<1>3. LInv /\ [Next]_vars => LInv'
  BY NextWithinLimits
<1>4. LInv => NoMessageStranded
  BY <1>1
<1> QED BY <1>2, <1>3, <1>4, PTL DEF Spec

=============================================================================
