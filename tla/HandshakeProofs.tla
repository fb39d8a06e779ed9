--------------------------- MODULE HandshakeProofs ---------------------------
(***************************************************************************)
(* Theorems about Handshake, for any number of initiators, owners, Android *)
(* users, signed and one-time prekeys.                                     *)
(***************************************************************************)
EXTENDS Handshake, TLAPS

(***************************************************************************)
(* The hypothesis of these theorems: Option::None is none of the values    *)
(* that it is compared with, which are keys, encoded keys, results of a DH *)
(* exchange, sessions and errors.                                          *)
(***************************************************************************)
NoneIsNoValue ==
    /\ \A x, y : None # <<x, y>> /\ None # {x, y}
    /\ \A x, y : None # [encoding |-> x, key |-> y]
    /\ \A b, t, s : None # [bundle |-> b, taken |-> t, result |-> "ok", sk |-> s]
    /\ None \notin R!Errors

(***************************************************************************)
(* A bundle that a's host took, whether or not the server mixed or altered *)
(* it: its keys are Bob's, each for its purpose, or are nobody's; if it    *)
(* carries Bob's identity key then its signed prekey is a published one.   *)
(***************************************************************************)
BundleOK(a, b) ==
    LET t == Taken(a, b)
    IN  /\ t.identity_key = b.identity_key /\ t.spk = b.spk
        /\ b.identity_key.key \in {IdentityKey(Bob), OtherKey}
        /\ \E i : b.spk.key \in {SignedPreKey(i), OtherKey}
        /\ b.identity_key.key = IdentityKey(Bob) => \E c \in published : b.spk = c.spk
        /\ t.opk # None => \E o : t.opk.key \in {OneTimePreKey(o), OtherKey}

(***************************************************************************)
(* The invariant.  A session keeps what it was started from, an initial    *)
(* message is the one that its session sent.                               *)
(***************************************************************************)
PublishedOK == \A b \in published : \E o : b = Bundle(b.spk_id, o)

StartedOK(a) ==
    LET s == initiated[a]
    IN  /\ s = [bundle |-> s.bundle, taken |-> Taken(a, s.bundle), result |-> "ok",
                sk |-> InitiatorSecret(InitiatorKey(a), EphemeralKey(a),
                                       Taken(a, s.bundle))]
        /\ BundleOK(a, s.bundle)

InitialOf(a, s) ==
    [from      |-> a,
     identity  |-> EncodePublicKey(InitiatorKey(a)),
     ephemeral |-> EncodePublicKey(EphemeralKey(a)),
     spk_id    |-> s.bundle.spk_id,
     opk_id    |-> s.bundle.opk_id,
     packet    |-> R!Packet(R!InitSenderState(s.sk, RatchetKey(a), s.bundle.spk.key))]

(***************************************************************************)
(* The inductive invariant.                                                *)
(***************************************************************************)
HInv ==
    /\ DOMAIN initiated = Initiators
    /\ PublishedOK
    /\ \A a \in Sessions : StartedOK(a)
    /\ \A i \in initials : i.from \in Sessions /\ i = InitialOf(i.from, initiated[i.from])
    /\ SessionsAgree

-----------------------------------------------------------------------------
(* The first message of a session.                                         *)

(***************************************************************************)
(* It opens only in the session that Bob starts from the same secret, and  *)
(* it does open there if both were given the same signed prekey.           *)
(***************************************************************************)
LEMMA FirstMessageOpens ==
    ASSUME NoneIsNoValue, NEW sk, NEW sk2, NEW own, NEW spk, NEW spk2
    PROVE  LET m == R!Packet(R!InitSenderState(sk, own, spk))
               s == R!InitReceiverState(sk2, spk2)
           IN  /\ R!DecryptError(s, m, "none") = None => sk = sk2
               /\ sk = sk2 /\ spk = spk2 => R!DecryptError(s, m, "none") = None
<1> DEFINE m == R!Packet(R!InitSenderState(sk, own, spk))
           s == R!InitReceiverState(sk2, spk2)
           okm == <<"okm", sk, {own, spk}>>
<1>1. /\ m.hk = <<"initiator", sk>> /\ m.n = 0 /\ m.dh_pub = own
      /\ m.mk = <<"mk", okm, 0>>
  BY DEF R!Packet, R!InitSenderState, R!InitiatorHeaderKey, R!KdfRkHe, R!KdfCk, R!DH
<1>2. /\ s.hk_r = None /\ s.nhk_r = <<"initiator", sk2>>
      /\ s.rk = sk2 /\ s.dh_pair = spk2 /\ s.received_messages = {}
      /\ DOMAIN s.mkskipped = {}
  BY DEF R!InitReceiverState, R!InitiatorHeaderKey, R!EmptyStore
<1> HIDE DEF m, s
<1>3. ~R!SkippedKeyOpens(s, m, "none")
  BY <1>2 DEF R!SkippedKeyOpens
<1>4. <<"initiator", sk>> # None
  BY DEF NoneIsNoValue
<1>5. R!HeaderOpens(s, m, "none") <=> sk = sk2
  <2>1. <<"initiator", sk>> = <<"initiator", sk2>> <=> sk = sk2
    OBVIOUS
  <2> QED BY <1>1, <1>2, <1>4, <2>1 DEF R!HeaderOpens, R!HeaderDecrypts
<1>6. R!DecryptError(s, m, "none") = None => sk = sk2
  <2>1. "HeaderDecryptionFailed" # None
    BY DEF NoneIsNoValue, R!Errors
  <2> QED BY <1>3, <1>5, <2>1 DEF R!DecryptError
<1>7. ASSUME sk = sk2, spk = spk2 PROVE R!DecryptError(s, m, "none") = None
  <2>1. R!DhRatchetNeeded(s, m)
    BY <1>1, <1>2, <1>4 DEF R!DhRatchetNeeded
  <2>2. R!ReceivingFrom(s, m) = [ck |-> <<okm, 0>>, nr |-> 0]
    <3>1. R!DH(s.dh_pair, m.dh_pub) = {own, spk}
      BY <1>1, <1>2, <1>7 DEF R!DH
    <3>2. R!KdfRkHe(s.rk, {own, spk}).ck = <<okm, 0>>
      BY <1>2, <1>7 DEF R!KdfRkHe
    <3> HIDE DEF okm
    <3> QED BY <2>1, <3>1, <3>2 DEF R!ReceivingFrom
  <2> HIDE DEF okm
  <2>3. ~R!BeyondSkipLimit(s, m)
    <3>1. (0 + MaxSkip) % (MaxCounter + 1) >= 0
      BY WidthAssumption
    <3> QED BY <1>1, <2>2, <3>1, WidthAssumption DEF R!BeyondSkipLimit
  <2>4. R!ComputeMessageKey(s, m) = m.mk
    BY <1>1, <2>2 DEF R!ComputeMessageKey, R!KdfCk, R!KdfCkIter
  <2>5. R!BodyDecrypts(R!ComputeMessageKey(s, m), m, "none")
    BY <2>4 DEF R!BodyDecrypts
  <2>6. R!HeaderOpens(s, m, "none")
    BY <1>5, <1>7
  <2>7. R!MessageId(m) \notin s.received_messages
    BY <1>2
  <2> QED BY <1>3, <2>3, <2>5, <2>6, <2>7 DEF R!DecryptError
<1> QED BY <1>6, <1>7 DEF m, s

-----------------------------------------------------------------------------
(* Bundles and secrets.                                                    *)

(***************************************************************************)
(* The checks have more outcomes than "valid", but no "ok", which is what  *)
(* a session is marked with; and they include that of the signature.       *)
(***************************************************************************)
LEMMA OutcomeIsNotOk ==
    ASSUME NEW a, NEW b
    PROVE  /\ Outcome(a, b) # "ok"
           /\ Outcome(a, b) = "valid" =>
                 /\ Verifies(Taken(a, b).identity_key, Taken(a, b).spk, Taken(a, b).signature)
                 /\ a \in Android => HasLength(b.identity_key) /\ HasLength(b.spk)
<1> DEFINE Results == {"valid", "panic", "InvalidKey"}
<1>1. \A pk : CheckPublicKey(pk) \in Results
  BY DEF CheckPublicKey
<1>2. \A pks : CheckInOrder(pks) \in Results
  BY <1>1 DEF CheckInOrder
<1>3. \A c : /\ InitiatorChecks(c) \in Results \cup {"InvalidSignature"}
             /\ InitiatorChecks(c) = "valid" => Verifies(c.identity_key, c.spk, c.signature)
  BY <1>2 DEF InitiatorChecks
<1>4. /\ AndroidChecks(b) \in Results \cup {"InvalidSignature", "null"}
      /\ AndroidChecks(b) = "valid" =>
            /\ InitiatorChecks(AndroidTakes(b)) = "valid"
            /\ HasLength(b.identity_key) /\ HasLength(b.spk)
  BY <1>3 DEF AndroidChecks
<1> QED BY <1>3, <1>4 DEF Outcome, Taken

(***************************************************************************)
(* Of parts of Bob's bundles, keys are Bob's and the signature is of one   *)
(* of his prekeys, but not necessarily of this one.                        *)
(***************************************************************************)
MixOf(b, i, j, o) ==
    /\ b.identity_key = EncodePublicKey(IdentityKey(Bob))
    /\ b.spk = EncodePublicKey(SignedPreKey(i))
    /\ b.signature = Sign(IdentityKey(Bob), EncodePublicKey(SignedPreKey(j)))
    /\ b.opk \in {None, EncodePublicKey(OneTimePreKey(o))}
    /\ \E d \in published : d.spk = b.spk
    /\ DOMAIN b = {"spk_id", "opk_id", "identity_key", "spk", "signature", "opk"}

LEMMA MixedIsMix ==
    ASSUME PublishedOK, NEW b \in MixedBundles
    PROVE  \E i, j, o : MixOf(b, i, j, o)
<1>1. PICK ids \in published, keys \in published, signed \in published :
         b = Mixed(ids, keys, signed)
  BY DEF MixedBundles
<1>2. PICK i, o : keys = Bundle(i, o)
  BY DEF PublishedOK
<1>3. PICK j, p : signed = Bundle(j, p)
  BY DEF PublishedOK
<1>4. /\ keys.identity_key = EncodePublicKey(IdentityKey(Bob))
      /\ keys.spk = EncodePublicKey(SignedPreKey(i))
      /\ keys.opk \in {None, EncodePublicKey(OneTimePreKey(o))}
      /\ DOMAIN keys = {"spk_id", "opk_id", "identity_key", "spk", "signature", "opk"}
  BY <1>2 DEF Bundle
<1>5. signed.signature = Sign(IdentityKey(Bob), EncodePublicKey(SignedPreKey(j)))
  BY <1>3 DEF Bundle
<1>6. /\ b.identity_key = keys.identity_key /\ b.spk = keys.spk /\ b.opk = keys.opk
      /\ b.signature = signed.signature /\ DOMAIN b = DOMAIN keys
  BY <1>1, <1>4 DEF Mixed
<1>7. MixOf(b, i, j, o)
  BY <1>4, <1>5, <1>6 DEF MixOf
<1> QED BY <1>7

(***************************************************************************)
(* The bundles that Bob made are among them.                               *)
(***************************************************************************)
LEMMA PublishedIsMixed ==
    ASSUME NoneIsNoValue, PublishedOK
    PROVE  published \subseteq MixedBundles
<1> SUFFICES ASSUME NEW b \in published PROVE b \in MixedBundles
  OBVIOUS
<1>1. PICK i, o : b = Bundle(i, o)
  BY DEF PublishedOK
<1>2. b = Mixed(b, b, b)
  BY <1>1 DEF Bundle, Mixed
<1>3. b.opk_id = None <=> b.opk = None
  BY <1>1 DEF Bundle, EncodePublicKey, NoneIsNoValue
<1> QED BY <1>2, <1>3 DEF MixedBundles

(***************************************************************************)
(* What gets past the checks of x3dh_initiator, of all that the server can *)
(* hand out.                                                               *)
(***************************************************************************)
LEMMA AcceptedBundle ==
    ASSUME NoneIsNoValue, PublishedOK,
           NEW a, NEW b \in HandedOutTo(a), Outcome(a, b) = "valid"
    PROVE  BundleOK(a, b)
<1> DEFINE spk(i) == EncodePublicKey(SignedPreKey(i))
           bob == EncodePublicKey(IdentityKey(Bob))
           Altered == BadKeys \cup {WrongLength}
<1>1. ASSUME NEW k \in Altered
      PROVE  /\ k.key = OtherKey /\ k # None
             /\ k.encoding \in Encodings \cup {"wrongLength"}
  BY DEF BadKeys, WrongLength, NoneIsNoValue
<1>2. PICK c \in MixedBundles, k \in Altered :
         \/ b = c
         \/ b = [c EXCEPT !.identity_key = k]
         \/ b = [c EXCEPT !.spk = k]
         \/ b = [c EXCEPT !.opk = k]
         \/ b = Forged(c, k)
         \/ b = [Forged(c, k) EXCEPT !.identity_key = k]
  <2>1. WrongLength \in Altered
    OBVIOUS
  <2>2. b \in HandedOut \/ \E d \in MixedBundles :
            b \in {[d EXCEPT !.identity_key = WrongLength],
                  [d EXCEPT !.spk = WrongLength],
                  [d EXCEPT !.opk = WrongLength]}
    <3>1. published \subseteq MixedBundles
      BY PublishedIsMixed
    <3> QED BY <3>1 DEF HandedOutTo
  <2>3. CASE b \in MixedBundles
    BY <2>1, <2>3
  <2>4. CASE b \in HandedOut \ MixedBundles
    <3> DEFINE S1 == {[d EXCEPT !.identity_key = e] : d \in MixedBundles, e \in BadKeys}
               S2 == {[d EXCEPT !.spk = e] : d \in MixedBundles, e \in BadKeys}
               S3 == {[d EXCEPT !.opk = e] : d \in WithOneTimePreKey, e \in BadKeys}
               S4 == {Forged(d, e) : d \in MixedBundles, e \in BadKeys}
               S5 == {[Forged(d, e) EXCEPT !.identity_key = e] :
                          d \in MixedBundles, e \in BadKeys}
    <3>1. HandedOut = MixedBundles \cup S1 \cup S2 \cup S3 \cup S4 \cup S5
      BY DEF HandedOut
    <3>2. b \in S1 => \E d \in MixedBundles, e \in BadKeys : b = [d EXCEPT !.identity_key = e]
      OBVIOUS
    <3>3. b \in S2 => \E d \in MixedBundles, e \in BadKeys : b = [d EXCEPT !.spk = e]
      OBVIOUS
    <3>4. b \in S3 => \E d \in MixedBundles, e \in BadKeys : b = [d EXCEPT !.opk = e]
      BY DEF WithOneTimePreKey
    <3>5. b \in S4 => \E d \in MixedBundles, e \in BadKeys : b = Forged(d, e)
      OBVIOUS
    <3>6. b \in S5 => \E d \in MixedBundles, e \in BadKeys :
                         b = [Forged(d, e) EXCEPT !.identity_key = e]
      OBVIOUS
    <3> HIDE DEF S1, S2, S3, S4, S5
    <3>7. b \in S1 \/ b \in S2 \/ b \in S3 \/ b \in S4 \/ b \in S5
      BY <2>4, <3>1
    <3> QED BY <3>2, <3>3, <3>4, <3>5, <3>6, <3>7, Zenon
  <2> QED BY <2>1, <2>2, <2>3, <2>4
<1>3. PICK i, j, o : MixOf(c, i, j, o)
  BY MixedIsMix
<1>4. /\ c.identity_key = bob /\ c.spk = spk(i) /\ c.signature = Sign(IdentityKey(Bob), spk(j))
      /\ c.opk \in {None, EncodePublicKey(OneTimePreKey(o))}
      /\ \E d \in published : d.spk = spk(i)
      /\ DOMAIN c = {"spk_id", "opk_id", "identity_key", "spk", "signature", "opk"}
  BY <1>3 DEF MixOf
<1>5. /\ bob.key = IdentityKey(Bob) /\ spk(i).key = SignedPreKey(i)
      /\ IdentityKey(Bob) # OtherKey /\ \A x : spk(x).key # OtherKey
      /\ EncodePublicKey(OneTimePreKey(o)).key = OneTimePreKey(o)
  BY DEF EncodePublicKey, IdentityKey, SignedPreKey, OtherKey
<1>6. k.key = OtherKey /\ k # None
  BY <1>1
<1> HIDE DEF spk, bob, Altered
<1>7. /\ b.identity_key \in {bob, k} /\ b.spk \in {spk(i), k}
      /\ b.opk \in {c.opk, k}
      /\ b.spk = k => b.signature \in {c.signature, Sign(OtherKey, k)}
      /\ DOMAIN b = DOMAIN c
  <2>1. CASE b = c
    BY <2>1, <1>4, <1>5, <1>6
  <2>2. CASE b = [c EXCEPT !.identity_key = k]
    BY <2>2, <1>4, <1>5, <1>6
  <2>3. CASE b = [c EXCEPT !.spk = k]
    BY <2>3, <1>4, <1>5, <1>6
  <2>4. CASE b = [c EXCEPT !.opk = k]
    BY <2>4, <1>4, <1>5, <1>6
  <2>5. CASE b = Forged(c, k)
    BY <2>5, <1>4, <1>5, <1>6 DEF Forged
  <2>6. CASE b = [Forged(c, k) EXCEPT !.identity_key = k]
    BY <2>6, <1>4, <1>5, <1>6 DEF Forged
  <2> QED BY <1>2, <2>1, <2>2, <2>3, <2>4, <2>5, <2>6
<1> DEFINE t == Taken(a, b)
<1>8. /\ t.identity_key = b.identity_key /\ t.spk = b.spk
      /\ t.signature = b.signature
      /\ t.opk \in {b.opk, None}
  BY <1>4, <1>7 DEF Taken, AndroidTakes
<1>9. b.identity_key.key = IdentityKey(Bob) => b.spk = spk(i)
  <2> SUFFICES ASSUME b.identity_key.key = IdentityKey(Bob), b.spk = k PROVE FALSE
    BY <1>7
  <2>1. b.signature = [signer |-> b.identity_key.key, message |-> b.spk]
    BY <1>8, OutcomeIsNotOk DEF Verifies
  <2>2. CASE b.signature = c.signature
    <3>1. k = spk(j)
      BY <1>4, <2>1, <2>2 DEF Sign
    <3> QED BY <3>1, <1>5, <1>6
  <2>3. CASE b.signature = Sign(OtherKey, k)
    <3>1. OtherKey = IdentityKey(Bob)
      BY <2>1, <2>3 DEF Sign
    <3> QED BY <3>1, <1>5
  <2> QED BY <1>7, <2>2, <2>3
<1> HIDE DEF t
<1>10. t.opk # None => t.opk.key \in {OneTimePreKey(o), OtherKey}
  BY <1>4, <1>5, <1>6, <1>7, <1>8
<1>11. b.spk.key \in {SignedPreKey(i), OtherKey}
  BY <1>5, <1>6, <1>7
<1> QED BY <1>4, <1>5, <1>6, <1>7, <1>8, <1>9, <1>10, <1>11 DEF BundleOK, t

(***************************************************************************)
(* If Bob, with keys of his and keys that may have been altered on their   *)
(* way to him, comes to the initiator's secret, then none was altered, the *)
(* initiator took him for Bob, and both took the same two prekeys.         *)
(***************************************************************************)
LEMMA SecretsMeet ==
    ASSUME NoneIsNoValue, NEW a, NEW b, BundleOK(a, b), NEW n, NEW o,
           NEW id, id.key \in {InitiatorKey(a), OtherKey},
           NEW eph, eph.key \in {EphemeralKey(a), OtherKey},
           ResponderSecret(IdentityKey(Bob), SignedPreKey(n), OneTimeSecret(o), id, eph)
             = InitiatorSecret(InitiatorKey(a), EphemeralKey(a), Taken(a, b))
    PROVE  /\ id.key = InitiatorKey(a)
           /\ b.identity_key.key = IdentityKey(Bob)
           /\ b.spk.key = SignedPreKey(n)
           /\ KeyIn(Taken(a, b).opk) = OneTimeSecret(o)
<1> DEFINE t == Taken(a, b)
           e == EphemeralKey(a)
           own == OneTimeSecret(o)
<1>1. /\ DH(SignedPreKey(n), id.key) = DH(InitiatorKey(a), t.spk.key)
      /\ DH(IdentityKey(Bob), eph.key) = DH(e, t.identity_key.key)
      /\ DH(SignedPreKey(n), eph.key) = DH(e, t.spk.key)
      /\ DH4(own, eph.key) = IF t.opk = None THEN None ELSE DH4(e, t.opk.key)
  BY DEF ResponderSecret, InitiatorSecret, Kdf
<1>2. /\ InitiatorKey(a) # SignedPreKey(n) /\ InitiatorKey(a) # OtherKey
      /\ e # IdentityKey(Bob) /\ e # OtherKey /\ e # SignedPreKey(n)
      /\ \A x : OneTimePreKey(x) # e /\ OneTimePreKey(x) # OtherKey
      /\ \A x : OneTimePreKey(x) # None
      /\ e # None /\ OtherKey # None
  BY DEF InitiatorKey, IdentityKey, SignedPreKey, OtherKey, EphemeralKey,
         OneTimePreKey, NoneIsNoValue
<1>3. /\ t.identity_key = b.identity_key /\ t.spk = b.spk
      /\ t.opk # None => \E x : t.opk.key \in {OneTimePreKey(x), OtherKey}
  BY DEF BundleOK
<1> HIDE DEF t, e
<1>4. id.key = InitiatorKey(a)
  BY <1>1, <1>2 DEF DH
<1>5. eph.key = e /\ b.identity_key.key = IdentityKey(Bob)
  BY <1>1, <1>2, <1>3 DEF DH, e
<1>6. b.spk.key = SignedPreKey(n)
  BY <1>1, <1>2, <1>3, <1>5 DEF DH
<1>7. KeyIn(t.opk) = own
  <2>1. CASE o = None
    <3>1. DH4(own, eph.key) = None
      BY <2>1 DEF DH4, OneTimeSecret
    <3>2. ASSUME t.opk # None PROVE FALSE
      <4>1. DH4(e, t.opk.key) = {e, t.opk.key}
        BY <1>2, <1>3, <3>2 DEF DH4, DH
      <4> QED BY <1>1, <3>1, <3>2, <4>1 DEF NoneIsNoValue
    <3> QED BY <2>1, <3>2 DEF KeyIn, OneTimeSecret
  <2>2. CASE o # None
    <3>1. DH4(own, eph.key) = {OneTimePreKey(o), e}
      BY <1>2, <1>5, <2>2 DEF DH4, DH, OneTimeSecret
    <3>2. t.opk # None
      BY <1>1, <3>1 DEF NoneIsNoValue
    <3>3. DH4(e, t.opk.key) = {e, t.opk.key}
      BY <1>2, <1>3, <3>2 DEF DH4, DH
    <3>4. t.opk.key = OneTimePreKey(o)
      BY <1>1, <1>2, <3>1, <3>2, <3>3
    <3> QED BY <2>2, <3>2, <3>4 DEF KeyIn, OneTimeSecret
  <2> QED BY <2>1, <2>2
<1> QED BY <1>4, <1>5, <1>6, <1>7 DEF t

-----------------------------------------------------------------------------
(* The invariant.                                                          *)

(***************************************************************************)
(* Before anyone has begun a session.                                      *)
(***************************************************************************)
LEMMA HandshakeInitOK == HandshakeInit => HInv
<1> SUFFICES ASSUME HandshakeInit PROVE HInv
  OBVIOUS
<1>1. PublishedOK
  <2>1. \A i, o : Bundle(i, o).spk_id = i
    BY DEF Bundle
  <2> QED BY <2>1 DEF HandshakeInit, Publications, PublishedOK
<1>2. Sessions = {}
  BY DEF HandshakeInit, Sessions
<1> QED BY <1>1, <1>2 DEF HandshakeInit, HInv, SessionsAgree

(***************************************************************************)
(* A bundle that was taken stays as it is: what is published stays so.     *)
(***************************************************************************)
LEMMA StartedStays ==
    ASSUME NEW a, StartedOK(a), published \subseteq published', initiated'[a] = initiated[a]
    PROVE  StartedOK(a)'
<1>1. BundleOK(a, initiated[a].bundle)
  BY DEF StartedOK
<1> DEFINE b == initiated[a].bundle
           t == Taken(a, b)
<1>2. b.identity_key.key = IdentityKey(Bob) => \E c \in published' : b.spk = c.spk
  BY <1>1 DEF BundleOK
<1> QED BY <1>1, <1>2 DEF StartedOK, BundleOK

(***************************************************************************)
(* What initiators and Bob have is never changed by what others do.        *)
(***************************************************************************)
LEMMA PublishStep ==
    ASSUME HInv, NEW next, published \subseteq published',
           published' \subseteq published \cup Publications(next),
           UNCHANGED <<initiated, initials, responded>>
    PROVE  HInv'
<1>1. PublishedOK'
  <2>1. \A i, o : Bundle(i, o).spk_id = i
    BY DEF Bundle
  <2> QED BY <2>1 DEF HInv, Publications, PublishedOK
<1>2. Sessions' = Sessions
  BY DEF Sessions
<1>3. \A a \in Sessions' : StartedOK(a)'
  BY <1>2, StartedStays DEF HInv
<1> QED BY <1>1, <1>2, <1>3 DEF HInv, SessionsAgree

(***************************************************************************)
(* An initiator takes a bundle, or refuses it.                             *)
(***************************************************************************)
LEMMA InitiateStep ==
    ASSUME NoneIsNoValue, HInv,
           NEW a \in Initiators, NEW bundle \in HandedOutTo(a), Initiate(a, bundle)
    PROVE  HInv'
<1>1. a \notin Sessions /\ DOMAIN initiated = Initiators
  BY DEF Initiate, Sessions, HInv
<1>2. \A i \in initials : i.from # a
  BY <1>1 DEF HInv
<1>3. PublishedOK' /\ responded' = responded /\ published' = published
  BY DEF HInv, Initiate, PublishedOK
<1>4. CASE Outcome(a, bundle) # "valid"
  <2> DEFINE s == [result |-> Outcome(a, bundle)]
  <2>1. initiated' = [initiated EXCEPT ![a] = s] /\ initials' = initials
    BY <1>4 DEF Initiate
  <2>2. s.result # "ok"
    BY OutcomeIsNotOk
  <2> HIDE DEF s
  <2>3. /\ \A b \in Sessions : initiated'[b] = initiated[b]
        /\ Sessions' = Sessions /\ DOMAIN initiated' = Initiators
    BY <1>1, <2>1, <2>2 DEF Sessions
  <2>4. \A b \in Sessions' : StartedOK(b)'
    BY <1>3, <2>3, StartedStays DEF HInv
  <2>5. SessionsAgree'
    BY <1>3, <2>3 DEF HInv, SessionsAgree
  <2> QED BY <1>3, <2>1, <2>3, <2>4, <2>5 DEF HInv
<1>5. CASE Outcome(a, bundle) = "valid"
  <2> DEFINE taken == Taken(a, bundle)
             sk == InitiatorSecret(InitiatorKey(a), EphemeralKey(a), taken)
             s == [bundle |-> bundle, taken |-> taken, result |-> "ok", sk |-> sk]
  <2>1. /\ initiated' = [initiated EXCEPT ![a] = s]
        /\ initials' = initials \cup {InitialOf(a, s)}
    BY <1>5 DEF Initiate, InitialOf
  <2>2. BundleOK(a, bundle)
    BY <1>5, AcceptedBundle DEF HInv
  <2>3. s # None /\ s.result = "ok" /\ s.bundle = bundle
    BY DEF NoneIsNoValue
  <2>4. s = [bundle |-> s.bundle, taken |-> Taken(a, s.bundle), result |-> "ok",
             sk |-> InitiatorSecret(InitiatorKey(a), EphemeralKey(a),
                                    Taken(a, s.bundle))]
    OBVIOUS
  <2> HIDE DEF s
  <2>5. /\ \A b \in Sessions : initiated'[b] = initiated[b]
        /\ initiated'[a] = s
        /\ Sessions' = Sessions \cup {a} /\ DOMAIN initiated' = Initiators
    BY <1>1, <2>1, <2>3 DEF Sessions
  <2>6. \A b \in Sessions' : StartedOK(b)'
    <3>1. StartedOK(a)'
      BY <1>3, <2>2, <2>3, <2>4, <2>5 DEF StartedOK, BundleOK
    <3>2. \A b \in Sessions : StartedOK(b)'
      BY <1>3, <2>5, StartedStays DEF HInv
    <3> QED BY <2>5, <3>1, <3>2
  <2>7. ASSUME NEW i \in initials'
        PROVE  i.from \in Sessions' /\ i = InitialOf(i.from, initiated'[i.from])
    <3>1. CASE i \in initials
      BY <2>5, <3>1 DEF HInv
    <3>2. CASE i = InitialOf(a, s)
      <4>1. i.from = a
        BY <3>2 DEF InitialOf
      <4> QED BY <2>5, <3>2, <4>1
    <3> QED BY <2>1, <3>1, <3>2
  <2>8. SessionsAgree'
    BY <1>3, <2>5 DEF HInv, SessionsAgree
  <2> QED BY <1>3, <2>5, <2>6, <2>7, <2>8 DEF HInv
<1> QED BY <1>4, <1>5

(***************************************************************************)
(* Bob's session: the first message opened, so its secret is that of the   *)
(* session that sent it.                                                   *)
(***************************************************************************)
LEMMA RespondStep ==
    ASSUME NoneIsNoValue, HInv, NEW i \in Arriving, Respond(i)
    PROVE  HInv'
<1>1. PICK j \in initials :
         /\ i.packet = j.packet
         /\ i.identity.key \in {InitiatorKey(j.from), OtherKey}
         /\ i.ephemeral.key \in {EphemeralKey(j.from), OtherKey}
  <2>1. ASSUME NEW j \in initials
        PROVE  /\ j.identity = EncodePublicKey(InitiatorKey(j.from))
               /\ j.ephemeral = EncodePublicKey(EphemeralKey(j.from))
               /\ DOMAIN j = {"from", "identity", "ephemeral", "spk_id", "opk_id", "packet"}
    BY DEF HInv, InitialOf
  <2>2. \A k : EncodePublicKey(k).key = k
    BY DEF EncodePublicKey
  <2>3. \A k \in BadKeys : k.key = OtherKey
    BY DEF BadKeys
  <2>4. CASE i \in initials
    BY <2>1, <2>2, <2>4
  <2>5. CASE \E j \in initials, k \in BadKeys : i = [j EXCEPT !.identity = k]
    BY <2>1, <2>2, <2>3, <2>5
  <2>6. CASE \E j \in initials, k \in BadKeys : i = [j EXCEPT !.ephemeral = k]
    BY <2>1, <2>2, <2>3, <2>6
  <2>7. CASE \E j \in initials, n \in 1 .. MaxSignedPreKeys, o \in OneTimePreKeys \cup {None} :
                i = WithIds(j, n, o)
    BY <2>1, <2>2, <2>7 DEF WithIds
  <2>8. \/ i \in initials
        \/ \E j \in initials, k \in BadKeys : i = [j EXCEPT !.identity = k]
        \/ \E j \in initials, k \in BadKeys : i = [j EXCEPT !.ephemeral = k]
        \/ \E j \in initials, n \in 1 .. MaxSignedPreKeys, o \in OneTimePreKeys \cup {None} :
              i = WithIds(j, n, o)
    <3> DEFINE S1 == {[j EXCEPT !.identity = k] : j \in initials, k \in BadKeys}
               S2 == {[j EXCEPT !.ephemeral = k] : j \in initials, k \in BadKeys}
               S3 == {WithIds(j, n, o) :
                         j \in initials, n \in 1 .. MaxSignedPreKeys,
                         o \in OneTimePreKeys \cup {None}}
    <3>1. Arriving = initials \cup S1 \cup S2 \cup S3
      BY DEF Arriving
    <3>2. i \in S1 => \E j \in initials, k \in BadKeys : i = [j EXCEPT !.identity = k]
      OBVIOUS
    <3>3. i \in S2 => \E j \in initials, k \in BadKeys : i = [j EXCEPT !.ephemeral = k]
      OBVIOUS
    <3>4. i \in S3 => \E j \in initials, n \in 1 .. MaxSignedPreKeys,
                        o \in OneTimePreKeys \cup {None} :
                          i = WithIds(j, n, o)
      OBVIOUS
    <3> HIDE DEF S1, S2, S3
    <3> QED BY <3>1, <3>2, <3>3, <3>4, Zenon
  <2> QED BY <2>4, <2>5, <2>6, <2>7, <2>8, Zenon
<1> DEFINE a == j.from
           s == initiated[a]
           r == [identity |-> i.identity.key, spk_id |-> i.spk_id, opk_id |-> i.opk_id,
                 sk |-> BobSecret(i), packet |-> i.packet]
<1>2. a \in Sessions /\ StartedOK(a) /\ j = InitialOf(a, s)
  BY DEF HInv
<1>3. i.packet = R!Packet(R!InitSenderState(s.sk, RatchetKey(a), s.bundle.spk.key))
  BY <1>1, <1>2 DEF InitialOf
<1>4. BobSecret(i) = s.sk
  BY <1>3, FirstMessageOpens DEF Respond, Opens
<1>5. /\ i.identity.key = InitiatorKey(a)
      /\ s.taken.identity_key.key = IdentityKey(Bob)
      /\ s.taken.spk.key = SignedPreKey(i.spk_id)
      /\ KeyIn(s.taken.opk) = OneTimeSecret(i.opk_id)
  <2>1. /\ BundleOK(a, s.bundle) /\ s.taken = Taken(a, s.bundle)
        /\ s.sk = InitiatorSecret(InitiatorKey(a), EphemeralKey(a), Taken(a, s.bundle))
    BY <1>2 DEF StartedOK
  <2>2. ResponderSecret(IdentityKey(Bob), SignedPreKey(i.spk_id), OneTimeSecret(i.opk_id),
                        i.identity, i.ephemeral)
          = InitiatorSecret(InitiatorKey(a), EphemeralKey(a), Taken(a, s.bundle))
    BY <1>4, <2>1 DEF BobSecret
  <2>3. /\ Taken(a, s.bundle).identity_key = s.bundle.identity_key
        /\ Taken(a, s.bundle).spk = s.bundle.spk
    BY <2>1 DEF BundleOK
  <2> HIDE DEF s
  <2> QED BY <1>1, <2>1, <2>2, <2>3, SecretsMeet
<1>6. /\ responded' = responded \cup {r}
      /\ UNCHANGED <<published, initiated, initials>>
  BY DEF Respond
<1>7. /\ r.identity = i.identity.key /\ r.sk = BobSecret(i)
      /\ r.spk_id = i.spk_id /\ r.opk_id = i.opk_id
  OBVIOUS
<1> HIDE DEF r
<1>8. Sessions' = Sessions
  BY <1>6 DEF Sessions
<1>9. SessionsAgree'
  BY <1>2, <1>4, <1>5, <1>6, <1>7, <1>8 DEF HInv, SessionsAgree
<1>10. \A b \in Sessions' : StartedOK(b)'
  BY <1>6, <1>8, StartedStays DEF HInv
<1> QED BY <1>6, <1>8, <1>9, <1>10 DEF HInv, PublishedOK

(***************************************************************************)
(* Every step of initiators, Bob, server and network keeps the invariant.  *)
(***************************************************************************)
LEMMA HandshakeNextOK ==
    NoneIsNoValue /\ HInv /\ [HandshakeNext]_handshakeVars => HInv'
<1> SUFFICES ASSUME NoneIsNoValue, HInv, [HandshakeNext]_handshakeVars PROVE HInv'
  OBVIOUS
<1>1. CASE RenewSignedPreKey
  BY <1>1, PublishStep DEF RenewSignedPreKey
<1>2. ASSUME NEW i \in 1 .. MaxSignedPreKeys, ForgetSignedPreKey(i) PROVE HInv'
  BY <1>2, PublishStep DEF ForgetSignedPreKey
<1>3. ASSUME NEW a \in Initiators, NEW bundle \in HandedOutTo(a), Initiate(a, bundle)
      PROVE  HInv'
  BY <1>3, InitiateStep
<1>4. ASSUME NEW i \in Arriving, Respond(i) PROVE HInv'
  BY <1>4, RespondStep
<1>5. CASE UNCHANGED handshakeVars
  BY <1>5, PublishStep DEF handshakeVars
<1>6. ASSUME NEW i \in Arriving, RespondRefused(i) PROVE HInv'
  BY <1>6, <1>5 DEF RespondRefused
<1> QED BY <1>1, <1>2, <1>3, <1>4, <1>5, <1>6 DEF HandshakeNext

(***************************************************************************)
(* The invariant holds whatever the server hands out and the network brings. *)
(***************************************************************************)
THEOREM HandshakeInvariance == NoneIsNoValue => (HandshakeSpec => []HInv)
<1> SUFFICES ASSUME NoneIsNoValue PROVE HandshakeSpec => []HInv
  OBVIOUS
<1>1. HInv /\ [HandshakeNext]_handshakeVars => HInv'
  BY HandshakeNextOK
<1> QED BY <1>1, HandshakeInitOK, PTL DEF HandshakeSpec

-----------------------------------------------------------------------------
(* The properties of Handshake that follow.                                *)

(***************************************************************************)
(* Mutual authentication: whoever Bob has a session with began it, with    *)
(* Bob, on the same one-time prekey, and holds the same secret.            *)
(***************************************************************************)
THEOREM BothAgree == NoneIsNoValue => (HandshakeSpec => []SessionsAgree)
<1>1. HInv => SessionsAgree
  BY DEF HInv
<1> QED BY <1>1, HandshakeInvariance, PTL

(***************************************************************************)
(* x3dh_initiator takes no signed prekey for Bob's but those that he has   *)
(* published, whatever parts of bundles the server puts together.          *)
(***************************************************************************)
THEOREM PreKeysAreSigned == NoneIsNoValue => (HandshakeSpec => []OnlySignedPreKeys)
<1>1. HInv => OnlySignedPreKeys
  BY DEF HInv, StartedOK, BundleOK, OnlySignedPreKeys
<1> QED BY <1>1, HandshakeInvariance, PTL

(***************************************************************************)
(* The secret of a session that was begun for Bob cannot be computed from  *)
(* the identity keys, the one-time prekeys and keys that are nobody's.     *)
(***************************************************************************)
THEOREM IdentitiesAreNotEnough ==
    NoneIsNoValue => (HandshakeSpec => []SecretsOutliveIdentities)
<1> SUFFICES ASSUME NoneIsNoValue PROVE HandshakeSpec => []SecretsOutliveIdentities
  OBVIOUS
<1>1. HInv => SecretsOutliveIdentities
  <2> SUFFICES ASSUME HInv, NEW a \in Sessions,
                      initiated[a].bundle.identity_key.key = IdentityKey(Bob),
                      NEW keys, keys = {InitiatorKey(a), IdentityKey(Bob), OtherKey}
                                          \cup {OneTimePreKey(o) : o \in OneTimePreKeys}
               PROVE  ~Computable(initiated[a].sk, keys)
    BY DEF SecretsOutliveIdentities
  <2> DEFINE b == initiated[a].bundle
  <2>1. /\ initiated[a].sk = InitiatorSecret(InitiatorKey(a), EphemeralKey(a), Taken(a, b))
        /\ BundleOK(a, b)
    <3>1. StartedOK(a)
      BY DEF HInv
    <3>2. initiated[a].sk = InitiatorSecret(InitiatorKey(a), EphemeralKey(a), Taken(a, b))
      BY <3>1 DEF StartedOK
    <3> QED BY <3>1, <3>2 DEF StartedOK
  <2>2. PICK i : b.spk.key = SignedPreKey(i)
    <3>1. PICK c \in published : b.spk = c.spk
      BY <2>1 DEF BundleOK
    <3>2. PICK i, o : c = Bundle(i, o)
      BY DEF HInv, PublishedOK
    <3> QED BY <3>1, <3>2 DEF Bundle, EncodePublicKey
  <2>3. Taken(a, b).spk = b.spk
    BY <2>1 DEF BundleOK
  <2> HIDE DEF b
  <2>4. initiated[a].sk[4] = {EphemeralKey(a), SignedPreKey(i)}
    BY <2>1, <2>2, <2>3 DEF InitiatorSecret, Kdf, DH
  <2>5. EphemeralKey(a) \notin keys /\ SignedPreKey(i) \notin keys
    BY DEF EphemeralKey, SignedPreKey, InitiatorKey, IdentityKey, OtherKey, OneTimePreKey
  <2>6. initiated[a].sk[4] # None
    BY <2>4 DEF NoneIsNoValue
  <2> QED BY <2>4, <2>5, <2>6 DEF Computable
<1>2. HandshakeSpec => []HInv
  BY HandshakeInvariance
<1> QED BY <1>1, <1>2, PTL

(***************************************************************************)
(* The ephemeral key makes the secret of every session its own.            *)
(***************************************************************************)
THEOREM NoSharedSecrets == NoneIsNoValue => (HandshakeSpec => []SecretsDiffer)
<1>1. HInv => SecretsDiffer
  <2> SUFFICES ASSUME HInv, NEW a \in Sessions, NEW b \in Sessions,
                      initiated[a].sk = initiated[b].sk
               PROVE  a = b
    BY DEF SecretsDiffer
  <2> DEFINE s == initiated[a]
             t == initiated[b]
             x == Taken(a, s.bundle).spk.key
             y == Taken(b, t.bundle).spk.key
  <2>1. /\ s.sk = InitiatorSecret(InitiatorKey(a), EphemeralKey(a), Taken(a, s.bundle))
        /\ t.sk = InitiatorSecret(InitiatorKey(b), EphemeralKey(b), Taken(b, t.bundle))
    <3>1. StartedOK(a) /\ StartedOK(b)
      BY DEF HInv
    <3>2. s.sk = InitiatorSecret(InitiatorKey(a), EphemeralKey(a), Taken(a, s.bundle))
      BY <3>1 DEF StartedOK
    <3>3. t.sk = InitiatorSecret(InitiatorKey(b), EphemeralKey(b), Taken(b, t.bundle))
      BY <3>1 DEF StartedOK
    <3> QED BY <3>2, <3>3
  <2>2. DH(EphemeralKey(a), x) = DH(EphemeralKey(b), y)
    <3>1. \A id, eph, c : InitiatorSecret(id, eph, c)[4] = DH(eph, c.spk.key)
      BY DEF InitiatorSecret, Kdf
    <3>2. s.sk = t.sk
      OBVIOUS
    <3> HIDE DEF s, t
    <3>3. s.sk[4] = DH(EphemeralKey(a), x)
      BY <2>1, <3>1
    <3>4. t.sk[4] = DH(EphemeralKey(b), y)
      BY <2>1, <3>1
    <3> QED BY <3>2, <3>3, <3>4
  <2>3. /\ \E i : x \in {SignedPreKey(i), OtherKey}
        /\ \E i : y \in {SignedPreKey(i), OtherKey}
    BY DEF HInv, StartedOK, BundleOK
  <2> HIDE DEF s, t, x, y
  <2>4. x # EphemeralKey(b) /\ y # EphemeralKey(a)
    BY <2>3 DEF SignedPreKey, OtherKey, EphemeralKey
  <2>5. EphemeralKey(a) = EphemeralKey(b)
    BY <2>2, <2>4 DEF DH
  <2> QED BY <2>5 DEF EphemeralKey
<1> QED BY <1>1, HandshakeInvariance, PTL

(***************************************************************************)
(* An initial message made from one of Bob's bundles opens while he has    *)
(* the keys that it names.                                                 *)
(***************************************************************************)
THEOREM HonestStartsOpen == NoneIsNoValue => (HandshakeSpec => []HonestInitialOpens)
<1> SUFFICES ASSUME NoneIsNoValue PROVE HandshakeSpec => []HonestInitialOpens
  OBVIOUS
<1>1. HInv => HonestInitialOpens
  <2> SUFFICES ASSUME HInv,
                      NEW i \in initials, initiated[i.from].bundle \in published
               PROVE  Opens(i)
    BY DEF HonestInitialOpens
  <2> DEFINE a == i.from
             b == initiated[a].bundle
             n == b.spk_id
             o == b.opk_id
             sk == InitiatorSecret(InitiatorKey(a), EphemeralKey(a), Taken(a, b))
  <2>1. /\ initiated[a].sk = sk
        /\ i.identity.key = InitiatorKey(a) /\ i.ephemeral.key = EphemeralKey(a)
        /\ i.spk_id = n /\ i.opk_id = o
        /\ i.packet = R!Packet(R!InitSenderState(initiated[a].sk, RatchetKey(a), b.spk.key))
    <3>1. StartedOK(a) /\ i = InitialOf(a, initiated[a])
      BY DEF HInv
    <3>2. initiated[a].sk = sk
      BY <3>1 DEF StartedOK
    <3>3. /\ i.identity = EncodePublicKey(InitiatorKey(a))
          /\ i.ephemeral = EncodePublicKey(EphemeralKey(a))
          /\ i.spk_id = n /\ i.opk_id = o
          /\ i.packet = R!Packet(R!InitSenderState(initiated[a].sk, RatchetKey(a), b.spk.key))
      BY <3>1 DEF InitialOf
    <3> HIDE DEF a, b, sk
    <3> QED BY <3>2, <3>3 DEF EncodePublicKey
  <2>2. b = Bundle(n, b.opk_id)
    <3>1. PICK z : b = Bundle(n, z)
      BY DEF HInv, PublishedOK
    <3>2. b.opk_id = z
      BY <3>1 DEF Bundle
    <3> QED BY <3>1, <3>2
  <2> HIDE DEF a, b, n, o
  <2>3. /\ b.spk.key = SignedPreKey(n) /\ b.identity_key.key = IdentityKey(Bob)
        /\ b.opk = IF o = None THEN None ELSE EncodePublicKey(OneTimePreKey(o))
        /\ b.opk # None => b.opk.encoding = "point" /\ b.opk.key = OneTimePreKey(o)
        /\ (b.opk = None) <=> (o = None)
    BY <2>2 DEF Bundle, EncodePublicKey, NoneIsNoValue, o
  <2>4. Taken(a, b) = b
    BY <2>3 DEF Taken, AndroidTakes, HasLength
  <2>5. BobSecret(i) = sk
    <3> DEFINE own == OneTimeSecret(o)
    <3>1. /\ DH(SignedPreKey(n), InitiatorKey(a)) = DH(InitiatorKey(a), b.spk.key)
          /\ DH(IdentityKey(Bob), EphemeralKey(a)) = DH(EphemeralKey(a), b.identity_key.key)
          /\ DH(SignedPreKey(n), EphemeralKey(a)) = DH(EphemeralKey(a), b.spk.key)
      BY <2>3 DEF DH
    <3>2. DH4(own, EphemeralKey(a)) =
             IF b.opk = None THEN None ELSE DH4(EphemeralKey(a), b.opk.key)
      BY <2>3 DEF DH4, DH, OneTimeSecret
    <3>3. sk = Kdf(DH(InitiatorKey(a), b.spk.key),
                   DH(EphemeralKey(a), b.identity_key.key),
                   DH(EphemeralKey(a), b.spk.key),
                   IF b.opk = None THEN None ELSE DH4(EphemeralKey(a), b.opk.key))
      BY <2>4 DEF InitiatorSecret
    <3>4. BobSecret(i) = Kdf(DH(SignedPreKey(n), InitiatorKey(a)),
                             DH(IdentityKey(Bob), EphemeralKey(a)),
                             DH(SignedPreKey(n), EphemeralKey(a)),
                             DH4(own, EphemeralKey(a)))
      BY <2>1 DEF BobSecret, ResponderSecret
    <3> QED BY <3>1, <3>2, <3>3, <3>4
  <2> HIDE DEF sk
  <2> QED BY <2>1, <2>3, <2>5, FirstMessageOpens DEF Opens
<1>2. HandshakeSpec => []HInv
  BY HandshakeInvariance
<1> QED BY <1>1, <1>2, PTL

=============================================================================
