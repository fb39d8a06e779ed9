------------------------------ MODULE Ratchet ------------------------------
(***************************************************************************)
(* One party's Double Ratchet session (src/src/ratchet.rs): its state, a   *)
(* record with the fields of RatchetState, and what encrypt and decrypt    *)
(* make of it.  Session.tla turns these operators into actions.            *)
(***************************************************************************)
EXTENDS SkippedKeys

CONSTANTS
    MaxReceived,        \* MAX_RECEIVED_TRACKING
    MaxCounter,         \* the largest message number, u32::MAX
    MaxNonce            \* the largest header nonce, u64::MAX

ASSUME LimitAssumption ==
    /\ MaxReceived \in Nat \ {0}
    /\ MaxCounter \in Nat
    /\ MaxNonce \in Nat

(***************************************************************************)
(* RatchetError, as far as encrypt and decrypt return before they change   *)
(* any state.                                                              *)
(***************************************************************************)
Errors ==
    {"InvalidState", "ADTooLarge", "HeaderDecryptionFailed", "DuplicateMessage",
     "OldMessageKeysLimitReached", "DecryptionFailed"}

ASSUME ErrorAssumption == None \notin Errors

-----------------------------------------------------------------------------
(* The two ways to start a session.                                        *)

InitSenderState(sk, own, remote) ==
    LET kdf == KdfRkHe(sk, DH(own, remote))
    IN  [dh_pair |-> own, dh_remote |-> remote, rk |-> kdf.rk,
         ck_s |-> kdf.ck, ck_r |-> None,
         hk_s |-> InitiatorHeaderKey(sk), hk_r |-> None,
         nhk_s |-> kdf.nhk, nhk_r |-> ResponderHeaderKey(sk),
         ns |-> 0, nr |-> 0, pn |-> 0, mkskipped |-> EmptyStore,
         header_nonce_counter |-> 0, is_sender |-> TRUE,
         received_messages |-> {}]

InitReceiverState(sk, own) ==
    [dh_pair |-> own, dh_remote |-> None, rk |-> sk,
     ck_s |-> None, ck_r |-> None,
     hk_s |-> None, hk_r |-> None,
     nhk_s |-> ResponderHeaderKey(sk), nhk_r |-> InitiatorHeaderKey(sk),
     ns |-> 0, nr |-> 0, pn |-> 0, mkskipped |-> EmptyStore,
     header_nonce_counter |-> 0, is_sender |-> FALSE,
     received_messages |-> {}]

-----------------------------------------------------------------------------
(* encrypt.                                                                *)

(***************************************************************************)
(* validate_encryption_state.                                              *)
(***************************************************************************)
ValidForEncryption(s) == None \notin {s.ck_s, s.hk_s, s.dh_remote}

(***************************************************************************)
(* The errors with which encrypt returns before it changes any state; ad   *)
(* says whether the caller's associated data fits in MAX_AD_SIZE.          *)
(***************************************************************************)
AdSizes == {"fits", "oversize"}

EncryptError(s, ad) ==
    IF ~ValidForEncryption(s)   THEN "InvalidState"
    ELSE IF ad = "oversize"     THEN "ADTooLarge"
    ELSE None

(***************************************************************************)
(* encrypt_header: the nonce, a counter next to the role of the party.     *)
(***************************************************************************)
HeaderNonce(s) == [is_sender |-> s.is_sender, counter |-> s.header_nonce_counter]

(***************************************************************************)
(* A message on the wire.  The header (dh_pub, pn, n) opens only under hk, *)
(* the body only under mk, which authenticates the associated data and the *)
(* encrypted header with it.  The nonce is unencrypted.                    *)
(***************************************************************************)
Packet(s) ==
    [hk |-> s.hk_s, nonce |-> HeaderNonce(s),
     dh_pub |-> s.dh_pair, pn |-> s.pn, n |-> s.ns,
     mk |-> KdfCk(s.ck_s).mk]

(***************************************************************************)
(* The steps of encrypt in the order in which they reach the state.  An    *)
(* overflow returns between two of them and keeps what was done so far.    *)
(***************************************************************************)
ChainAdvanced(s) == [s EXCEPT !.ck_s = KdfCk(@).ck]

\* Mutation: the new chain key is not kept.
NumberedOnly(s) == [s EXCEPT !.ns = @ + 1]

Numbered(s) == [ChainAdvanced(s) EXCEPT !.ns = @ + 1]

\* Mutation: the nonce counter wraps.
AfterEncryptWrapping(s) ==
    [Numbered(s) EXCEPT !.header_nonce_counter = (@ + 1) % MaxNonce]

AfterEncrypt(s) == [Numbered(s) EXCEPT !.header_nonce_counter = @ + 1]

NumberOverflows(s) == s.ns = MaxCounter

\* Mutation: no checked addition for the nonce.
NonceUnchecked(s) == FALSE

NonceOverflows(s) == s.header_nonce_counter = MaxNonce

-----------------------------------------------------------------------------
(* decrypt.                                                                *)

(***************************************************************************)
(* What can be wrong with what the caller of decrypt passes in: a damaged  *)
(* encrypted header, a damaged ciphertext (or the wrong associated data),  *)
(* associated data beyond MAX_AD_SIZE.                                     *)
(***************************************************************************)
Faults == {"none", "header", "body", "oversize"}

(***************************************************************************)
(* decrypt_header_with_key and decrypt_aead: header and body open under    *)
(* the key they were sealed with, and only undamaged.                      *)
(***************************************************************************)
HeaderDecrypts(hk, m, fault) == fault # "header" /\ hk = m.hk

BodyDecrypts(mk, m, fault) == fault \notin {"header", "body"} /\ mk = m.mk

(***************************************************************************)
(* try_skipped_message_keys: some stored key opens header and body.        *)
(***************************************************************************)
SkippedKeyOpens(s, m, fault) ==
    /\ <<m.hk, m.n>> \in DOMAIN s.mkskipped
    /\ HeaderDecrypts(m.hk, m, fault)
    /\ BodyDecrypts(s.mkskipped[<<m.hk, m.n>>].mk, m, fault)

WithoutSkippedKey(s, m) ==
    [s EXCEPT !.mkskipped = Restrict(@, DOMAIN @ \ {<<m.hk, m.n>>})]

(***************************************************************************)
(* decrypt_header: the current header key first, then the next one, which  *)
(* announces a DH ratchet.                                                 *)
(***************************************************************************)
HeaderOpens(s, m, fault) == \E hk \in {s.hk_r, s.nhk_r} : HeaderDecrypts(hk, m, fault)

DhRatchetNeeded(s, m) == m.hk # s.hk_r

\* Mutation: messages tracked by chain only.
ChainId(m) == <<m.dh_pub, 0>>

MessageId(m) == <<m.dh_pub, m.n>>

(***************************************************************************)
(* compute_message_key: nr + MAX_SKIP is a u32 addition, which wraps in a  *)
(* release build.  A number below nr is not looked for: the key at nr is   *)
(* what comes out.                                                         *)
(***************************************************************************)
ReceivingFrom(s, m) ==
    IF DhRatchetNeeded(s, m)
    THEN [ck |-> KdfRkHe(s.rk, DH(s.dh_pair, m.dh_pub)).ck, nr |-> 0]
    ELSE [ck |-> s.ck_r, nr |-> s.nr]

\* Mutation: one key too many.
BeyondSkipLimitByTwo(s, m) ==
    (ReceivingFrom(s, m).nr + MaxSkip + 1) % (MaxCounter + 1) < m.n

BeyondSkipLimit(s, m) ==
    (ReceivingFrom(s, m).nr + MaxSkip) % (MaxCounter + 1) < m.n

ComputeMessageKey(s, m) ==
    LET at == ReceivingFrom(s, m)
    IN  KdfCk(KdfCkIter(at.ck, IF m.n > at.nr THEN m.n - at.nr ELSE 0)).mk

(***************************************************************************)
(* The error with which decrypt returns before it changes any state, None  *)
(* if it gets as far as step 6 or finds the message among the skipped      *)
(* ones.                                                                   *)
(***************************************************************************)
DecryptError(s, m, fault) ==
    IF fault = "oversize"                           THEN "ADTooLarge"
    ELSE IF SkippedKeyOpens(s, m, fault)            THEN None
    ELSE IF ~HeaderOpens(s, m, fault)               THEN "HeaderDecryptionFailed"
    ELSE IF MessageId(m) \in s.received_messages    THEN "DuplicateMessage"
    ELSE IF BeyondSkipLimit(s, m)                   THEN "OldMessageKeysLimitReached"
    ELSE IF ~BodyDecrypts(ComputeMessageKey(s, m), m, fault)
                                                    THEN "DecryptionFailed"
    ELSE None

(***************************************************************************)
(* commit_state_changes, the DH ratchet.  Its first act is to move the     *)
(* skipped keys out of the state and to return if the rest of the previous *)
(* chain cannot be stored.                                                 *)
(***************************************************************************)
PreviousChainRefused(s, m) ==
    /\ DhRatchetNeeded(s, m)
    /\ s.ck_r # None
    /\ ~SkipAllowed(s.nr, m.pn)

SkippedKeysLost(s) == [s EXCEPT !.mkskipped = EmptyStore]

\* Mutations: the previous chain is forgotten; one key too many is stored.
PreviousChainForgotten(s, m) == s.mkskipped

PreviousChainAndOne(s, m) ==
    IF s.ck_r = None THEN s.mkskipped
    ELSE SkipMessageKeys(s.mkskipped, s.ck_r, s.hk_r, s.nr, m.pn + 1)

PreviousChainStored(s, m) ==
    IF s.ck_r = None THEN s.mkskipped
    ELSE SkipMessageKeys(s.mkskipped, s.ck_r, s.hk_r, s.nr, m.pn)

\* Mutations: both derivations start from the old root key; the new key pair
\* is left out; both chains get the key of the first derivation.
DerivedInParallel(s, m, fresh) ==
    [recv |-> KdfRkHe(s.rk, DH(s.dh_pair, m.dh_pub)),
     send |-> KdfRkHe(s.rk, DH(fresh, m.dh_pub))]

DerivedFromOldPair(s, m, fresh) ==
    LET recv == KdfRkHe(s.rk, DH(s.dh_pair, m.dh_pub))
    IN  [recv |-> recv, send |-> KdfRkHe(recv.rk, DH(s.dh_pair, m.dh_pub))]

DerivedOnce(s, m, fresh) ==
    LET recv == KdfRkHe(s.rk, DH(s.dh_pair, m.dh_pub))
    IN  [recv |-> recv, send |-> recv]

(***************************************************************************)
(* Two derivations: the receiving chain from the old key pair, the sending *)
(* chain from the new one.                                                 *)
(***************************************************************************)
Derived(s, m, fresh) ==
    LET recv == KdfRkHe(s.rk, DH(s.dh_pair, m.dh_pub))
    IN  [recv |-> recv, send |-> KdfRkHe(recv.rk, DH(fresh, m.dh_pub))]

DhRatchet(s, m, fresh) ==
    LET recv == Derived(s, m, fresh).recv
        send == Derived(s, m, fresh).send
    IN  [s EXCEPT
           !.mkskipped = PreviousChainStored(s, m),
           !.pn = s.ns, !.ns = 0, !.nr = 0,
           !.hk_s = s.nhk_s, !.hk_r = s.nhk_r,
           !.dh_remote = m.dh_pub, !.dh_pair = fresh,
           !.rk = send.rk, !.ck_r = recv.ck, !.ck_s = send.ck,
           !.nhk_r = recv.nhk, !.nhk_s = send.nhk,
           !.received_messages = {}]

(***************************************************************************)
(* commit_state_changes, the rest: the keys up to the message are stored,  *)
(* and the receiving chain moves by one step.                              *)
(***************************************************************************)
Ratcheted(s, m, fresh) ==
    IF DhRatchetNeeded(s, m) THEN DhRatchet(s, m, fresh) ELSE s

\* Mutation: the message's own key is stored, too.
GapAndMessageStored(r, m) == SkipMessageKeys(r.mkskipped, r.ck_r, r.hk_r, r.nr, m.n + 1)

GapStored(r, m) == SkipMessageKeys(r.mkskipped, r.ck_r, r.hk_r, r.nr, m.n)

\* Mutations: the number jumps to the message, the chain key does not; the
\* chain key stays.
NumberJumps(r, m) == [r EXCEPT !.ck_r = KdfCk(@).ck, !.nr = m.n + 1]

ChainKeyStays(r, m) == [r EXCEPT !.nr = @ + 1]

Advanced(r, m) == [r EXCEPT !.ck_r = KdfCk(@).ck, !.nr = @ + 1]

Committed(s, m, fresh) ==
    LET r == Ratcheted(s, m, fresh)
    IN  [Advanced(r, m) EXCEPT !.mkskipped = GapStored(r, m)]

ReceivedFull(s) == Cardinality(s.received_messages) >= MaxReceived

Tracked(s, m) == [s EXCEPT !.received_messages = @ \cup {MessageId(m)}]

=============================================================================
