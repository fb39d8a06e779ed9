------------------------------ MODULE Session ------------------------------
(***************************************************************************)
(* Two parties and the network between them.  Alice starts from            *)
(* init_sender_state, Bob from init_receiver_state; both call encrypt and  *)
(* decrypt of src/src/ratchet.rs in any order.                             *)
(*                                                                         *)
(* A message that was sent stays on the network, so it can be lost (never  *)
(* decrypted), duplicated (decrypted again), reordered (decrypted late),   *)
(* damaged, or handed to its own sender.                                   *)
(***************************************************************************)
EXTENDS Ratchet

CONSTANTS
    Alice,
    Bob,
    MaxSends,           \* bound: how often each party calls encrypt
    MaxFailedSends      \* bound: how often a chain key advances in vain

ASSUME PartyAssumption ==
    /\ Alice # Bob
    /\ MaxSends \in [{Alice, Bob} -> Nat]
    /\ MaxFailedSends \in Nat

VARIABLES
    state,      \* the RatchetState of each party
    handed      \* for each message sent, how often decrypt returned its plaintext

vars == <<state, handed>>

Party == {Alice, Bob}
Peer(p) == IF p = Alice THEN Bob ELSE Alice

Sent == DOMAIN handed
Sender(m) == IF m.nonce.is_sender THEN Alice ELSE Bob
SentBy(p) == {m \in Sent : Sender(m) = p}

(***************************************************************************)
(* Key pairs: the k-th of a party.  Bob's 0th is the signed prekey that    *)
(* X3DH hands to both init functions.                                      *)
(***************************************************************************)
Key(p, k) == <<p, k>>
FreshKey(p) == Key(p, state[p].dh_pair[2] + 1)

Init ==
    /\ state = [p \in Party |->
                  IF p = Alice
                  THEN InitSenderState(SharedSecret, Key(Alice, 1), Key(Bob, 0))
                  ELSE InitReceiverState(SharedSecret, Key(Bob, 0))]
    /\ handed = [m \in {} |-> 0]

-----------------------------------------------------------------------------
(* encrypt, one action per way out.                                        *)

MaySend(p) == Cardinality(SentBy(p)) < MaxSends[p]

EncryptRefused(p, ad) ==
    /\ EncryptError(state[p], ad) # None
    /\ UNCHANGED vars

Encrypt(p) ==
    /\ MaySend(p)
    /\ EncryptError(state[p], "fits") = None
    /\ ~NumberOverflows(state[p])
    /\ ~NonceOverflows(state[p])
    /\ state' = [state EXCEPT ![p] = AfterEncrypt(@)]
    /\ handed' = [m \in Sent \cup {Packet(state[p])} |-> IF m \in Sent THEN handed[m] ELSE 0]

(***************************************************************************)
(* CounterOverflow of ns: the chain key has moved.                         *)
(***************************************************************************)
EncryptNumberOverflow(p) ==
    /\ EncryptError(state[p], "fits") = None
    /\ NumberOverflows(state[p])
    /\ state[p].ck_s[2] < state[p].ns + MaxFailedSends
    /\ state' = [state EXCEPT ![p] = ChainAdvanced(@)]
    /\ UNCHANGED handed

(***************************************************************************)
(* CounterOverflow in encrypt_header: the chain key and ns have moved.     *)
(***************************************************************************)
EncryptNonceOverflow(p) ==
    /\ EncryptError(state[p], "fits") = None
    /\ ~NumberOverflows(state[p])
    /\ NonceOverflows(state[p])
    /\ state' = [state EXCEPT ![p] = Numbered(@)]
    /\ UNCHANGED handed

-----------------------------------------------------------------------------
(* decrypt, one action per way out that changes state.                     *)

Hand(m) == handed' = [handed EXCEPT ![m] = @ + 1]

(***************************************************************************)
(* Every error up to the authentication of the body.                       *)
(***************************************************************************)
DecryptRefused(p, m, fault) ==
    /\ DecryptError(state[p], m, fault) # None
    /\ UNCHANGED vars

DecryptWithSkippedKey(p, m) ==
    /\ SkippedKeyOpens(state[p], m, "none")
    /\ state' = [state EXCEPT ![p] = WithoutSkippedKey(@, m)]
    /\ Hand(m)

(***************************************************************************)
(* Step 6 is reached: the message is authentic.                            *)
(***************************************************************************)
Authentic(p, m) ==
    /\ ~SkippedKeyOpens(state[p], m, "none")
    /\ DecryptError(state[p], m, "none") = None

(***************************************************************************)
(* The commit fails at its first step.                                     *)
(***************************************************************************)
DecryptLosesSkippedKeys(p, m) ==
    /\ Authentic(p, m)
    /\ PreviousChainRefused(state[p], m)
    /\ state' = [state EXCEPT ![p] = SkippedKeysLost(@)]
    /\ UNCHANGED handed

(***************************************************************************)
(* TooManyMessages: the commit has been made, the plaintext is dropped.    *)
(***************************************************************************)
DecryptTooMany(p, m, fresh) ==
    /\ Authentic(p, m)
    /\ ~PreviousChainRefused(state[p], m)
    /\ LET next == Committed(state[p], m, fresh)
       IN  /\ ReceivedFull(next)
           /\ state' = [state EXCEPT ![p] = next]
    /\ UNCHANGED handed

DecryptOnChain(p, m, fresh) ==
    /\ Authentic(p, m)
    /\ ~PreviousChainRefused(state[p], m)
    /\ LET next == Committed(state[p], m, fresh)
       IN  /\ ~ReceivedFull(next)
           /\ state' = [state EXCEPT ![p] = Tracked(next, m)]
    /\ Hand(m)

-----------------------------------------------------------------------------
Decrypt(p, m) ==
    \/ DecryptWithSkippedKey(p, m)
    \/ DecryptLosesSkippedKeys(p, m)
    \/ DecryptTooMany(p, m, FreshKey(p))
    \/ DecryptOnChain(p, m, FreshKey(p))

Next ==
    \/ \E p \in Party :
          \/ Encrypt(p)
          \/ \E ad \in AdSizes : EncryptRefused(p, ad)
          \/ EncryptNumberOverflow(p)
          \/ EncryptNonceOverflow(p)
    \/ \E p \in Party, m \in Sent :
          \/ Decrypt(p, m)
          \/ \E fault \in Faults : DecryptRefused(p, m, fault)

Spec == Init /\ [][Next]_vars

-----------------------------------------------------------------------------
(* Properties.                                                             *)

(***************************************************************************)
(* The fields of a session and of the messages on the network, the parts   *)
(* that the actions rely on when they take values apart.                   *)
(***************************************************************************)
SessionFields ==
    {"dh_pair", "dh_remote", "rk", "ck_s", "ck_r", "hk_s", "hk_r", "nhk_s",
     "nhk_r", "ns", "nr", "pn", "mkskipped", "header_nonce_counter",
     "is_sender", "received_messages"}

SessionTypeOK(s) ==
    /\ DOMAIN s = SessionFields
    /\ s.ns \in 0 .. MaxCounter
    /\ s.nr \in Nat
    /\ s.pn \in 0 .. MaxCounter
    /\ s.header_nonce_counter \in 0 .. MaxNonce

PacketTypeOK(m) ==
    /\ DOMAIN m = {"hk", "nonce", "dh_pub", "pn", "n", "mk"}
    /\ m.nonce \in [is_sender : BOOLEAN, counter : Nat]
    /\ m.n \in Nat
    /\ m.pn \in Nat

TypeOK ==
    /\ DOMAIN state = Party
    /\ \A p \in Party :
          SessionTypeOK(state[p]) /\ state[p].is_sender = (p = Alice)
    /\ \A m \in Sent : PacketTypeOK(m) /\ handed[m] \in Nat

(***************************************************************************)
(* No (key, nonce) pair of AES-GCM is used for two headers, across both    *)
(* parties and all ratchets: the nonce of encrypt_header is a counter that *)
(* is never reset, next to the role of the sender.                         *)
(***************************************************************************)
HeaderNoncesUnique ==
    /\ \A m1, m2 \in Sent : m1.nonce = m2.nonce => m1 = m2
    /\ \A p \in Party :
          Cardinality(SentBy(p)) = state[p].header_nonce_counter

(***************************************************************************)
(* No message key encrypts two bodies: encrypt_aead derives its IV from    *)
(* the message key alone.                                                  *)
(***************************************************************************)
MessageKeysUnique == \A m1, m2 \in Sent : m1.mk = m2.mk => m1 = m2

(***************************************************************************)
(* The two sessions stay in step, whatever was lost or reordered.  One     *)
(* party leads by one DH ratchet: its root key is one derivation ahead,    *)
(* the header keys of each direction meet, its receiving chain is the      *)
(* other's sending chain, and no party counts more messages of a chain as  *)
(* received than the other has numbered.  This is what makes the next DH   *)
(* ratchet of commit_state_changes agree on both sides.                    *)
(***************************************************************************)
Leads(l, o) ==
    LET kdf == KdfRkHe(o.rk, DH(l.dh_pair, o.dh_pair))
    IN  /\ l.dh_remote = o.dh_pair
        /\ l.rk = kdf.rk
        /\ l.nhk_s = kdf.nhk
        /\ l.ck_s # None /\ l.ck_s[1] = kdf.ck[1] /\ l.ck_s[2] >= l.ns
        /\ l.hk_s = o.nhk_r
        /\ l.hk_r = o.hk_s
        /\ l.nhk_r = o.nhk_s
        /\ (l.ck_r = None) <=> (o.ck_s = None)
        /\ l.ck_r # None => l.ck_r = <<o.ck_s[1], l.nr>>
        /\ l.nr <= o.ns
        /\ o.nr <= l.pn

InStep == \E l \in Party : Leads(state[l], state[Peer(l)])

(***************************************************************************)
(* DH ratchets take turns: a party moves its root key only when the other  *)
(* one leads, leads itself from then on, and the other session does not    *)
(* move in that step.  A late or repeated header never ratchets twice.     *)
(***************************************************************************)
RatchetsTakeTurns ==
    [][\A p \in Party :
          state'[p].rk # state[p].rk =>
              /\ Leads(state[Peer(p)], state[p])
              /\ Leads(state[p], state[Peer(p)])'
              /\ state'[Peer(p)] = state[Peer(p)]]_vars

(***************************************************************************)
(* A stored key is the key of the message it is stored for, so that trying *)
(* stored keys first never opens a message with another one's key.         *)
(***************************************************************************)
SkippedKeysGenuine ==
    \A p \in Party : \A k \in DOMAIN state[p].mkskipped : \A m \in Sent :
        k = <<m.hk, m.n>> => /\ state[p].mkskipped[k].mk = m.mk
                             /\ Sender(m) = Peer(p)

(***************************************************************************)
(* The store of skipped keys never exceeds MAX_SKIPPED_KEYS, however the   *)
(* two calls of skip_message_keys in one commit add up.                    *)
(***************************************************************************)
SkippedKeysBounded ==
    \A p \in Party : Cardinality(DOMAIN state[p].mkskipped) <= MaxSkippedKeys

(***************************************************************************)
(* The commit that follows a successful authentication cannot fail in its  *)
(* second half, after the DH ratchet: what compute_message_key let through *)
(* skip_message_keys lets through too, and ns and nr stay below u32::MAX.  *)
(* This is why Session has no action for those three returns.              *)
(***************************************************************************)
CommitCannotFailHalfway ==
    \A p \in Party, m \in Sent :
        Authentic(p, m) => /\ SkipAllowed(ReceivingFrom(state[p], m).nr, m.n)
                           /\ ReceivingFrom(state[p], m).nr < MaxCounter

(***************************************************************************)
(* A message handed back to its sender is refused at its header: the two   *)
(* directions never share a header key.                                    *)
(***************************************************************************)
ReflectionRefused ==
    \A m \in Sent :
        DecryptError(state[Sender(m)], m, "none") = "HeaderDecryptionFailed"

(***************************************************************************)
(* decrypt says DuplicateMessage only of a message it has decrypted.       *)
(***************************************************************************)
DuplicatesWereHanded ==
    \A m \in Sent :
        DecryptError(state[Peer(Sender(m))], m, "none") = "DuplicateMessage"
            => handed[m] > 0

(***************************************************************************)
(* Within the limits, no message is stranded: one that was sent and not    *)
(* yet decrypted can be decrypted, however late it comes and whichever DH  *)
(* ratchets came first.                                                    *)
(***************************************************************************)
NoMessageStranded ==
    \A m \in Sent :
        handed[m] = 0 =>
            LET p == Peer(Sender(m))
            IN  /\ DecryptError(state[p], m, "none") = None
                /\ \/ SkippedKeyOpens(state[p], m, "none")
                   \/ ~PreviousChainRefused(state[p], m)

(***************************************************************************)
(* Liveness.  The library schedules nothing: that every message is brought *)
(* to decrypt until it has been decrypted is up to the hosts, which is the *)
(* fairness assumed.  Under it every message sent is decrypted, in any     *)
(* order of arrival, with any number of duplicates in between.             *)
(***************************************************************************)
Deliver(p) ==
    \E m \in Sent : Sender(m) = Peer(p) /\ handed[m] = 0 /\ Decrypt(p, m)

FairSpec == Spec /\ \A p \in Party : WF_vars(Deliver(p))

AllDelivered == <>[](\A m \in Sent : handed[m] > 0)

-----------------------------------------------------------------------------
(* What the documents and comments of the repository say of the code, and  *)
(* the code does not do.                                                   *)

(***************************************************************************)
(* A message is decrypted once: "Duplicate message should be rejected".    *)
(***************************************************************************)
AtMostOnce == \A m \in Sent : handed[m] <= 1

(***************************************************************************)
(* Commits are atomic: a decrypt that returns an error (no message enters  *)
(* the network, none is handed over) leaves the session as it was.         *)
(***************************************************************************)
ErrorsChangeNothing == [][handed' = handed => state' = state]_vars

(***************************************************************************)
(* Forward secrecy: the session does not hold, and its receiving chain key *)
(* does not lead to, the key of a message that has been decrypted.         *)
(***************************************************************************)
HandedKeysForgotten ==
    \A m \in Sent :
        handed[m] > 0 =>
            LET s == state[Peer(Sender(m))]
            IN  /\ \A k \in DOMAIN s.mkskipped : s.mkskipped[k].mk # m.mk
                /\ s.ck_r # None =>
                     \A i \in 0 .. m.n : m.mk # KdfCk(KdfCkIter(s.ck_r, i)).mk

=============================================================================
