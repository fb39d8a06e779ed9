------------------------------ MODULE Handshake ------------------------------
(***************************************************************************)
(* From published prekeys to the first message of a session, as the hosts  *)
(* of src/tests/e2e_x3dh_ratchet.rs go through it: Bob publishes a signed  *)
(* prekey and one-time prekeys, initiators fetch a bundle, run             *)
(* x3dh_initiator and init_sender_state and send an initial message; Bob   *)
(* runs x3dh_responder and init_receiver_state on it and decrypts.         *)
(*                                                                         *)
(* The prekey server and the network are the environment.  The server may  *)
(* hand out an old bundle, the same one-time prekey twice, a bundle put    *)
(* together from parts of others, or an altered one; an initial message    *)
(* may be repeated, late, or altered.  That Bob renews his signed prekey   *)
(* and deletes a one-time prekey with the first message it opened is what  *)
(* the library leaves to its host.                                         *)
(***************************************************************************)
EXTENDS X3DH

CONSTANTS
    Initiators,         \* one per session that is begun
    Owner,              \* whose identity key an initiator has
    Android,            \* the initiators that use the Android interface
    MaxSignedPreKeys,   \* bound: how often Bob renews his signed prekey
    OneTimePreKeys,     \* bound: the one-time prekeys Bob publishes
    MaxSkip, MaxSkippedKeys, MaxReceived, MaxCounter, MaxNonce

ASSUME AndroidAssumption == Android \subseteq Initiators

ASSUME WidthAssumption == MaxSkip \in Nat /\ MaxCounter \in Nat

R == INSTANCE Ratchet

VARIABLES
    prekeys,    \* Bob's private prekeys: [signed |-> ids, oneTime |-> ids]
    published,  \* the bundles that the server has, past ones included
    initiated,  \* what each initiator has: None, an error, or a session
    initials,   \* the initial messages on the network
    responded   \* Bob's sessions, one per initial message that opened

handshakeVars == <<prekeys, published, initiated, initials, responded>>

(***************************************************************************)
(* Key pairs, by their owner and purpose.  Mallory's is one that is no     *)
(* participant's.                                                          *)
(***************************************************************************)
IdentityKey(p)      == <<"identity", p>>
InitiatorKey(a)     == IdentityKey(Owner[a])
SignedPreKey(i)     == <<"spk", i>>
OneTimePreKey(i)    == <<"opk", i>>
EphemeralKey(p)     == <<"ephemeral", p>>
RatchetKey(p)       == <<"ratchet", p>>
OtherKey            == <<"other", "key">>

Bob == "bob"

(***************************************************************************)
(* An Option of a key: Bob's one-time prekey o, or the key that was sent.  *)
(***************************************************************************)
OneTimeSecret(o) == IF o = None THEN None ELSE OneTimePreKey(o)
KeyIn(pk)        == IF pk = None THEN None ELSE pk.key

(***************************************************************************)
(* The bundle for signed prekey i and one-time prekey o.                   *)
(***************************************************************************)
Bundle(i, o) ==
    LET spk == EncodePublicKey(SignedPreKey(i))
    IN  [spk_id       |-> i,
         opk_id       |-> o,
         identity_key |-> EncodePublicKey(IdentityKey(Bob)),
         spk          |-> spk,
         signature    |-> Sign(IdentityKey(Bob), spk),
         opk          |-> IF o = None THEN None ELSE EncodePublicKey(OneTimePreKey(o))]

Publications(i) == {Bundle(i, o) : o \in OneTimePreKeys \cup {None}}

HandshakeInit ==
    /\ prekeys = [signed |-> {1}, oneTime |-> OneTimePreKeys]
    /\ published = Publications(1)
    /\ initiated = [a \in Initiators |-> None]
    /\ initials = {}
    /\ responded = {}

(***************************************************************************)
(* Bob renews his signed prekey, and later forgets the old one.            *)
(***************************************************************************)
RenewSignedPreKey ==
    LET next == Max(prekeys.signed) + 1
    IN  /\ next <= MaxSignedPreKeys
        /\ prekeys' = [prekeys EXCEPT !.signed = @ \cup {next}]
        /\ published' = published \cup Publications(next)
        /\ UNCHANGED <<initiated, initials, responded>>

ForgetSignedPreKey(i) ==
    /\ i \in prekeys.signed
    /\ i # Max(prekeys.signed)
    /\ prekeys' = [prekeys EXCEPT !.signed = @ \ {i}]
    /\ UNCHANGED <<published, initiated, initials, responded>>

(***************************************************************************)
(* What the server hands out: ids, keys and signature of bundles of Bob's, *)
(* each of them of another bundle if it likes, since nothing ties the ids  *)
(* to the keys; or such a bundle with a field put in its place by someone  *)
(* who does not hold Bob's identity key; with the signed prekey also the   *)
(* signature, and with both the identity key.  A one-time prekey has an id *)
(* and a key, or is None.                                                  *)
(***************************************************************************)
Mixed(ids, keys, signed) ==
    [keys EXCEPT !.spk_id = ids.spk_id,
                 !.opk_id = ids.opk_id,
                 !.signature = signed.signature]

MixedBundles ==
    {b \in {Mixed(ids, keys, signed) : ids, keys, signed \in published} :
        b.opk_id = None <=> b.opk = None}

WithOneTimePreKey == {b \in MixedBundles : b.opk # None}

BadKeys == {[encoding |-> e, key |-> OtherKey] : e \in Encodings}

Forged(b, k) == [b EXCEPT !.spk = k, !.signature = Sign(OtherKey, k)]

HandedOut ==
    MixedBundles
    \cup {[b EXCEPT !.identity_key = k] : b \in MixedBundles, k \in BadKeys}
    \cup {[b EXCEPT !.spk = k] : b \in MixedBundles, k \in BadKeys}
    \cup {[b EXCEPT !.opk = k] : b \in WithOneTimePreKey, k \in BadKeys}
    \cup {Forged(b, k) : b \in MixedBundles, k \in BadKeys}
    \cup {[Forged(b, k) EXCEPT !.identity_key = k] : b \in MixedBundles, k \in BadKeys}

(***************************************************************************)
(* To the Android interface also a bundle with a key of a wrong length.    *)
(***************************************************************************)
WrongLength == [encoding |-> "wrongLength", key |-> OtherKey]

HandedOutTo(a) ==
    HandedOut
    \cup {b \in UNION {{[c EXCEPT !.identity_key = WrongLength],
                        [c EXCEPT !.spk = WrongLength],
                        [c EXCEPT !.opk = WrongLength]} : c \in published} : a \in Android}

Taken(a, bundle) == IF a \in Android THEN AndroidTakes(bundle) ELSE bundle

Outcome(a, bundle) ==
    IF a \in Android THEN AndroidChecks(bundle) ELSE InitiatorChecks(bundle)

(***************************************************************************)
(* An initiator fetches a bundle and starts.  The initial message carries  *)
(* its keys, the ids of Bob's, and the first message of the session.  Its  *)
(* host does not know whether the one-time prekey was taken.               *)
(***************************************************************************)
Initiate(a, bundle) ==
    /\ initiated[a] = None
    /\ IF Outcome(a, bundle) # "valid"
       THEN /\ initiated' = [initiated EXCEPT ![a] = [result |-> Outcome(a, bundle)]]
            /\ UNCHANGED initials
       ELSE LET taken == Taken(a, bundle)
                sk == InitiatorSecret(InitiatorKey(a), EphemeralKey(a), taken)
                s  == R!InitSenderState(sk, RatchetKey(a), bundle.spk.key)
            IN  /\ initiated' = [initiated EXCEPT ![a] =
                                    [bundle |-> bundle, taken |-> taken,
                                     result |-> "ok", sk |-> sk]]
                /\ initials' = initials \cup
                      {[from      |-> a,
                        identity  |-> EncodePublicKey(InitiatorKey(a)),
                        ephemeral |-> EncodePublicKey(EphemeralKey(a)),
                        spk_id    |-> bundle.spk_id,
                        opk_id    |-> bundle.opk_id,
                        packet    |-> R!Packet(s)]}
    /\ UNCHANGED <<prekeys, published, responded>>

(***************************************************************************)
(* What the network brings Bob: an initial message, or one with another    *)
(* key or other ids of prekeys in it.                                      *)
(***************************************************************************)
WithIds(i, n, o) == [i EXCEPT !.spk_id = n, !.opk_id = o]

Arriving ==
    initials
    \cup {[i EXCEPT !.identity = k] : i \in initials, k \in BadKeys}
    \cup {[i EXCEPT !.ephemeral = k] : i \in initials, k \in BadKeys}
    \cup {WithIds(i, n, o) :
              i \in initials, n \in 1 .. MaxSignedPreKeys, o \in OneTimePreKeys \cup {None}}

BobSecret(i) ==
    ResponderSecret(IdentityKey(Bob), SignedPreKey(i.spk_id), OneTimeSecret(i.opk_id),
                    i.identity, i.ephemeral)

(***************************************************************************)
(* Bob has the private keys that the message names, his checks pass, and   *)
(* the first message opens in the session he starts.                       *)
(***************************************************************************)
HasKeys(i) == i.spk_id \in prekeys.signed /\ i.opk_id \in prekeys.oneTime \cup {None}

Opens(i) ==
    R!DecryptError(R!InitReceiverState(BobSecret(i), SignedPreKey(i.spk_id)),
                   i.packet, "none") = None

PreKeysAfter(i) == [prekeys EXCEPT !.oneTime = @ \ {i.opk_id}]

Respond(i) ==
    /\ HasKeys(i)
    /\ ResponderChecks(i.identity, i.ephemeral) = "valid"
    /\ Opens(i)
    /\ responded' = responded \cup
          {[identity |-> i.identity.key, spk_id |-> i.spk_id, opk_id |-> i.opk_id,
            sk |-> BobSecret(i), packet |-> i.packet]}
    /\ prekeys' = PreKeysAfter(i)
    /\ UNCHANGED <<published, initiated, initials>>

(***************************************************************************)
(* No keys, a key that is not valid, or a first message that does not      *)
(* open: Bob keeps nothing.                                                *)
(***************************************************************************)
RespondRefused(i) ==
    /\ \/ ~HasKeys(i)
       \/ ResponderChecks(i.identity, i.ephemeral) # "valid"
       \/ ~Opens(i)
    /\ UNCHANGED handshakeVars

HandshakeNext ==
    \/ RenewSignedPreKey
    \/ \E i \in 1 .. MaxSignedPreKeys : ForgetSignedPreKey(i)
    \/ \E a \in Initiators : \E bundle \in HandedOutTo(a) : Initiate(a, bundle)
    \/ \E i \in Arriving : Respond(i)
    \/ \E i \in Arriving : RespondRefused(i)

HandshakeSpec == HandshakeInit /\ [][HandshakeNext]_handshakeVars

-----------------------------------------------------------------------------
Sessions == {a \in Initiators : initiated[a] # None /\ initiated[a].result = "ok"}

(***************************************************************************)
(* Mutual authentication: a session that Bob has was started by the        *)
(* initiator whose identity it names, on Bob's own keys, and both hold the *)
(* same secret, made with the same signed prekey and with the same         *)
(* one-time prekey or none, whichever ids the bundle and the initial       *)
(* message had in them.                                                    *)
(***************************************************************************)
SessionsAgree ==
    \A r \in responded : \E a \in Sessions :
        LET t == initiated[a].taken
        IN  /\ r.identity = InitiatorKey(a)
            /\ r.sk = initiated[a].sk
            /\ t.identity_key.key = IdentityKey(Bob)
            /\ t.spk.key = SignedPreKey(r.spk_id)
            /\ KeyIn(t.opk) = OneTimeSecret(r.opk_id)

(***************************************************************************)
(* An initiator that accepts a bundle for Bob's identity has a signed      *)
(* prekey that Bob has published, maybe long ago and under another id, as  *)
(* ids are neither signed nor checked: x3dh_initiator refuses a prekey     *)
(* under a signature that Bob made for another, or that he did not make.   *)
(***************************************************************************)
OnlySignedPreKeys ==
    \A a \in Sessions :
        LET b == initiated[a].bundle
        IN  b.identity_key.key = IdentityKey(Bob) => \E c \in published : b.spk = c.spk

(***************************************************************************)
(* A secret can be computed by who holds one private key of each of the    *)
(* DH results in it.                                                       *)
(***************************************************************************)
Computable(sk, keys) == \A i \in 2 .. 5 : sk[i] = None \/ sk[i] \cap keys # {}

(***************************************************************************)
(* Whoever comes to hold both identity keys and all one-time prekeys, and  *)
(* may have altered the bundle before, cannot compute the secret of a      *)
(* session that was begun for Bob: that takes the ephemeral key or a       *)
(* signed prekey of Bob's.                                                 *)
(***************************************************************************)
SecretsOutliveIdentities ==
    \A a \in Sessions :
        initiated[a].bundle.identity_key.key = IdentityKey(Bob) =>
            ~Computable(initiated[a].sk,
                        {InitiatorKey(a), IdentityKey(Bob), OtherKey}
                        \cup {OneTimePreKey(o) : o \in OneTimePreKeys})

(***************************************************************************)
(* Each session has a secret of its own, also if one user begins two of    *)
(* them from the same bundle.                                              *)
(***************************************************************************)
SecretsDiffer ==
    \A a, b \in Sessions : initiated[a].sk = initiated[b].sk => a = b

(***************************************************************************)
(* An initial message made from an unaltered bundle opens as long as Bob   *)
(* has the keys it names: both sides derive one secret, from it the same   *)
(* header key, root key and message key.                                   *)
(***************************************************************************)
HonestInitialOpens ==
    \A i \in initials :
        initiated[i.from].bundle \in published /\ HasKeys(i) => Opens(i)

(***************************************************************************)
(* x3dh_initiator returns an error for a bundle whose keys are not valid.  *)
(***************************************************************************)
BadKeysAreReported ==
    \A a \in Initiators : initiated[a] # None => initiated[a].result # "panic"

=============================================================================
