-------------------------------- MODULE X3DH --------------------------------
(***************************************************************************)
(* The X3DH key agreement (src/src/x3dh.rs) with the key checks it makes   *)
(* (src/src/utils.rs), over the symbolic keys of KeySchedule.tla.          *)
(***************************************************************************)
EXTENDS KeySchedule, FiniteSetsExt, SequencesExt

(***************************************************************************)
(* The 33 bytes of an encoded public key: a point of the curve, or bytes   *)
(* with a wrong prefix, all zero, of small order, or that are the          *)
(* u-coordinate of no point of the curve.                                  *)
(***************************************************************************)
Encodings == {"point", "badPrefix", "zero", "lowOrder", "offCurve"}

EncodePublicKey(key) == [encoding |-> "point", key |-> key]

(***************************************************************************)
(* is_valid_public_key.  convert_mont calls u_to_y, which panics when the  *)
(* bytes are on no point; prefix and zero are looked at before.            *)
(***************************************************************************)
CheckPublicKey(pk) ==
    CASE pk.encoding = "point"    -> "valid"
      [] pk.encoding = "offCurve" -> "panic"
      [] OTHER                    -> "InvalidKey"

(***************************************************************************)
(* Keys are checked in order; the first one that is not valid decides.     *)
(***************************************************************************)
CheckInOrder(pks) ==
    LET bad == {i \in DOMAIN pks : CheckPublicKey(pks[i]) # "valid"}
    IN  IF bad = {} THEN "valid" ELSE CheckPublicKey(pks[Min(bad)])

\* Mutation: a signature of the owner for something else will do.
VerifiesForAnything(public, message, signature) == signature.signer = public.key

\* Mutation: a signature of anyone will do.
VerifiesForAnyone(public, message, signature) == signature.message = message

(***************************************************************************)
(* vxeddsa_sign and vxeddsa_verify: a signature names signer and message.  *)
(***************************************************************************)
Sign(secret, message) == [signer |-> secret, message |-> message]

Verifies(public, message, signature) ==
    signature = [signer |-> public.key, message |-> message]

\* Mutation: DH1 is left out.
KdfWithoutIdentity(dh1, dh2, dh3, dh4) == <<"x3dh", dh2, dh3, dh4>>

(***************************************************************************)
(* kdf: one secret per concatenation DH1 || DH2 || DH3 [|| DH4].           *)
(***************************************************************************)
Kdf(dh1, dh2, dh3, dh4) == <<"x3dh", dh1, dh2, dh3, dh4>>

DH4(own, remote) == IF None \in {own, remote} THEN None ELSE DH(own, remote)

(***************************************************************************)
(* x3dh_initiator with ephemeral key pair `ephemeral`: its checks in the   *)
(* order of the code, then the secret.                                     *)
(***************************************************************************)
InitiatorChecks(bundle) ==
    LET keys == <<bundle.identity_key, bundle.spk>>
                \o IF bundle.opk = None THEN <<>> ELSE <<bundle.opk>>
    IN  IF CheckInOrder(keys) # "valid"
        THEN CheckInOrder(keys)
        ELSE IF ~Verifies(bundle.identity_key, bundle.spk, bundle.signature)
             THEN "InvalidSignature"
             ELSE "valid"

\* Mutation: the identity key in the place of the ephemeral one.
InitiatorSecretStatic(identity, ephemeral, bundle) ==
    Kdf(DH(identity, bundle.spk.key),
        DH(identity, bundle.identity_key.key),
        DH(identity, bundle.spk.key),
        IF bundle.opk = None THEN None ELSE DH4(identity, bundle.opk.key))

InitiatorSecret(identity, ephemeral, bundle) ==
    Kdf(DH(identity, bundle.spk.key),
        DH(ephemeral, bundle.identity_key.key),
        DH(ephemeral, bundle.spk.key),
        IF bundle.opk = None THEN None ELSE DH4(ephemeral, bundle.opk.key))

(***************************************************************************)
(* x3dhInitiator of the Android interface gets arrays of any length.  Keys *)
(* of a wrong length and all errors give null; but a one-time prekey of a  *)
(* wrong length is taken as none.                                          *)
(***************************************************************************)
HasLength(pk) == pk.encoding # "wrongLength"

AndroidTakes(bundle) ==
    IF bundle.opk # None /\ ~HasLength(bundle.opk)
    THEN [bundle EXCEPT !.opk = None, !.opk_id = None]
    ELSE bundle

AndroidChecks(bundle) ==
    LET checks == InitiatorChecks(AndroidTakes(bundle))
    IN  IF HasLength(bundle.identity_key) /\ HasLength(bundle.spk)
           /\ checks \in {"valid", "panic"}
        THEN checks
        ELSE "null"

(***************************************************************************)
(* x3dh_responder: Bob's private keys, Alice's public ones.                *)
(***************************************************************************)
ResponderChecks(aliceIdentity, aliceEphemeral) ==
    CheckInOrder(<<aliceIdentity, aliceEphemeral>>)

\* Mutation: DH1 and DH2 in the order of the roles.
ResponderSecretSwapped(identity, spk, opk, aliceIdentity, aliceEphemeral) ==
    Kdf(DH(identity, aliceEphemeral.key),
        DH(spk, aliceIdentity.key),
        DH(spk, aliceEphemeral.key),
        DH4(opk, aliceEphemeral.key))

ResponderSecret(identity, spk, opk, aliceIdentity, aliceEphemeral) ==
    Kdf(DH(spk, aliceIdentity.key),
        DH(identity, aliceEphemeral.key),
        DH(spk, aliceEphemeral.key),
        DH4(opk, aliceEphemeral.key))

=============================================================================
