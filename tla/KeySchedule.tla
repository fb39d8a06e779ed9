---------------------------- MODULE KeySchedule ----------------------------
(***************************************************************************)
(* The key schedule of the Double Ratchet (src/src/ratchet.rs), as         *)
(* symbolic terms.                                                         *)
(*                                                                         *)
(* A 32-byte secret is the term that says how it was derived, so two       *)
(* secrets are equal exactly when the code derives them from the same      *)
(* inputs: HKDF, HMAC and X25519 are taken to be collision free, and the   *)
(* random number generator never to repeat itself.  A key pair is named by *)
(* one value, which stands for its public half where the code hands that   *)
(* out.                                                                    *)
(***************************************************************************)
EXTENDS Integers

CONSTANT
    None    \* Option::None

(***************************************************************************)
(* x25519: both ends of an exchange compute the same shared secret.        *)
(***************************************************************************)
DH(own, remote) == {own, remote}

(***************************************************************************)
(* The secret that X3DH agreed on.                                         *)
(***************************************************************************)
SharedSecret == <<"sk">>

\* Mutation: the output of the exchange is left out.
KdfWithoutExchange(rk, dh) ==
    LET okm == <<"okm", rk, {}>>
    IN  [rk |-> okm, ck |-> <<okm, 0>>, nhk |-> <<"nhk", okm>>]

(***************************************************************************)
(* kdf_rk_he: one HKDF output cut into a root key, a chain key and the     *)
(* next header key.  A chain key is the chain it belongs to and its        *)
(* position there.                                                         *)
(***************************************************************************)
KdfRkHe(rk, dh) ==
    LET okm == <<"okm", rk, dh>>
    IN  [rk |-> okm, ck |-> <<okm, 0>>, nhk |-> <<"nhk", okm>>]

(***************************************************************************)
(* derive_header_keys: the first header key of each direction.             *)
(***************************************************************************)
InitiatorHeaderKey(sk) == <<"initiator", sk>>

\* Mutation: one info string for both directions.
OneHeaderKey(sk) == InitiatorHeaderKey(sk)

ResponderHeaderKey(sk) == <<"responder", sk>>

(***************************************************************************)
(* kdf_ck: the next chain key and a message key; KdfCkIter(ck, k) is the   *)
(* chain key k steps on.                                                   *)
(***************************************************************************)
KdfCk(ck) == [ck |-> <<ck[1], ck[2] + 1>>, mk |-> <<"mk", ck[1], ck[2]>>]

KdfCkIter(ck, k) == <<ck[1], ck[2] + k>>

=============================================================================
