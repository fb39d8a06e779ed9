------------------------------ MODULE VXEdDSA ------------------------------
(***************************************************************************)
(* vxeddsa_sign and vxeddsa_verify (src/src/vxeddsa.rs) with the key pairs *)
(* of src/src/utils.rs, over a small group of the form of the curve: the   *)
(* points are Z_8 x Z_Q, the base point generates the part of order Q, and *)
(* a point and its negation share a Montgomery u-coordinate.               *)
(*                                                                         *)
(* The hashes are functions that are drawn at random, one value when it is *)
(* first asked for.  So a verifier may be lucky, with a chance of 1 / Q:   *)
(* the properties are those that hold however the hashes turn out.         *)
(***************************************************************************)
EXTENDS Integers, FiniteSets

CONSTANTS
    Q,              \* order of the base point, 2^252 + ... in the code
    TopBit,         \* second highest bit of a private key, 2^254 in the code
    Seeds, Messages,
    Randoms,        \* the values of Z, which may repeat
    PointHashes, NonceHashes, ChallengeHashes,  \* bound: values of the hashes
    MaxSigned, MaxAccepted                      \* bound: how many are kept

ASSUME GroupAssumption ==
    /\ Q \in Nat /\ Q % 2 = 1
    /\ \A a \in 1 .. Q - 1 : \E b \in 1 .. Q - 1 : (a * b) % Q = 1
    /\ TopBit \in Nat \ {0} /\ TopBit % 8 = 0 /\ TopBit < 4 * Q
    /\ Seeds \subseteq 0 .. 4 * TopBit - 1
    /\ PointHashes \cup NonceHashes \cup ChallengeHashes \subseteq 0 .. Q - 1

VARIABLES
    points,         \* what nonspec_map_to_curve has answered
    nonces,         \* what hash_i(3, ..) has answered
    challenges,     \* what hash_i(4, ..) has answered
    signed,         \* the signatures made
    accepted        \* what vxeddsa_verify has accepted

vars == <<points, nonces, challenges, signed, accepted>>

-----------------------------------------------------------------------------
(* The group.                                                              *)

Plus(p, r) == <<(p[1] + r[1]) % 8, (p[2] + r[2]) % Q>>
Times(n, p) == <<(n * p[1]) % 8, (n * p[2]) % Q>>
Negated(p) == <<(8 - p[1]) % 8, (Q - p[2]) % Q>>
Minus(p, r) == Plus(p, Negated(r))
MulByCofactor(p) == Times(8, p)
Identity == <<0, 0>>
BasePoint == <<0, 1>>

(***************************************************************************)
(* The sign bit of a compressed point: negation flips it, except for the   *)
(* points that are their own negation.                                     *)
(***************************************************************************)
SignBit(p) == IF p[2] # 0 THEN p[2] % 2 ELSE IF p[1] > 4 THEN 1 ELSE 0

(***************************************************************************)
(* A u-coordinate, by the points that have it: a point and its negation,   *)
(* or none.  The identity's is 0, which is that of the point of order 2.   *)
(***************************************************************************)
U(p) == IF p = Identity THEN {<<4, 0>>} ELSE {p, Negated(p)}
OffCurve == {}

(***************************************************************************)
(* convert_mont: of the two points the one with sign bit 0.  For a u that  *)
(* is OffCurve there is none, and u_to_y panics.                           *)
(***************************************************************************)
ConvertMont(u) == CHOOSE p \in u : SignBit(p) = 0

-----------------------------------------------------------------------------
(* Keys.                                                                   *)

(***************************************************************************)
(* clamp_private_key: the three lowest bits and the highest bit are        *)
(* cleared, the second highest is set.                                     *)
(***************************************************************************)
ClampPrivateKey(u) == 8 * ((u % TopBit) \div 8) + TopBit

\* Mutation: the sign bit is not looked at.
KeyPairAsItIs(seed) ==
    LET k == ClampPrivateKey(seed) % Q
    IN  [secret |-> k, public |-> Times(k, BasePoint)]

(***************************************************************************)
(* calculate_key_pair: a and A with A's sign bit 0.                        *)
(***************************************************************************)
CalculateKeyPair(seed) ==
    LET k == ClampPrivateKey(seed) % Q
        a == IF SignBit(Times(k, BasePoint)) = 1 THEN (Q - k) % Q ELSE k
    IN  [secret |-> a, public |-> Times(a, BasePoint)]

GenPubkey(seed) == U(Times(ClampPrivateKey(seed), BasePoint))

-----------------------------------------------------------------------------
(* Hashes.                                                                 *)

Ask(table, input, answer) == input \in DOMAIN table => table[input] = answer
Keep(table, input, answer) ==
    [i \in DOMAIN table \cup {input} |-> IF i = input THEN answer ELSE table[i]]

(***************************************************************************)
(* B_v, from the answer x of nonspec_map_to_curve.                         *)
(***************************************************************************)
MappedPoint(x) == MulByCofactor(<<1, x>>)

\* Mutation: V is left out.
NonceInputOfKey(a, V, z) == <<a, z>>

(***************************************************************************)
(* r_msg: a || V || Z.                                                     *)
(***************************************************************************)
NonceInput(a, V, z) == <<a, V, z>>

(***************************************************************************)
(* v: a hash of the cofactor multiple of V, by its argument.               *)
(***************************************************************************)
Vrf(V) == MulByCofactor(V)

-----------------------------------------------------------------------------
(***************************************************************************)
(* vxeddsa_sign.  r = 0 is InvalidScalar, nothing is signed.               *)
(***************************************************************************)
Sign(seed, msg, z) ==
    \E x \in PointHashes, r \in NonceHashes, h \in ChallengeHashes :
        LET key   == CalculateKeyPair(seed)
            Bv    == MappedPoint(x)
            V     == Times(key.secret, Bv)
            input == <<key.public, V, Times(r, BasePoint), Times(r, Bv), msg>>
        IN  /\ Cardinality(signed) < MaxSigned
            /\ Ask(points, <<key.public, msg>>, x)
            /\ Ask(nonces, NonceInput(key.secret, V, z), r)
            /\ r # 0
            /\ Ask(challenges, input, h)
            /\ points' = Keep(points, <<key.public, msg>>, x)
            /\ nonces' = Keep(nonces, NonceInput(key.secret, V, z), r)
            /\ challenges' = Keep(challenges, input, h)
            /\ signed' = signed \cup
                  {[seed |-> seed, msg |-> msg, z |-> z, v |-> Vrf(V),
                    sig |-> [V |-> V, h |-> h, s |-> (r + h * key.secret) % Q]]}
            /\ UNCHANGED accepted

-----------------------------------------------------------------------------
(* vxeddsa_verify, for a signature whose h and s are what 32 bytes hold.   *)
(* For a key that is OffCurve it does not return.                          *)

\* Mutation: scalars are reduced.
CanonicalOrReduced(sig) == TRUE

(***************************************************************************)
(* Scalar::from_canonical_bytes.                                           *)
(***************************************************************************)
Canonical(sig) == sig.h < Q /\ sig.s < Q

SmallOrder(A, V, Bv) == Identity \in {MulByCofactor(A), MulByCofactor(V), Bv}

\* Mutation: R_v is the same as R.
CommitmentsWithoutV(A, V, Bv, h, s) ==
    LET R == Minus(Times(s, BasePoint), Times(h, A)) IN <<R, R>>

(***************************************************************************)
(* R = s B - h A and R_v = s B_v - h V.                                    *)
(***************************************************************************)
Commitments(A, V, Bv, h, s) ==
    <<Minus(Times(s, BasePoint), Times(h, A)), Minus(Times(s, Bv), Times(h, V))>>

ChallengeInput(A, Bv, msg, sig) ==
    LET c == Commitments(A, sig.V, Bv, sig.h % Q, sig.s % Q)
    IN  <<A, sig.V, c[1], c[2], msg>>

(***************************************************************************)
(* vxeddsa_verify returns Some: the checks pass, and h is the challenge    *)
(* that hash_i(4, ..) answers.                                             *)
(***************************************************************************)
Accepts(u, msg, sig, x, hcheck) ==
    LET A == ConvertMont(u)
    IN  /\ Canonical(sig)
        /\ ~SmallOrder(A, sig.V, MappedPoint(x))
        /\ sig.h % Q = hcheck

Verify(u, msg, sig) ==
    \E x \in PointHashes, h \in ChallengeHashes :
        LET A     == ConvertMont(u)
            input == ChallengeInput(A, MappedPoint(x), msg, sig)
        IN  /\ u # OffCurve
            /\ Cardinality(accepted) < MaxAccepted
            /\ Ask(points, <<A, msg>>, x)
            /\ Ask(challenges, input, h)
            /\ Accepts(u, msg, sig, x, h)
            /\ points' = Keep(points, <<A, msg>>, x)
            /\ challenges' = Keep(challenges, input, h)
            /\ accepted' = accepted \cup
                  {[u |-> u, msg |-> msg, sig |-> sig, v |-> Vrf(sig.V)]}
            /\ UNCHANGED <<nonces, signed>>

(***************************************************************************)
(* What reaches the verifier: a signature as it was made, with another s   *)
(* that stands for the same scalar, with a point of small order or another *)
(* point added to V; under a key of a user, one of small order, or bytes   *)
(* that are no key.                                                        *)
(***************************************************************************)
Arriving ==
    LET made == {e.sig : e \in signed}
    IN  made \cup {[g EXCEPT !.s = @ + Q] : g \in made}
             \cup {[g EXCEPT !.V = Plus(@, d)] : g \in made, d \in {<<4, 0>>, <<0, 1>>}}

PublicKeys == {GenPubkey(k) : k \in Seeds} \cup {U(Identity), OffCurve}

Init ==
    /\ points = <<>> /\ nonces = <<>> /\ challenges = <<>>
    /\ signed = {} /\ accepted = {}

Next ==
    \/ \E seed \in Seeds, msg \in Messages, z \in Randoms : Sign(seed, msg, z)
    \/ \E u \in PublicKeys, msg \in Messages, sig \in Arriving : Verify(u, msg, sig)

Spec == Init /\ [][Next]_vars

-----------------------------------------------------------------------------
(***************************************************************************)
(* Every signature made verifies under gen_pubkey of its seed, and the     *)
(* verifier gets the signer's VRF output.  The signer works with a point   *)
(* whose sign bit it has made 0, the verifier with the one it finds from   *)
(* the u-coordinate: that these are the same is what is checked.  Only a   *)
(* B_v that is the identity is signed and not accepted.                    *)
(***************************************************************************)
SignedVerifies ==
    \A e \in signed :
        LET u == GenPubkey(e.seed)
            A == ConvertMont(u)
        IN  /\ <<A, e.msg>> \in DOMAIN points
            /\ LET x     == points[<<A, e.msg>>]
                   input == ChallengeInput(A, MappedPoint(x), e.msg, e.sig)
               IN  MappedPoint(x) # Identity =>
                      /\ input \in DOMAIN challenges
                      /\ Accepts(u, e.msg, e.sig, x, challenges[input])
                      /\ Vrf(e.sig.V) = e.v

(***************************************************************************)
(* The output of an accepted signature is the one that the owner of the    *)
(* key gets for the message, also if V is off by a point of small order:   *)
(* or else the verifier was lucky, and its question has but one answer for *)
(* which any signature is accepted, so that the chance of it is 1 / Q.     *)
(***************************************************************************)
OneOutputOrLuck ==
    \A e \in accepted, seed \in Seeds : e.u = GenPubkey(seed) =>
        LET key      == CalculateKeyPair(seed)
            x        == points[<<key.public, e.msg>>]
            Bv       == MappedPoint(x)
            Asked(g) == ChallengeInput(key.public, Bv, e.msg, g)
        IN  \/ e.v = Vrf(Times(key.secret, Bv))
            \/ \A g \in [V : {e.sig.V}, h : 0 .. Q - 1, s : 0 .. Q - 1] :
                  Asked(g) = Asked(e.sig) /\ Accepts(e.u, e.msg, g, x, g.h)
                     => g.h = challenges[Asked(e.sig)]

(***************************************************************************)
(* What one answer of the challenge hash makes valid are the bytes of one  *)
(* signature.                                                              *)
(***************************************************************************)
NotMalleable ==
    \A e, f \in accepted :
        LET input(g) == ChallengeInput(ConvertMont(g.u),
                            MappedPoint(points[<<ConvertMont(g.u), g.msg>>]), g.msg, g.sig)
        IN  input(e) = input(f) => e.sig = f.sig

(***************************************************************************)
(* If the random number generator repeats itself, the nonce of a signature *)
(* is still asked for with the point of its message: two signatures under  *)
(* one key share the question only if they share B_v.                      *)
(***************************************************************************)
NonceBoundToMessage ==
    \A e, f \in signed :
        LET key  == CalculateKeyPair(e.seed)
            q(g) == NonceInput(key.secret, g.sig.V, g.z)
        IN  e.seed = f.seed /\ q(e) = q(f)
               => points[<<key.public, e.msg>>] = points[<<key.public, f.msg>>]

=============================================================================
