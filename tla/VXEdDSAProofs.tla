--------------------------- MODULE VXEdDSAProofs ---------------------------
(***************************************************************************)
(* Theorems about vxeddsa_sign and vxeddsa_verify, for every prime order   *)
(* of the base point, every length of the private keys and every set of    *)
(* values of the hashes that the assumptions allow.                        *)
(***************************************************************************)
EXTENDS VXEdDSA, TLAPS

-----------------------------------------------------------------------------
(* Arithmetic modulo Q.                                                    *)

(***************************************************************************)
(* Q is odd, and at least 3.                                               *)
(***************************************************************************)
LEMMA OddOrder ==
    /\ Q \in Nat \ {0}
    /\ \E q \in Nat : Q = 2 * q + 1
<1>1. Q \in Nat /\ Q % 2 = 1
  BY GroupAssumption
<1>2. Q = 2 * (Q \div 2) + 1 /\ Q \div 2 \in Nat
  BY <1>1
<1> QED BY <1>1, <1>2

(***************************************************************************)
(* Quotient and remainder.                                                 *)
(***************************************************************************)
LEMMA Division ==
    ASSUME NEW q \in Nat \ {0}, NEW x \in Int
    PROVE  /\ x \div q \in Int /\ x % q \in Int
           /\ x = q * (x \div q) + (x % q)
           /\ 0 <= x % q /\ x % q < q
OBVIOUS

(***************************************************************************)
(* The only multiple of q that is nearer to 0 than q is 0.                 *)
(***************************************************************************)
LEMMA Multiples ==
    ASSUME NEW q \in Nat \ {0}, NEW d \in Int, q * d < q, 0 - q < q * d
    PROVE  d = 0
<1>1. CASE d >= 1
  BY <1>1
<1>2. CASE d <= 0 - 1
  BY <1>2
<1> QED BY <1>1, <1>2

(***************************************************************************)
(* The remainder is the one number below q that is a multiple of q away.   *)
(***************************************************************************)
LEMMA RemainderIs ==
    ASSUME NEW q \in Nat \ {0}, NEW x \in Int, NEW k \in Int, NEW r \in 0 .. q - 1,
           x = q * k + r
    PROVE  x % q = r
<1> DEFINE d == x \div q
           e == x % q
<1>1. /\ d \in Int /\ e \in Int /\ x = q * d + e /\ 0 <= e /\ e < q
  BY Division
<1> HIDE DEF d, e
<1>2. q * (k - d) = e - r
  BY <1>1
<1>3. k - d = 0
  BY <1>1, <1>2, Multiples
<1> QED BY <1>1, <1>2, <1>3 DEF e

(***************************************************************************)
(* Remainders of sums, differences and products, and of themselves.        *)
(***************************************************************************)
LEMMA RemainderOfRemainder ==
    ASSUME NEW q \in Nat \ {0}, NEW x \in Int, NEW y \in Int, NEW k \in Int,
           x = y + q * k
    PROVE  x % q = y % q
<1> DEFINE d == y \div q
           e == y % q
<1>1. /\ d \in Int /\ e \in 0 .. q - 1 /\ y = q * d + e
  BY Division
<1> HIDE DEF d, e
<1>2. x = q * (d + k) + e /\ d + k \in Int
  BY <1>1
<1>3. x % q = e
  BY <1>1, <1>2, RemainderIs
<1> QED BY <1>3 DEF e

(***************************************************************************)
(* Numbers with one remainder lie a multiple of q apart.                   *)
(***************************************************************************)
MultipleApart(q, x, y) == \E k \in Int : x = y + q * k

LEMMA SameRemainder ==
    ASSUME NEW q \in Nat \ {0}, NEW x \in Int, NEW y \in Int, x % q = y % q
    PROVE  MultipleApart(q, x, y)
<1> DEFINE d == x \div q
           e == x % q
           f == y \div q
<1>1. /\ d \in Int /\ f \in Int /\ e \in Int /\ x = q * d + e /\ y = q * f + e
  BY Division
<1> HIDE DEF d, e, f
<1>2. x = y + q * (d - f)
  BY <1>1
<1> QED BY <1>1, <1>2 DEF MultipleApart

(***************************************************************************)
(* A number, by its remainder.                                             *)
(***************************************************************************)
LEMMA DivisionBy ==
    ASSUME NEW q \in Nat \ {0}, NEW x \in Int, NEW r \in Int, x % q = r
    PROVE  \E k \in Int : x = q * k + r
<1> DEFINE d == x \div q
<1>1. d \in Int /\ x = q * d + r
  BY Division
<1> HIDE DEF d
<1> QED BY <1>1

(***************************************************************************)
(* The multiples of q are the numbers whose remainder is 0.                *)
(***************************************************************************)
LEMMA MultipleOf ==
    ASSUME NEW q \in Nat \ {0}, NEW x \in Int
    PROVE  (x % q = 0) <=> \E k \in Int : x = q * k
<1>1. ASSUME x % q = 0 PROVE \E k \in Int : x = q * k
  <2> DEFINE d == x \div q
             e == x % q
  <2>1. d \in Int /\ e = 0 /\ x = q * d + e
    BY <1>1, Division
  <2> HIDE DEF d, e
  <2> QED BY <2>1
<1>2. ASSUME NEW k \in Int, x = q * k PROVE x % q = 0
  <2>1. x = q * k + 0 /\ 0 \in 0 .. q - 1
    BY <1>2
  <2>2. x % q = 0
    BY <1>2, <2>1, RemainderIs
  <2> QED BY <2>2
<1> QED BY <1>1, <1>2

(***************************************************************************)
(* An operand may be reduced before a sum, a difference or a product is.   *)
(***************************************************************************)
LEMMA ReducedOperand ==
    ASSUME NEW q \in Nat \ {0}, NEW x \in Int, NEW y \in Int
    PROVE  /\ ((x % q) + y) % q = (x + y) % q
           /\ (x + (y % q)) % q = (x + y) % q
           /\ (x * (y % q)) % q = (x * y) % q
           /\ (q - (x % q)) % q = (0 - x) % q
<1> DEFINE d == x \div q
           e == x % q
           f == y \div q
           g == y % q
<1>1. /\ d \in Int /\ e \in Int /\ x = q * d + e
      /\ f \in Int /\ g \in Int /\ y = q * f + g
  BY Division
<1> HIDE DEF d, e, f, g
<1>2. x + y = (e + y) + q * d
  BY <1>1
<1>3. x + y = (x + g) + q * f
  BY <1>1
<1>4. x * y = (x * g) + q * (x * f)
  BY <1>1
<1>5. q - e = (0 - x) + q * (d + 1)
  BY <1>1
<1>6. ((e + y) % q) = ((x + y) % q)
  <2> DEFINE u == x + y
             v == e + y
  <2>1. u \in Int /\ v \in Int /\ u = v + q * d
    BY <1>1, <1>2
  <2> HIDE DEF u, v
  <2>2. u % q = v % q
    BY <1>1, <2>1, RemainderOfRemainder
  <2> QED BY <2>2 DEF u, v
<1>7. ((x + g) % q) = ((x + y) % q)
  <2> DEFINE u == x + y
             v == x + g
  <2>1. u \in Int /\ v \in Int /\ u = v + q * f
    BY <1>1, <1>3
  <2> HIDE DEF u, v
  <2>2. u % q = v % q
    BY <1>1, <2>1, RemainderOfRemainder
  <2> QED BY <2>2 DEF u, v
<1>8. ((x * g) % q) = ((x * y) % q)
  <2>1. x * y \in Int /\ x * g \in Int /\ x * f \in Int
    BY <1>1
  <2> QED BY <1>4, <2>1, RemainderOfRemainder
<1>9. ((q - e) % q) = ((0 - x) % q)
  <2>1. q - e \in Int /\ 0 - x \in Int /\ d + 1 \in Int
    BY <1>1
  <2> QED BY <1>5, <2>1, RemainderOfRemainder
<1> QED BY <1>6, <1>7, <1>8, <1>9 DEF e, g

(***************************************************************************)
(* The same, one at a time.                                                *)
(***************************************************************************)
LEMMA ReducedSum ==
    ASSUME NEW q \in Nat \ {0}, NEW x \in Int, NEW y \in Int
    PROVE  ((x % q) + (y % q)) % q = (x + y) % q
<1> DEFINE e == x % q
<1>1. e \in Int
  BY Division
<1>2. (e + y) % q = (x + y) % q
  BY ReducedOperand
<1> HIDE DEF e
<1>3. (e + (y % q)) % q = (e + y) % q
  BY <1>1, ReducedOperand
<1> QED BY <1>2, <1>3 DEF e

(***************************************************************************)
(* A factor.                                                               *)
(***************************************************************************)
LEMMA ReducedFactor ==
    ASSUME NEW q \in Nat \ {0}, NEW x \in Int, NEW y \in Int
    PROVE  (x * (y % q)) % q = (x * y) % q
BY ReducedOperand

(***************************************************************************)
(* A number subtracted from the modulus.                                   *)
(***************************************************************************)
LEMMA ReducedNegation ==
    ASSUME NEW q \in Nat \ {0}, NEW x \in Int
    PROVE  (q - (x % q)) % q = (0 - x) % q
BY ReducedOperand

(***************************************************************************)
(* Q is odd: it divides a number if it divides its double, and so if it    *)
(* divides its cofactor multiple.                                          *)
(***************************************************************************)
LEMMA Halved ==
    ASSUME NEW x \in Int, NEW j \in Int, 2 * x = Q * j
    PROVE  \E i \in Int : x = Q * i
<1>1. PICK q \in Nat : Q = 2 * q + 1
  BY OddOrder
<1> DEFINE i == x - q * j
<1>2. Q * j = 2 * (q * j) + j
  BY <1>1
<1>3. q * j \in Int
  BY <1>1
<1>4. i \in Int /\ j = 2 * i
  BY <1>2, <1>3
<1>5. x = q * (2 * i) + i
  BY <1>3, <1>4
<1>6. Q * i = q * (2 * i) + i
  <2> HIDE DEF i
  <2> QED BY <1>1, <1>4
<1> QED BY <1>4, <1>5, <1>6

(***************************************************************************)
(* Q does not divide 8 x unless it divides x.                              *)
(***************************************************************************)
LEMMA CofactorCancels ==
    ASSUME NEW x \in Int, (8 * x) % Q = 0
    PROVE  x % Q = 0
<1>1. Q \in Nat \ {0}
  BY OddOrder
<1>2. PICK j \in Int : 8 * x = Q * j
  <2> DEFINE y == 8 * x
  <2>1. y \in Int /\ y % Q = 0
    OBVIOUS
  <2> HIDE DEF y
  <2>2. PICK j \in Int : y = Q * j
    BY <1>1, <2>1, MultipleOf
  <2> QED BY <1>1, <2>2 DEF y
<1>3. 2 * (4 * x) = Q * j /\ 4 * x \in Int
  BY <1>2
<1>4. PICK k \in Int : 4 * x = Q * k
  BY <1>3, Halved
<1>5. 2 * (2 * x) = Q * k /\ 2 * x \in Int
  BY <1>4
<1>6. PICK l \in Int : 2 * x = Q * l
  BY <1>5, Halved
<1>7. PICK i \in Int : x = Q * i
  BY <1>6, Halved
<1>8. x = Q * i + 0 /\ 0 \in 0 .. Q - 1
  BY <1>1, <1>7
<1> QED BY <1>1, <1>8, RemainderIs

(***************************************************************************)
(* Q is prime: it divides no product of two numbers it does not divide.    *)
(***************************************************************************)
LEMMA NoZeroDivisors ==
    ASSUME NEW a \in Int, NEW b \in Int, a % Q # 0, (a * b) % Q = 0
    PROVE  b % Q = 0
<1>1. Q \in Nat \ {0}
  BY OddOrder
<1>2. a % Q \in 1 .. Q - 1
  BY <1>1, Division
<1>3. PICK c \in 1 .. Q - 1 : ((a % Q) * c) % Q = 1
  BY <1>2, GroupAssumption
<1> DEFINE e == a % Q
<1>4. PICK d \in Int : a = Q * d + e
  BY <1>1, Division
<1>5. PICK k \in Int : e * c = Q * k + 1
  <2> DEFINE y == e * c
  <2>1. y \in Int /\ y % Q = 1
    BY <1>2, <1>3
  <2> HIDE DEF y
  <2>2. PICK k \in Int : y = Q * k + 1
    <3>1. 1 \in Int
      OBVIOUS
    <3> QED BY <1>1, <2>1, <3>1, DivisionBy
  <2> QED BY <2>2 DEF y
<1>6. PICK j \in Int : a * b = Q * j
  <2> DEFINE y == a * b
  <2>1. y \in Int /\ y % Q = 0
    OBVIOUS
  <2> HIDE DEF y
  <2>2. PICK j \in Int : y = Q * j
    BY <1>1, <2>1, MultipleOf
  <2> QED BY <1>1, <2>2 DEF y
<1> HIDE DEF e
<1>7. e \in Int /\ c \in Int
  BY <1>2 DEF e
<1>8. a * c = Q * (d * c + k) + 1
  <2>1. a * c = Q * (d * c) + e * c
    BY <1>1, <1>4, <1>7
  <2> QED BY <2>1, <1>1, <1>5, <1>7
<1>9. b * (a * c) = Q * (b * (d * c + k)) + b
  <2>1. d * c + k \in Int
    BY <1>7
  <2> DEFINE n == d * c + k
  <2> HIDE DEF n
  <2>2. a * c = Q * n + 1 /\ n \in Int
    BY <1>8, <2>1 DEF n
  <2>3. b * (a * c) = Q * (b * n) + b
    BY <1>1, <2>2
  <2> QED BY <2>3 DEF n
<1>10. b * (a * c) = Q * (j * c)
  <2>1. b * (a * c) = (a * b) * c
    BY <1>7
  <2> QED BY <1>1, <1>6, <1>7, <2>1
<1> DEFINE m == b * (d * c + k)
           n == j * c
<1>11. m \in Int /\ n \in Int /\ Q * n = Q * m + b
  BY <1>7, <1>9, <1>10
<1> HIDE DEF m, n
<1>12. b = Q * (n - m) + 0 /\ n - m \in Int /\ 0 \in 0 .. Q - 1
  BY <1>1, <1>11
<1> QED BY <1>1, <1>12, RemainderIs

-----------------------------------------------------------------------------
(* Keys.                                                                   *)

LEMMA SmallRemainder ==
    ASSUME NEW q \in Nat \ {0}, NEW x \in 0 .. q - 1
    PROVE  x % q = x
<1>1. x = q * 0 + x /\ x \in Int /\ 0 \in Int
  OBVIOUS
<1> QED BY <1>1, RemainderIs

(***************************************************************************)
(* clamp_private_key makes no multiple of Q: the number is 8 times one     *)
(* that is not 0 and lies below Q.                                         *)
(***************************************************************************)
LEMMA ClampedIsNotZero ==
    ASSUME NEW u \in Nat
    PROVE  ClampPrivateKey(u) \in Nat /\ ClampPrivateKey(u) % Q # 0
<1> DEFINE low == u % TopBit
           w == low \div 8
           t == TopBit \div 8
<1>1. /\ Q \in Nat \ {0} /\ TopBit \in Nat \ {0}
      /\ TopBit % 8 = 0 /\ TopBit < 4 * Q
  BY OddOrder, GroupAssumption
<1>2. low \in Nat /\ low < TopBit
  BY <1>1, Division
<1>3. t \in Nat /\ TopBit = 8 * t
  BY <1>1
<1> HIDE DEF low
<1>4. w \in Nat /\ 8 * w <= low
  BY <1>2
<1> HIDE DEF w, t
<1>5. w + t \in 1 .. Q - 1
  BY <1>1, <1>2, <1>3, <1>4
<1>6. ClampPrivateKey(u) = 8 * (w + t)
  BY <1>3, <1>4 DEF ClampPrivateKey, w, low
<1> DEFINE n == w + t
<1>7. n \in 1 .. Q - 1 /\ ClampPrivateKey(u) = 8 * n
  BY <1>5, <1>6
<1> HIDE DEF n
<1>8. (8 * n) % Q # 0
  <2> SUFFICES ASSUME (8 * n) % Q = 0 PROVE FALSE
    OBVIOUS
  <2>1. n \in Int /\ n \in 0 .. Q - 1 /\ n # 0
    BY <1>7
  <2>2. n % Q = 0
    BY <2>1, CofactorCancels
  <2>3. n % Q = n
    BY <1>1, <2>1, SmallRemainder
  <2> QED BY <2>1, <2>2, <2>3
<1> QED BY <1>7, <1>8

(***************************************************************************)
(* The multiples of the base point.                                        *)
(***************************************************************************)
LEMMA TimesBasePoint ==
    ASSUME NEW n \in Int
    PROVE  Times(n, BasePoint) = <<0, n % Q>>
<1>1. (n * 0) % 8 = 0 /\ n * 1 = n
  OBVIOUS
<1> QED BY <1>1 DEF Times, BasePoint

(***************************************************************************)
(* The key pair of a seed: its point has sign bit 0, and is the one that   *)
(* u_to_y finds from the public key of gen_pubkey.                         *)
(***************************************************************************)
LEMMA KeyPairOf ==
    ASSUME NEW seed \in Seeds
    PROVE  LET key == CalculateKeyPair(seed)
           IN  /\ key.secret \in 1 .. Q - 1
               /\ key.public = <<0, key.secret>>
               /\ ConvertMont(GenPubkey(seed)) = key.public
<1> DEFINE c == ClampPrivateKey(seed)
           k == c % Q
           a == IF SignBit(Times(k, BasePoint)) = 1 THEN (Q - k) % Q ELSE k
<1>1. Q \in Nat \ {0} /\ seed \in Nat
  BY OddOrder, GroupAssumption
<1>2. c \in Nat /\ k \in 1 .. Q - 1
  <2>1. c \in Nat /\ k # 0
    BY <1>1, ClampedIsNotZero
  <2> HIDE DEF c
  <2>2. k \in Int /\ 0 <= k /\ k < Q
    BY <1>1, <2>1, Division
  <2> HIDE DEF k
  <2> QED BY <1>1, <2>1, <2>2
<1>3. CalculateKeyPair(seed) = [secret |-> a, public |-> Times(a, BasePoint)]
  BY DEF CalculateKeyPair
<1>4. GenPubkey(seed) = U(<<0, k>>)
  BY <1>2, TimesBasePoint DEF GenPubkey
<1> HIDE DEF c, k
<1>5. Times(k, BasePoint) = <<0, k>>
  <2>1. k % Q = k
    BY <1>1, <1>2, SmallRemainder
  <2> QED BY <1>2, <2>1, TimesBasePoint
<1>6. SignBit(<<0, k>>) = k % 2 /\ k % 2 \in {0, 1}
  BY <1>2 DEF SignBit
<1>7. (Q - k) % Q = Q - k /\ Q - k \in 1 .. Q - 1
  <2>1. Q - k \in 1 .. Q - 1
    BY <1>1, <1>2
  <2> QED BY <1>1, <2>1, SmallRemainder
<1>8. a = (IF k % 2 = 1 THEN Q - k ELSE k) /\ a \in 1 .. Q - 1
  BY <1>2, <1>5, <1>6, <1>7
<1>9. Times(a, BasePoint) = <<0, a>>
  <2>1. a % Q = a /\ a \in Int
    BY <1>1, <1>8, SmallRemainder
  <2> HIDE DEF a
  <2> QED BY <2>1, TimesBasePoint
<1>10. ConvertMont(U(<<0, k>>)) = <<0, a>>
  <2>1. <<0, k>> # Identity
    BY <1>2 DEF Identity
  <2>2. Negated(<<0, k>>) = <<0, Q - k>>
    BY <1>7 DEF Negated
  <2>3. U(<<0, k>>) = {<<0, k>>, <<0, Q - k>>}
    BY <2>1, <2>2 DEF U
  <2>4. SignBit(<<0, Q - k>>) = (Q - k) % 2
    BY <1>7 DEF SignBit
  <2>5. k % 2 = 1 <=> (Q - k) % 2 = 0
    <3>1. PICK q \in Nat : Q = 2 * q + 1
      BY OddOrder
    <3> QED BY <1>2, <3>1
  <2>6. \A p \in U(<<0, k>>) : SignBit(p) = 0 <=> p = <<0, a>>
    <3>1. k # Q - k
      BY <1>2, <2>5
    <3>2. CASE k % 2 = 1
      <4>1. a = Q - k /\ SignBit(<<0, k>>) = 1 /\ SignBit(<<0, Q - k>>) = 0
        BY <1>6, <1>8, <2>4, <2>5, <3>2
      <4> HIDE DEF a
      <4> QED BY <2>3, <3>1, <4>1
    <3>3. CASE k % 2 = 0
      <4>1. a = k /\ SignBit(<<0, k>>) = 0 /\ SignBit(<<0, Q - k>>) # 0
        BY <1>6, <1>8, <2>4, <2>5, <3>3
      <4> HIDE DEF a
      <4> QED BY <2>3, <3>1, <4>1
    <3> QED BY <1>6, <3>2, <3>3
  <2>7. <<0, a>> \in U(<<0, k>>)
    BY <1>8, <2>3
  <2> HIDE DEF a
  <2> QED BY <2>6, <2>7 DEF ConvertMont
<1> HIDE DEF a
<1> QED BY <1>3, <1>4, <1>8, <1>9, <1>10

-----------------------------------------------------------------------------
(* A signature and its verification.                                       *)

(***************************************************************************)
(* B_v lies in the part of the group of order Q, and so does V.            *)
(***************************************************************************)
LEMMA MappedPointIs ==
    ASSUME NEW x \in Int
    PROVE  /\ MappedPoint(x) = <<0, (8 * x) % Q>>
           /\ (8 * x) % Q \in 0 .. Q - 1
<1>1. Q \in Nat \ {0}
  BY OddOrder
<1>2. (8 * x) % Q \in 0 .. Q - 1
  <2> DEFINE y == 8 * x
  <2>1. y \in Int
    OBVIOUS
  <2> HIDE DEF y
  <2>2. y % Q \in Int /\ 0 <= y % Q /\ y % Q < Q
    BY <1>1, <2>1, Division
  <2>3. y % Q \in 0 .. Q - 1
    BY <1>1, <2>2
  <2> QED BY <2>3 DEF y
<1>3. (8 * 1) % 8 = 0
  OBVIOUS
<1> QED BY <1>2, <1>3 DEF MappedPoint, MulByCofactor, Times

(***************************************************************************)
(* A multiple of a point of the part of order Q lies in it.                *)
(***************************************************************************)
LEMMA TimesOfPrimePart ==
    ASSUME NEW n \in Int, NEW b \in Int
    PROVE  Times(n, <<0, b>>) = <<0, (n * b) % Q>>
<1>1. (n * 0) % 8 = 0
  OBVIOUS
<1> QED BY <1>1 DEF Times

(***************************************************************************)
(* The difference of two points of the part of order Q lies in it.         *)
(***************************************************************************)
LEMMA MinusOfPrimePart ==
    ASSUME NEW x, NEW y
    PROVE  Minus(<<0, x>>, <<0, y>>) = <<0, (x + ((Q - y) % Q)) % Q>>
<1>1. (8 - 0) % 8 = 0 /\ (0 + 0) % 8 = 0
  OBVIOUS
<1> QED BY <1>1 DEF Minus, Plus, Negated

(***************************************************************************)
(* s B - h A is r B, where s = r + h a and A = a B, and likewise for B_v.  *)
(***************************************************************************)
Cancels(r, h, a, b) ==
    LET s == (r + h * a) % Q
    IN  Minus(Times(s, <<0, b>>), Times(h, <<0, (a * b) % Q>>)) = Times(r, <<0, b>>)

LEMMA CommitmentCancels ==
    ASSUME NEW r \in Int, NEW h \in Int, NEW a \in Int, NEW b \in Int
    PROVE  Cancels(r, h, a, b)
<1> DEFINE x == r + h * a
           s == x % Q
           w == h * (a * b)
           v == (a * b) % Q
<1>1. Q \in Nat \ {0}
  BY OddOrder
<1>2. x \in Int /\ w \in Int /\ a * b \in Int /\ b * x \in Int /\ 0 - w \in Int
  OBVIOUS
<1>3. s \in Int /\ v \in Int
  <2> DEFINE ab == a * b
  <2>1. x \in Int /\ ab \in Int
    OBVIOUS
  <2> HIDE DEF x, ab
  <2>2. x % Q \in Int /\ ab % Q \in Int
    BY <1>1, <2>1, Division
  <2> QED BY <2>2 DEF ab
<1>4. (s * b) % Q = (b * x) % Q
  <2>1. s * b = b * s
    BY <1>3
  <2> HIDE DEF x
  <2>2. (b * (x % Q)) % Q = (b * x) % Q
    BY <1>1, <1>2, ReducedFactor
  <2> QED BY <2>1, <2>2
<1>5. (h * v) % Q = w % Q
  <2> DEFINE ab == a * b
  <2>1. ab \in Int
    OBVIOUS
  <2> HIDE DEF ab
  <2>2. (h * (ab % Q)) % Q = (h * ab) % Q
    BY <1>1, <2>1, ReducedFactor
  <2> QED BY <2>2 DEF ab
<1>6. (Q - (w % Q)) % Q = (0 - w) % Q
  <2> HIDE DEF w
  <2> QED BY <1>1, <1>2, ReducedNegation
<1> DEFINE y == b * x
           z == 0 - w
<1>7. ((y % Q) + (z % Q)) % Q = (y + z) % Q
  <2>1. y \in Int /\ z \in Int
    BY <1>2
  <2> HIDE DEF y, z
  <2> QED BY <1>1, <2>1, ReducedSum
<1>8. y + z = r * b
  OBVIOUS
<1> HIDE DEF x, w, y, z
<1>9. ((y % Q) + (z % Q)) % Q = (r * b) % Q
  BY <1>7, <1>8
<1>10. Minus(Times(s, <<0, b>>), Times(h, <<0, v>>))
          = <<0, (((s * b) % Q) + ((Q - ((h * v) % Q)) % Q)) % Q>>
  BY <1>3, TimesOfPrimePart, MinusOfPrimePart
<1>11. (((s * b) % Q) + ((Q - ((h * v) % Q)) % Q)) % Q = (r * b) % Q
  BY <1>4, <1>5, <1>6, <1>9 DEF y, z
<1>12. Minus(Times(s, <<0, b>>), Times(h, <<0, v>>)) = Times(r, <<0, b>>)
  BY <1>10, <1>11, TimesOfPrimePart
<1> QED BY <1>12 DEF x, Cancels

(***************************************************************************)
(* What is kept of a signature: the questions that were asked to make it,  *)
(* with their answers, and how V, s and v were made.                       *)
(***************************************************************************)
Points == (0 .. 7) \X (0 .. Q - 1)

Signatures == [V : Points, h : 0 .. Q - 1, s : 0 .. Q - 1]

(***************************************************************************)
(* A signature e, where pts and chs are what nonspec_map_to_curve and the  *)
(* challenge hash have answered: V is the key's multiple of B_v, h answers *)
(* the question that the signer asked, and s is the signer's answer to h.  *)
(***************************************************************************)
SignedOK(pts, chs, e) ==
    LET key == CalculateKeyPair(e.seed)
        i   == <<key.public, e.msg>>
        Bv  == MappedPoint(pts[i])
    IN  /\ e.seed \in Seeds
        /\ e.sig \in Signatures
        /\ i \in DOMAIN pts
        /\ e.sig.V = Times(key.secret, Bv)
        /\ e.v = Vrf(e.sig.V)
        /\ \E r \in Int :
              LET input == <<key.public, e.sig.V, Times(r, BasePoint), Times(r, Bv), e.msg>>
              IN  /\ input \in DOMAIN chs /\ chs[input] = e.sig.h
                  /\ e.sig.s = (r + e.sig.h * key.secret) % Q

(***************************************************************************)
(* What was accepted has canonical scalars, and h is what the challenge    *)
(* hash answered.                                                          *)
(***************************************************************************)
QuestionOf(pts, g) ==
    ChallengeInput(ConvertMont(g.u), MappedPoint(pts[<<ConvertMont(g.u), g.msg>>]),
                   g.msg, g.sig)

AcceptedOK(pts, chs, g) ==
    /\ ConvertMont(g.u) \in Points
    /\ g.sig \in Signatures
    /\ <<ConvertMont(g.u), g.msg>> \in DOMAIN pts
    /\ QuestionOf(pts, g) \in DOMAIN chs
    /\ chs[QuestionOf(pts, g)] = g.sig.h
    /\ g.v = Vrf(g.sig.V)

(***************************************************************************)
(* The inductive invariant.                                                *)
(***************************************************************************)
VInv ==
    /\ \A i \in DOMAIN points : points[i] \in PointHashes
    /\ \A e \in signed : SignedOK(points, challenges, e)
    /\ \A g \in accepted : AcceptedOK(points, challenges, g)

(***************************************************************************)
(* A hash that was asked before gives the same answer, and what it has     *)
(* answered stays.                                                         *)
(***************************************************************************)
Grows(table, more) ==
    \A i \in DOMAIN table : i \in DOMAIN more /\ more[i] = table[i]

(***************************************************************************)
(* An answer that is kept adds to a table and changes nothing in it.       *)
(***************************************************************************)
LEMMA KeepGrows ==
    ASSUME NEW table, NEW input, NEW answer, Ask(table, input, answer)
    PROVE  LET more == Keep(table, input, answer)
           IN  /\ Grows(table, more)
               /\ input \in DOMAIN more /\ more[input] = answer
               /\ \A i \in DOMAIN more : i = input \/ i \in DOMAIN table
BY DEF Ask, Keep, Grows

(***************************************************************************)
(* What is kept of a signature stays true when more questions are          *)
(* answered.                                                               *)
(***************************************************************************)
LEMMA GrowthKeeps ==
    ASSUME NEW pts, NEW chs, NEW pts2, NEW chs2, Grows(pts, pts2), Grows(chs, chs2)
    PROVE  /\ \A e : SignedOK(pts, chs, e) => SignedOK(pts2, chs2, e)
           /\ \A g : AcceptedOK(pts, chs, g) => AcceptedOK(pts2, chs2, g)
<1>1. ASSUME NEW e, SignedOK(pts, chs, e) PROVE SignedOK(pts2, chs2, e)
  <2> DEFINE i == <<CalculateKeyPair(e.seed).public, e.msg>>
  <2>1. i \in DOMAIN pts2 /\ pts2[i] = pts[i]
    BY <1>1 DEF SignedOK, Grows
  <2>2. \A input : input \in DOMAIN chs => input \in DOMAIN chs2 /\ chs2[input] = chs[input]
    BY DEF Grows
  <2> QED BY <1>1, <2>1, <2>2 DEF SignedOK
<1>2. ASSUME NEW g, AcceptedOK(pts, chs, g) PROVE AcceptedOK(pts2, chs2, g)
  BY <1>2 DEF AcceptedOK, QuestionOf, Grows
<1> QED BY <1>1, <1>2

(***************************************************************************)
(* Points of the part of order Q are numbers below Q.                      *)
(***************************************************************************)
LEMMA ReducedIsBelow ==
    ASSUME NEW x \in Int
    PROVE  x % Q \in 0 .. Q - 1
<1>1. Q \in Nat \ {0}
  BY OddOrder
<1>2. x % Q \in Int /\ 0 <= x % Q /\ x % Q < Q
  BY <1>1, Division
<1> QED BY <1>1, <1>2

(***************************************************************************)
(* vxeddsa_sign keeps the invariant.                                       *)
(***************************************************************************)
LEMMA SignKeeps ==
    ASSUME VInv, NEW seed \in Seeds, NEW msg, NEW z, Sign(seed, msg, z)
    PROVE  VInv'
<1> DEFINE key == CalculateKeyPair(seed)
           i == <<key.public, msg>>
<1>1. PICK x \in PointHashes, r \in NonceHashes, h \in ChallengeHashes :
         LET Bv    == MappedPoint(x)
             V     == Times(key.secret, Bv)
             input == <<key.public, V, Times(r, BasePoint), Times(r, Bv), msg>>
         IN  /\ Ask(points, i, x)
             /\ Ask(challenges, input, h)
             /\ points' = Keep(points, i, x)
             /\ challenges' = Keep(challenges, input, h)
             /\ signed' = signed \cup
                   {[seed |-> seed, msg |-> msg, z |-> z, v |-> Vrf(V),
                     sig |-> [V |-> V, h |-> h, s |-> (r + h * key.secret) % Q]]}
             /\ accepted' = accepted
  BY DEF Sign
<1> DEFINE Bv == MappedPoint(x)
           V == Times(key.secret, Bv)
           input == <<key.public, V, Times(r, BasePoint), Times(r, Bv), msg>>
           s == (r + h * key.secret) % Q
           e == [seed |-> seed, msg |-> msg, z |-> z, v |-> Vrf(V),
                 sig |-> [V |-> V, h |-> h, s |-> s]]
<1>2. /\ Grows(points, points') /\ i \in DOMAIN points' /\ points'[i] = x
      /\ \A j \in DOMAIN points' : j = i \/ j \in DOMAIN points
      /\ Grows(challenges, challenges')
      /\ input \in DOMAIN challenges' /\ challenges'[input] = h
  BY <1>1, KeepGrows
<1>3. /\ x \in Int /\ r \in Int /\ h \in 0 .. Q - 1 /\ h \in Int
      /\ key.secret \in Int
  BY GroupAssumption, OddOrder, KeyPairOf
<1>4. V \in Points /\ s \in 0 .. Q - 1
  <2> DEFINE b == (8 * x) % Q
             n == key.secret * b
             k == r + h * key.secret
  <2>1. b \in 0 .. Q - 1 /\ b \in Int /\ Bv = <<0, b>>
    BY <1>3, MappedPointIs, OddOrder
  <2> HIDE DEF b, key
  <2>2. V = <<0, n % Q>>
    BY <1>3, <2>1, TimesOfPrimePart
  <2>3. n \in Int /\ k \in Int
    BY <1>3, <2>1
  <2> HIDE DEF n, k
  <2>4. n % Q \in 0 .. Q - 1 /\ k % Q \in 0 .. Q - 1
    BY <2>3, ReducedIsBelow
  <2> QED BY <2>2, <2>4 DEF Points, n, k
<1>5. SignedOK(points', challenges', e)
  <2>1. e.seed = seed /\ e.msg = msg /\ e.v = Vrf(V)
    OBVIOUS
  <2>2. e.sig = [V |-> V, h |-> h, s |-> s] /\ e.sig \in Signatures
    BY <1>3, <1>4 DEF Signatures
  <2>3. e.sig.V = V /\ e.sig.h = h /\ e.sig.s = s
    BY <2>2
  <2>4. \E n \in Int :
           LET question == <<key.public, V, Times(n, BasePoint), Times(n, Bv), msg>>
           IN  /\ question \in DOMAIN challenges' /\ challenges'[question] = h
               /\ s = (n + h * key.secret) % Q
    BY <1>2, <1>3
  <2> HIDE DEF e, V, s, key
  <2>5. MappedPoint(points'[i]) = Bv
    BY <1>2
  <2> QED BY <1>2, <2>1, <2>2, <2>3, <2>4, <2>5 DEF SignedOK, V, s, key
<1>6. \A f \in signed : SignedOK(points', challenges', f)
  BY <1>2, GrowthKeeps DEF VInv
<1>7. \A g \in accepted : AcceptedOK(points', challenges', g)
  BY <1>2, GrowthKeeps DEF VInv
<1>8. \A j \in DOMAIN points' : points'[j] \in PointHashes
  BY <1>2 DEF VInv, Grows
<1> HIDE DEF e
<1> QED BY <1>1, <1>5, <1>6, <1>7, <1>8 DEF VInv, e

(***************************************************************************)
(* What reaches the verifier is made of points and scalars, of which the   *)
(* canonical ones are kept.                                                *)
(***************************************************************************)
LEMMA ArrivingIs ==
    ASSUME VInv, NEW sig \in Arriving, Canonical(sig)
    PROVE  sig \in Signatures
<1> DEFINE made == {e.sig : e \in signed}
<1>1. Q \in Nat \ {0}
  BY OddOrder
<1>2. made \subseteq Signatures
  BY DEF VInv, SignedOK
<1>3. sig.h < Q /\ sig.s < Q
  BY DEF Canonical
<1>4. \/ sig \in made
      \/ \E g \in made : sig = [g EXCEPT !.s = @ + Q]
      \/ \E g \in made, d \in {<<4, 0>>, <<0, 1>>} : sig = [g EXCEPT !.V = Plus(@, d)]
  BY DEF Arriving
<1> HIDE DEF made
<1>5. ASSUME NEW g \in made, sig = [g EXCEPT !.s = @ + Q] PROVE FALSE
  <2>1. sig.s = g.s + Q /\ g.s \in 0 .. Q - 1
    BY <1>2, <1>5 DEF Signatures
  <2> QED BY <1>1, <1>3, <2>1
<1>6. ASSUME NEW g \in made, NEW d \in {<<4, 0>>, <<0, 1>>},
             sig = [g EXCEPT !.V = Plus(@, d)]
      PROVE  sig \in Signatures
  <2>1. g \in Signatures /\ g.V \in Points
    BY <1>2 DEF Signatures
  <2>2. Plus(g.V, d) \in Points
    <3> DEFINE m == g.V[1] + d[1]
               n == g.V[2] + d[2]
    <3>1. m \in Int /\ n \in Int
      BY <2>1 DEF Points
    <3> HIDE DEF m, n
    <3>2. m % 8 \in 0 .. 7 /\ n % Q \in 0 .. Q - 1
      BY <3>1, ReducedIsBelow
    <3> QED BY <3>2 DEF Plus, Points, m, n
  <2> QED BY <1>6, <2>1, <2>2 DEF Signatures
<1> QED BY <1>2, <1>4, <1>5, <1>6

(***************************************************************************)
(* vxeddsa_verify keeps the invariant.                                     *)
(***************************************************************************)
LEMMA VerifyKeeps ==
    ASSUME VInv, NEW u \in PublicKeys, NEW msg, NEW sig \in Arriving, Verify(u, msg, sig)
    PROVE  VInv'
<1> DEFINE A == ConvertMont(u)
           i == <<A, msg>>
<1>1. PICK x \in PointHashes, h \in ChallengeHashes :
         LET input == ChallengeInput(A, MappedPoint(x), msg, sig)
         IN  /\ u # OffCurve
             /\ Ask(points, i, x)
             /\ Ask(challenges, input, h)
             /\ Accepts(u, msg, sig, x, h)
             /\ points' = Keep(points, i, x)
             /\ challenges' = Keep(challenges, input, h)
             /\ accepted' = accepted \cup
                   {[u |-> u, msg |-> msg, sig |-> sig, v |-> Vrf(sig.V)]}
             /\ signed' = signed
  BY DEF Verify
<1> DEFINE input == ChallengeInput(A, MappedPoint(x), msg, sig)
           g == [u |-> u, msg |-> msg, sig |-> sig, v |-> Vrf(sig.V)]
<1>2. /\ Grows(points, points') /\ i \in DOMAIN points' /\ points'[i] = x
      /\ \A j \in DOMAIN points' : j = i \/ j \in DOMAIN points
      /\ Grows(challenges, challenges')
      /\ input \in DOMAIN challenges' /\ challenges'[input] = h
  BY <1>1, KeepGrows
<1>3. Canonical(sig) /\ sig.h % Q = h
  BY <1>1 DEF Accepts
<1>4. sig \in Signatures /\ sig.h \in 0 .. Q - 1
  BY <1>3, ArrivingIs DEF Signatures
<1>5. sig.h = h
  BY <1>3, <1>4, OddOrder, SmallRemainder
<1>6. AcceptedOK(points', challenges', g)
  <2>1. QuestionOf(points', g) = input
    BY <1>2 DEF QuestionOf
  <2>2. A \in Points
    <3>1. CASE u = U(Identity)
      <4>1. u = {<<4, 0>>} /\ SignBit(<<4, 0>>) = 0
        BY <3>1 DEF U, SignBit
      <4>2. A = <<4, 0>>
        BY <4>1 DEF ConvertMont
      <4> HIDE DEF A
      <4> QED BY <4>2, OddOrder DEF Points
    <3>2. ASSUME NEW seed \in Seeds, u = GenPubkey(seed) PROVE A \in Points
      <4> DEFINE a == CalculateKeyPair(seed).secret
      <4>1. A = <<0, a>> /\ a \in 1 .. Q - 1
        BY <3>2, KeyPairOf
      <4> HIDE DEF a, A
      <4> QED BY <4>1, OddOrder DEF Points
    <3> QED BY <1>1, <3>1, <3>2 DEF PublicKeys
  <2> QED BY <1>2, <1>4, <1>5, <2>1, <2>2 DEF AcceptedOK
<1>7. \A e \in signed : SignedOK(points', challenges', e)
  BY <1>2, GrowthKeeps DEF VInv
<1>8. \A f \in accepted : AcceptedOK(points', challenges', f)
  BY <1>2, GrowthKeeps DEF VInv
<1>9. \A j \in DOMAIN points' : points'[j] \in PointHashes
  BY <1>2 DEF VInv, Grows
<1> HIDE DEF g
<1> QED BY <1>1, <1>6, <1>7, <1>8, <1>9 DEF VInv, g

-----------------------------------------------------------------------------
(***************************************************************************)
(* VInv is an inductive invariant.                                         *)
(***************************************************************************)
THEOREM SignatureInvariance == Spec => []VInv
<1>1. Init => VInv
  BY DEF Init, VInv
<1>2. VInv /\ [Next]_vars => VInv'
  <2> SUFFICES ASSUME VInv, [Next]_vars PROVE VInv'
    OBVIOUS
  <2>1. ASSUME NEW seed \in Seeds, NEW msg \in Messages, NEW z \in Randoms,
               Sign(seed, msg, z)
        PROVE  VInv'
    BY <2>1, SignKeeps
  <2>2. ASSUME NEW u \in PublicKeys, NEW msg \in Messages, NEW sig \in Arriving,
               Verify(u, msg, sig)
        PROVE  VInv'
    BY <2>2, VerifyKeeps
  <2>3. CASE UNCHANGED vars
    BY <2>3 DEF vars, VInv
  <2> QED BY <2>1, <2>2, <2>3 DEF Next
<1> QED BY <1>1, <1>2, PTL DEF Spec

-----------------------------------------------------------------------------
(* What vxeddsa_verify accepts.                                            *)

LEMMA SumCancels ==
    ASSUME NEW x \in 0 .. Q - 1, NEW y \in 0 .. Q - 1, NEW d \in Int,
           (x + d) % Q = (y + d) % Q
    PROVE  x = y
<1>1. Q \in Nat \ {0}
  BY OddOrder
<1> DEFINE m == x + d
           n == y + d
<1>2. m \in Int /\ n \in Int
  BY <1>1
<1>3. m % Q = n % Q
  OBVIOUS
<1> HIDE DEF m, n
<1>4. PICK k \in Int : m = n + Q * k
  <2>1. MultipleApart(Q, m, n)
    BY <1>1, <1>2, <1>3, SameRemainder
  <2> QED BY <2>1 DEF MultipleApart
<1>5. Q * k = x - y
  BY <1>1, <1>4 DEF m, n
<1>6. k = 0
  <2>1. Q * k < Q /\ 0 - Q < Q * k
    BY <1>1, <1>5
  <2> QED BY <1>1, <2>1, Multiples
<1> QED BY <1>1, <1>5, <1>6

(***************************************************************************)
(* R = s B - h A determines s, if h and A are given.                       *)
(***************************************************************************)
LEMMA CommitmentDetermines ==
    ASSUME NEW A \in Points, NEW h \in Int,
           NEW s \in 0 .. Q - 1, NEW t \in 0 .. Q - 1,
           Minus(Times(s, BasePoint), Times(h, A)) = Minus(Times(t, BasePoint), Times(h, A))
    PROVE  s = t
<1>1. Q \in Nat \ {0}
  BY OddOrder
<1> DEFINE y == (h * A[2]) % Q
           d == (Q - y) % Q
<1>2. d \in Int
  <2> DEFINE n == h * A[2]
  <2>1. n \in Int
    BY DEF Points
  <2> HIDE DEF n
  <2>2. n % Q \in Int
    BY <2>1, <1>1, Division
  <2> DEFINE m == Q - (n % Q)
  <2>3. m \in Int
    BY <1>1, <2>2
  <2> HIDE DEF m
  <2>4. m % Q \in Int
    BY <2>3, <1>1, Division
  <2> QED BY <2>4 DEF m, n
<1>3. ASSUME NEW k \in 0 .. Q - 1
      PROVE  Minus(Times(k, BasePoint), Times(h, A))[2] = (k + d) % Q
  <2>1. Times(k, BasePoint) = <<0, k>>
    <3>1. k % Q = k /\ k \in Int
      BY <1>1, SmallRemainder
    <3> QED BY <3>1, TimesBasePoint
  <2>2. Times(h, A)[2] = y
    BY DEF Times
  <2>3. Negated(Times(h, A))[2] = d
    BY <2>2 DEF Negated
  <2> HIDE DEF d
  <2> QED BY <2>1, <2>3 DEF Minus, Plus
<1> HIDE DEF d
<1>4. (s + d) % Q = (t + d) % Q
  BY <1>3
<1> QED BY <1>2, <1>4, SumCancels

(***************************************************************************)
(* A signature that the challenge hash made valid cannot be changed into   *)
(* another one that the same answer makes valid.                           *)
(***************************************************************************)
THEOREM SignaturesAreRigid == Spec => []NotMalleable
<1>1. VInv => NotMalleable
  <2> SUFFICES ASSUME VInv, NEW e \in accepted, NEW f \in accepted,
                      QuestionOf(points, e) = QuestionOf(points, f)
               PROVE  e.sig = f.sig
    BY DEF NotMalleable, QuestionOf
  <2>1. AcceptedOK(points, challenges, e) /\ AcceptedOK(points, challenges, f)
    BY DEF VInv
  <2> DEFINE A == ConvertMont(e.u)
             B == ConvertMont(f.u)
             R(P, sig) == Minus(Times(sig.s % Q, BasePoint), Times(sig.h % Q, P))
  <2>2. A = B /\ e.sig.V = f.sig.V /\ R(A, e.sig) = R(B, f.sig)
    BY DEF QuestionOf, ChallengeInput, Commitments
  <2>3. /\ A \in Points /\ e.sig \in Signatures /\ f.sig \in Signatures
        /\ e.sig.h = f.sig.h
    BY <2>1 DEF AcceptedOK
  <2>4. /\ e.sig.h \in 0 .. Q - 1 /\ e.sig.s \in 0 .. Q - 1 /\ f.sig.s \in 0 .. Q - 1
    BY <2>3 DEF Signatures
  <2>5. e.sig.h % Q = e.sig.h /\ e.sig.s % Q = e.sig.s /\ f.sig.s % Q = f.sig.s
    BY <2>4, OddOrder, SmallRemainder
  <2>6. e.sig.s = f.sig.s
    <3>1. e.sig.h \in Int
      BY <2>4, OddOrder
    <3>2. Minus(Times(e.sig.s, BasePoint), Times(e.sig.h, A))
             = Minus(Times(f.sig.s, BasePoint), Times(e.sig.h, A))
      BY <2>2, <2>3, <2>5
    <3> HIDE DEF A
    <3> QED BY <2>3, <2>4, <3>1, <3>2, CommitmentDetermines
  <2> QED BY <2>2, <2>3, <2>6 DEF Signatures
<1> QED BY <1>1, SignatureInvariance, PTL

(***************************************************************************)
(* Points of the part of order Q other than the identity do not become it  *)
(* under the cofactor, and a multiple of one is no identity either.        *)
(***************************************************************************)
LEMMA NoSmallOrder ==
    ASSUME NEW n \in 1 .. Q - 1
    PROVE  /\ MulByCofactor(<<0, n>>) # Identity
           /\ \A b \in 1 .. Q - 1 : (b * n) % Q \in 1 .. Q - 1
<1>1. Q \in Nat \ {0} /\ n \in Int /\ n % Q = n
  BY OddOrder, SmallRemainder
<1>2. (8 * n) % Q # 0
  <2> SUFFICES ASSUME (8 * n) % Q = 0 PROVE FALSE
    OBVIOUS
  <2>1. n % Q = 0
    BY <1>1, CofactorCancels
  <2> QED BY <1>1, <2>1
<1>3. MulByCofactor(<<0, n>>) # Identity
  <2>1. MulByCofactor(<<0, n>>) = <<0, (8 * n) % Q>>
    BY <1>1, TimesOfPrimePart DEF MulByCofactor
  <2> QED BY <1>2, <2>1 DEF Identity
<1>4. ASSUME NEW b \in 1 .. Q - 1 PROVE (b * n) % Q \in 1 .. Q - 1
  <2>1. b \in Int /\ b % Q = b
    BY <1>1, SmallRemainder
  <2>2. (b * n) % Q # 0
    <3> SUFFICES ASSUME (b * n) % Q = 0 PROVE FALSE
      OBVIOUS
    <3>1. b % Q # 0 /\ n \in Int
      BY <1>1, <2>1
    <3>2. n % Q = 0
      BY <2>1, <3>1, NoZeroDivisors, Zenon
    <3> QED BY <1>1, <3>2
  <2> DEFINE m == b * n
  <2>3. m \in Int /\ m % Q # 0
    BY <1>1, <2>1, <2>2
  <2> HIDE DEF m
  <2>4. m % Q \in 0 .. Q - 1
    BY <2>3, ReducedIsBelow
  <2>5. m % Q \in 1 .. Q - 1
    BY <1>1, <2>3, <2>4
  <2> QED BY <2>5 DEF m
<1> QED BY <1>3, <1>4

(***************************************************************************)
(* The verifier asks the signer's question: both compute the same R and    *)
(* R_v.                                                                    *)
(***************************************************************************)
SameQuestion(a, x, r, h) ==
    LET Bv == MappedPoint(x)
        s  == (r + h * a) % Q
    IN  Commitments(<<0, a>>, Times(a, Bv), Bv, h, s)
            = <<Times(r, BasePoint), Times(r, Bv)>>

LEMMA VerifierAsksTheSame ==
    ASSUME NEW a \in 1 .. Q - 1, NEW x \in Int, NEW r \in Int, NEW h \in Int
    PROVE  SameQuestion(a, x, r, h)
<1> DEFINE Bv == MappedPoint(x)
           s == (r + h * a) % Q
           b == (8 * x) % Q
<1>1. Q \in Nat \ {0} /\ a \in Int /\ a % Q = a
  BY OddOrder, SmallRemainder
<1>2. Bv = <<0, b>> /\ b \in Int
  BY MappedPointIs, OddOrder
<1> HIDE DEF Bv, b
<1>3. Minus(Times(s, Bv), Times(h, Times(a, Bv))) = Times(r, Bv)
  <2>1. Times(a, Bv) = <<0, (a * b) % Q>>
    BY <1>1, <1>2, TimesOfPrimePart
  <2>2. Minus(Times(s, <<0, b>>), Times(h, <<0, (a * b) % Q>>)) = Times(r, <<0, b>>)
    <3>1. Cancels(r, h, a, b)
      BY <1>1, <1>2, CommitmentCancels
    <3> QED BY <3>1 DEF Cancels
  <2> HIDE DEF s
  <2> QED BY <1>2, <2>1, <2>2
<1>4. Minus(Times(s, BasePoint), Times(h, <<0, a>>)) = Times(r, BasePoint)
  <2> DEFINE one == 1
  <2>1. one \in Int /\ (a * one) % Q = a
    BY <1>1
  <2>2. BasePoint = <<0, one>>
    BY DEF BasePoint
  <2> HIDE DEF one
  <2>3. Minus(Times(s, <<0, one>>), Times(h, <<0, (a * one) % Q>>)) = Times(r, <<0, one>>)
    <3>1. Cancels(r, h, a, one)
      BY <1>1, <2>1, CommitmentCancels
    <3> QED BY <3>1 DEF Cancels
  <2> HIDE DEF s
  <2> QED BY <2>1, <2>2, <2>3
<1> HIDE DEF s
<1>5. Commitments(<<0, a>>, Times(a, Bv), Bv, h, s) = <<Times(r, BasePoint), Times(r, Bv)>>
  BY <1>3, <1>4 DEF Commitments
<1> QED BY <1>5 DEF s, Bv, SameQuestion

(***************************************************************************)
(* Every signature made verifies under the public key of gen_pubkey, with  *)
(* the signer's VRF output, for every seed: the sign bit that the signer   *)
(* has made 0 is the one that the verifier assumes.                        *)
(***************************************************************************)
THEOREM SignaturesVerify == Spec => []SignedVerifies
<1>1. VInv => SignedVerifies
  <2> SUFFICES ASSUME VInv, NEW e \in signed
               PROVE  LET u == GenPubkey(e.seed)
                          A == ConvertMont(u)
                      IN  /\ <<A, e.msg>> \in DOMAIN points
                          /\ LET x     == points[<<A, e.msg>>]
                                 input == ChallengeInput(A, MappedPoint(x), e.msg, e.sig)
                             IN  MappedPoint(x) # Identity =>
                                    /\ input \in DOMAIN challenges
                                    /\ Accepts(u, e.msg, e.sig, x, challenges[input])
                                    /\ Vrf(e.sig.V) = e.v
    BY DEF SignedVerifies
  <2> DEFINE a == CalculateKeyPair(e.seed).secret
             u == GenPubkey(e.seed)
             A == ConvertMont(u)
             x == points[<<A, e.msg>>]
             Bv == MappedPoint(x)
             V == e.sig.V
             h == e.sig.h
             s == e.sig.s
             input == ChallengeInput(A, Bv, e.msg, e.sig)
  <2>1. SignedOK(points, challenges, e) /\ Q \in Nat \ {0}
    BY OddOrder DEF VInv
  <2>2. /\ a \in 1 .. Q - 1
        /\ CalculateKeyPair(e.seed).public = <<0, a>>
        /\ A = <<0, a>>
    BY <2>1, KeyPairOf DEF SignedOK
  <2>3. /\ <<A, e.msg>> \in DOMAIN points
        /\ V = Times(a, Bv) /\ e.v = Vrf(V)
        /\ e.sig \in Signatures
        /\ \E r \in Int :
              LET question == <<A, V, Times(r, BasePoint), Times(r, Bv), e.msg>>
              IN  /\ question \in DOMAIN challenges /\ challenges[question] = h
                  /\ s = (r + h * a) % Q
    BY <2>1, <2>2 DEF SignedOK
  <2>4. PICK r \in Int :
           LET question == <<A, V, Times(r, BasePoint), Times(r, Bv), e.msg>>
           IN  /\ question \in DOMAIN challenges /\ challenges[question] = h
               /\ s = (r + h * a) % Q
    BY <2>3
  <2>5. x \in Int
    BY <2>3, GroupAssumption DEF VInv
  <2>6. /\ h \in 0 .. Q - 1 /\ s \in 0 .. Q - 1 /\ h \in Int
        /\ h % Q = h /\ s % Q = s
    BY <2>1, <2>3, SmallRemainder DEF Signatures
  <2>7. input = <<A, V, Times(r, BasePoint), Times(r, Bv), e.msg>>
    <3>1. Commitments(A, V, Bv, h, s) = <<Times(r, BasePoint), Times(r, Bv)>>
      <4> HIDE DEF a, A, x, h, s
      <4>1. SameQuestion(a, x, r, h)
        BY <2>2, <2>4, <2>5, <2>6, VerifierAsksTheSame
      <4> QED BY <2>2, <2>3, <2>4, <4>1 DEF Bv, SameQuestion
    <3> QED BY <2>6, <3>1 DEF ChallengeInput
  <2>8. input \in DOMAIN challenges /\ challenges[input] = h
    BY <2>4, <2>7
  <2>9. ASSUME Bv # Identity PROVE ~SmallOrder(A, V, Bv)
    <3> DEFINE b == (8 * x) % Q
               v == (a * b) % Q
    <3>1. Bv = <<0, b>> /\ b \in 0 .. Q - 1
      BY <2>5, MappedPointIs
    <3> HIDE DEF b, Bv, a, x
    <3>2. b \in 1 .. Q - 1
      BY <2>1, <2>9, <3>1 DEF Identity
    <3>3. V = <<0, v>>
      BY <2>1, <2>2, <2>3, <3>1, TimesOfPrimePart
    <3>4. v \in 1 .. Q - 1
      BY <2>2, <3>2, NoSmallOrder
    <3> HIDE DEF v, V, A
    <3>5. MulByCofactor(A) # Identity /\ MulByCofactor(V) # Identity
      BY <2>2, <3>3, <3>4, NoSmallOrder
    <3> QED BY <2>9, <3>5 DEF SmallOrder
  <2>10. Bv # Identity => Accepts(u, e.msg, e.sig, x, challenges[input])
    <3>1. Canonical(e.sig)
      BY <2>1, <2>6 DEF Canonical
    <3> QED BY <2>6, <2>8, <2>9, <3>1 DEF Accepts
  <2> QED BY <2>3, <2>8, <2>10
<1> QED BY <1>1, SignatureInvariance, PTL

(***************************************************************************)
(* Numbers below Q whose difference Q divides are the same.                *)
(***************************************************************************)
LEMMA BelowQ ==
    ASSUME NEW x \in 0 .. Q - 1, NEW y \in 0 .. Q - 1, (x - y) % Q = 0
    PROVE  x = y
<1>1. Q \in Nat \ {0}
  BY OddOrder
<1> DEFINE d == x - y
<1>2. d \in Int /\ d % Q = 0 /\ d < Q /\ 0 - Q < d
  BY <1>1
<1> HIDE DEF d
<1>3. PICK k \in Int : d = Q * k
  BY <1>1, <1>2, MultipleOf
<1>4. k = 0
  BY <1>1, <1>2, <1>3, Multiples
<1>5. d = 0
  BY <1>1, <1>3, <1>4
<1> QED BY <1>1, <1>5 DEF d

(***************************************************************************)
(* A factor that Q does not divide cancels.                                *)
(***************************************************************************)
LEMMA FactorCancels ==
    ASSUME NEW c \in Int, NEW x \in 0 .. Q - 1, NEW y \in 0 .. Q - 1,
           c % Q # 0, (c * x) % Q = (c * y) % Q
    PROVE  x = y
<1>1. Q \in Nat \ {0} /\ x \in Int /\ y \in Int
  BY OddOrder
<1> DEFINE m == c * x
           n == c * y
           d == x - y
<1>2. m \in Int /\ n \in Int /\ d \in Int /\ m % Q = n % Q
  BY <1>1
<1>3. m - n = c * d
  BY <1>1
<1> HIDE DEF m, n, d
<1>4. PICK k \in Int : m = n + Q * k
  <2>1. MultipleApart(Q, m, n)
    BY <1>1, <1>2, SameRemainder
  <2> QED BY <2>1 DEF MultipleApart
<1>5. (c * d) % Q = 0
  <2> DEFINE e == c * d
  <2>1. e \in Int /\ e = Q * k
    BY <1>1, <1>2, <1>3, <1>4
  <2> HIDE DEF e
  <2>2. e % Q = 0
    BY <1>1, <2>1, MultipleOf
  <2> QED BY <2>2 DEF e
<1>6. d % Q = 0
  BY <1>2, <1>5, NoZeroDivisors, Zenon
<1> QED BY <1>6, BelowQ DEF d

(***************************************************************************)
(* If the random number generator repeats itself, a nonce is shared only   *)
(* by signatures whose messages have the same B_v: V, which is part of     *)
(* what is hashed, tells the others apart.                                 *)
(***************************************************************************)
THEOREM NoncesAreBound == Spec => []NonceBoundToMessage
<1>1. VInv => NonceBoundToMessage
  <2> SUFFICES ASSUME VInv, NEW e \in signed, NEW f \in signed, e.seed = f.seed,
                      NonceInput(CalculateKeyPair(e.seed).secret, e.sig.V, e.z)
                         = NonceInput(CalculateKeyPair(e.seed).secret, f.sig.V, f.z)
               PROVE  LET key == CalculateKeyPair(e.seed)
                      IN  points[<<key.public, e.msg>>] = points[<<key.public, f.msg>>]
    BY DEF NonceBoundToMessage
  <2> DEFINE key == CalculateKeyPair(e.seed)
             a == key.secret
             x == points[<<key.public, e.msg>>]
             y == points[<<key.public, f.msg>>]
             b == (8 * x) % Q
             c == (8 * y) % Q
  <2>1. /\ SignedOK(points, challenges, e) /\ SignedOK(points, challenges, f)
        /\ Q \in Nat \ {0}
    BY OddOrder DEF VInv
  <2>2. /\ a \in 1 .. Q - 1
        /\ Times(a, MappedPoint(x)) = Times(a, MappedPoint(y))
        /\ <<key.public, e.msg>> \in DOMAIN points
        /\ <<key.public, f.msg>> \in DOMAIN points
    BY <2>1, KeyPairOf DEF SignedOK, NonceInput
  <2>3. x \in 0 .. Q - 1 /\ y \in 0 .. Q - 1 /\ x \in Int /\ y \in Int
    BY <2>1, <2>2, GroupAssumption DEF VInv
  <2>4. /\ MappedPoint(x) = <<0, b>> /\ b \in 0 .. Q - 1
        /\ MappedPoint(y) = <<0, c>> /\ c \in 0 .. Q - 1
    BY <2>3, MappedPointIs
  <2> HIDE DEF a, b, c, x, y
  <2>5. (a * b) % Q = (a * c) % Q
    BY <2>1, <2>2, <2>4, TimesOfPrimePart
  <2>6. a \in Int /\ a % Q # 0
    BY <2>1, <2>2, SmallRemainder
  <2>7. b = c
    BY <2>4, <2>5, <2>6, FactorCancels
  <2>8. 8 % Q # 0
    <3> SUFFICES ASSUME 8 % Q = 0 PROVE FALSE
      OBVIOUS
    <3>1. (8 * 1) % Q = 0
      OBVIOUS
    <3>2. 1 % Q = 0
      BY <3>1, CofactorCancels
    <3> QED BY <2>1, <2>2, <3>2, SmallRemainder
  <2> DEFINE eight == 8
  <2>9. eight \in Int /\ eight % Q # 0 /\ (eight * x) % Q = (eight * y) % Q
    BY <2>7, <2>8 DEF b, c
  <2> HIDE DEF eight
  <2>10. x = y
    BY <2>3, <2>9, FactorCancels
  <2> QED BY <2>10 DEF x, y
<1> QED BY <1>1, SignatureInvariance, PTL

(***************************************************************************)
(* The part of order Q of s P - h R, by one remainder.                     *)
(***************************************************************************)
LEMMA MinusIsDifference ==
    ASSUME NEW s \in Int, NEW h \in Int, NEW P, NEW R, P[2] \in Int, R[2] \in Int
    PROVE  Minus(Times(s, P), Times(h, R))[2] = (s * P[2] - h * R[2]) % Q
<1> DEFINE m == s * P[2]
           n == h * R[2]
<1>1. Q \in Nat \ {0} /\ m \in Int /\ n \in Int
  BY OddOrder
<1>2. Minus(Times(s, P), Times(h, R))[2] = ((m % Q) + ((Q - (n % Q)) % Q)) % Q
  BY DEF Minus, Plus, Negated, Times
<1> HIDE DEF m, n
<1>3. (Q - (n % Q)) % Q = (0 - n) % Q
  BY <1>1, ReducedNegation
<1> DEFINE z == 0 - n
<1>4. z \in Int /\ m + z = m - n
  BY <1>1
<1> HIDE DEF z
<1>5. ((m % Q) + (z % Q)) % Q = (m + z) % Q
  BY <1>1, <1>4, ReducedSum
<1> QED BY <1>2, <1>3, <1>4, <1>5 DEF z, m, n

(***************************************************************************)
(* V = <<.., y>> is not a B_v for B_v = <<0, b>>.                          *)
(***************************************************************************)
WrongOutput(a, b, y) == y # (a * b) % Q

(***************************************************************************)
(* No two pairs of a challenge and an answer lead to the same part of      *)
(* order Q of R and of R_v.                                                *)
(***************************************************************************)
PairsAreTold(a, b, y) ==
    \A h, i, s, t \in 0 .. Q - 1 :
        /\ (s - h * a) % Q = (t - i * a) % Q
        /\ (s * b - h * y) % Q = (t * b - i * y) % Q
        => h = i /\ s = t

(***************************************************************************)
(* If V is not a B_v, challenges and answers are told apart: what R and    *)
(* R_v say of two challenges is (a b - y) times their difference.          *)
(***************************************************************************)
LEMMA ChallengesAreTold ==
    ASSUME NEW a \in Int, NEW b \in Int, NEW y \in 0 .. Q - 1, WrongOutput(a, b, y)
    PROVE  PairsAreTold(a, b, y)
<1> SUFFICES ASSUME NEW h \in 0 .. Q - 1, NEW i \in 0 .. Q - 1,
                    NEW s \in 0 .. Q - 1, NEW t \in 0 .. Q - 1,
                    (s - h * a) % Q = (t - i * a) % Q,
                    (s * b - h * y) % Q = (t * b - i * y) % Q
             PROVE  h = i /\ s = t
  BY DEF PairsAreTold
<1>1. /\ Q \in Nat \ {0} /\ y \in Int /\ h \in Int /\ i \in Int
      /\ s \in Int /\ t \in Int
  BY OddOrder
<1> DEFINE r1 == s - h * a
           r2 == t - i * a
           v1 == s * b - h * y
           v2 == t * b - i * y
<1>2. /\ r1 \in Int /\ r2 \in Int /\ v1 \in Int /\ v2 \in Int
      /\ r1 % Q = r2 % Q /\ v1 % Q = v2 % Q
  BY <1>1
<1> HIDE DEF r1, r2, v1, v2
<1>3. PICK k \in Int : r1 = r2 + Q * k
  <2>1. MultipleApart(Q, r1, r2)
    BY <1>1, <1>2, SameRemainder
  <2> QED BY <2>1 DEF MultipleApart
<1>4. PICK l \in Int : v1 = v2 + Q * l
  <2>1. MultipleApart(Q, v1, v2)
    BY <1>1, <1>2, SameRemainder
  <2> QED BY <2>1 DEF MultipleApart
<1> DEFINE c == a * b - y
           d == h - i
           j == l - b * k
<1>5. c \in Int /\ d \in Int /\ j \in Int
  BY <1>1
<1>6. c * d = Q * j
  <2>1. s - h * a = t - i * a + Q * k
    BY <1>1, <1>3 DEF r1, r2
  <2>2. s * b - h * y = t * b - i * y + Q * l
    BY <1>1, <1>4 DEF v1, v2
  <2>3. b * (s - h * a) = b * (t - i * a + Q * k)
    BY <2>1
  <2>4. b * (s - h * a) = s * b - (a * b) * h
    BY <1>1
  <2>5. b * (t - i * a + Q * k) = t * b - (a * b) * i + Q * (b * k)
    BY <1>1
  <2>6. s * b - (a * b) * h = t * b - (a * b) * i + Q * (b * k)
    BY <2>3, <2>4, <2>5
  <2>7. c * d = (a * b) * h - (a * b) * i - h * y + i * y
    BY <1>1
  <2>8. Q * j = Q * l - Q * (b * k)
    BY <1>1
  <2> HIDE DEF c, d, j
  <2> DEFINE p1 == s * b
             p2 == (a * b) * h
             p3 == (a * b) * i
             p4 == t * b
             p5 == h * y
             p6 == i * y
             p7 == Q * l
             p8 == Q * (b * k)
  <2>9. /\ p1 \in Int /\ p2 \in Int /\ p3 \in Int /\ p4 \in Int
        /\ p5 \in Int /\ p6 \in Int /\ p7 \in Int /\ p8 \in Int
    BY <1>1
  <2>10. /\ p1 - p2 = p4 - p3 + p8
         /\ p1 - p5 = p4 - p6 + p7
         /\ c * d = p2 - p3 - p5 + p6
         /\ Q * j = p7 - p8
    BY <2>2, <2>6, <2>7, <2>8
  <2> HIDE DEF p1, p2, p3, p4, p5, p6, p7, p8
  <2> QED BY <2>9, <2>10
<1>7. c % Q # 0
  <2> SUFFICES ASSUME c % Q = 0 PROVE FALSE
    OBVIOUS
  <2> DEFINE n == a * b
  <2>1. n \in Int /\ c = n - y
    BY <1>1
  <2> HIDE DEF c, n
  <2>2. PICK m \in Int : c = Q * m
    BY <1>1, <1>5, MultipleOf
  <2>3. n = Q * m + y
    BY <1>1, <2>1, <2>2
  <2>4. n % Q = y
    BY <1>1, <2>1, <2>3, RemainderIs
  <2> QED BY <2>4 DEF n, WrongOutput
<1> HIDE DEF c, d, j
<1>8. (c * d) % Q = 0
  <2> DEFINE e == c * d
  <2>1. e \in Int /\ e = Q * j
    BY <1>5, <1>6
  <2> HIDE DEF e
  <2>2. e % Q = 0
    BY <1>1, <1>5, <2>1, MultipleOf
  <2> QED BY <2>2 DEF e
<1>9. d % Q = 0
  BY <1>5, <1>7, <1>8, NoZeroDivisors, Zenon
<1>10. h = i
  BY <1>9, BelowQ DEF d
<1>11. s = t
  <2>1. Q * k = s - t
    BY <1>1, <1>3, <1>10 DEF r1, r2
  <2>2. Q * k < Q /\ 0 - Q < Q * k
    BY <1>1, <2>1
  <2>3. k = 0
    BY <1>1, <2>2, Multiples
  <2> QED BY <1>1, <2>1, <2>3
<1> QED BY <1>10, <1>11

(***************************************************************************)
(* If V is not a B_v, commitments tell the challenge.                      *)
(***************************************************************************)
LEMMA CommitmentsTell ==
    ASSUME NEW a \in Int, NEW b \in Int, NEW V \in Points, WrongOutput(a, b, V[2]),
           NEW h \in 0 .. Q - 1, NEW i \in 0 .. Q - 1,
           NEW s \in 0 .. Q - 1, NEW t \in 0 .. Q - 1,
           Commitments(<<0, a>>, V, <<0, b>>, h, s) = Commitments(<<0, a>>, V, <<0, b>>, i, t)
    PROVE  h = i
<1> DEFINE one == 1
           y == V[2]
           P == <<0, one>>
           A == <<0, a>>
           Bv == <<0, b>>
<1>1. /\ h \in Int /\ i \in Int /\ s \in Int /\ t \in Int /\ one \in Int
      /\ y \in 0 .. Q - 1 /\ y \in Int
      /\ P[2] = one /\ A[2] = a /\ Bv[2] = b /\ P = BasePoint
  BY OddOrder DEF Points, BasePoint
<1> HIDE DEF one, P, A, Bv
<1>2. /\ Minus(Times(s, P), Times(h, A))[2] = Minus(Times(t, P), Times(i, A))[2]
      /\ Minus(Times(s, Bv), Times(h, V))[2] = Minus(Times(t, Bv), Times(i, V))[2]
  BY <1>1 DEF Commitments, A, Bv
<1>3. (s * one - h * a) % Q = (t * one - i * a) % Q
  <2>1. /\ Minus(Times(s, P), Times(h, A))[2] = (s * P[2] - h * A[2]) % Q
        /\ Minus(Times(t, P), Times(i, A))[2] = (t * P[2] - i * A[2]) % Q
    BY <1>1, MinusIsDifference
  <2> QED BY <1>1, <1>2, <2>1
<1>4. (s * b - h * y) % Q = (t * b - i * y) % Q
  <2>1. /\ Minus(Times(s, Bv), Times(h, V))[2] = (s * Bv[2] - h * y) % Q
        /\ Minus(Times(t, Bv), Times(i, V))[2] = (t * Bv[2] - i * y) % Q
    BY <1>1, MinusIsDifference
  <2> QED BY <1>1, <1>2, <2>1
<1>5. s * one = s /\ t * one = t
  BY <1>1 DEF one
<1>6. PairsAreTold(a, b, y)
  BY <1>1, ChallengesAreTold
<1> QED BY <1>3, <1>4, <1>5, <1>6 DEF PairsAreTold

(***************************************************************************)
(* An accepted signature has the VRF output of the owner of the key, or    *)
(* the verifier was lucky: if V is wrong by more than a point of small     *)
(* order, all that anybody could have answered to the same question is     *)
(* one challenge, and the hash happened to be it.                          *)
(***************************************************************************)
THEOREM OutputsAgreeOrLuck == Spec => []OneOutputOrLuck
<1>1. VInv => OneOutputOrLuck
  <2> SUFFICES ASSUME VInv, NEW e \in accepted, NEW seed \in Seeds, e.u = GenPubkey(seed)
               PROVE  LET key      == CalculateKeyPair(seed)
                          x        == points[<<key.public, e.msg>>]
                          Bv       == MappedPoint(x)
                          Asked(g) == ChallengeInput(key.public, Bv, e.msg, g)
                      IN  \/ e.v = Vrf(Times(key.secret, Bv))
                          \/ \A g \in [V : {e.sig.V}, h : 0 .. Q - 1, s : 0 .. Q - 1] :
                                Asked(g) = Asked(e.sig) /\ Accepts(e.u, e.msg, g, x, g.h)
                                   => g.h = challenges[Asked(e.sig)]
    BY DEF OneOutputOrLuck
  <2> DEFINE key == CalculateKeyPair(seed)
             a == key.secret
             x == points[<<key.public, e.msg>>]
             b == (8 * x) % Q
             V == e.sig.V
             Asked(g) == ChallengeInput(key.public, MappedPoint(x), e.msg, g)
  <2>1. /\ a \in 1 .. Q - 1 /\ key.public = <<0, a>> /\ ConvertMont(e.u) = key.public
        /\ Q \in Nat \ {0}
    BY KeyPairOf, OddOrder
  <2>2. AcceptedOK(points, challenges, e)
    BY DEF VInv
  <2>3. /\ <<key.public, e.msg>> \in DOMAIN points
        /\ e.sig \in Signatures /\ V \in Points
        /\ challenges[Asked(e.sig)] = e.sig.h
        /\ e.v = Vrf(V)
    BY <2>1, <2>2 DEF AcceptedOK, QuestionOf, Signatures
  <2>4. x \in Int
    BY <2>3, GroupAssumption DEF VInv
  <2>5. MappedPoint(x) = <<0, b>> /\ b \in 0 .. Q - 1 /\ b \in Int
    <3> HIDE DEF x
    <3>1. MappedPoint(x) = <<0, b>> /\ b \in 0 .. Q - 1
      BY <2>4, MappedPointIs
    <3> HIDE DEF b
    <3> QED BY <2>1, <3>1
  <2> SUFFICES ASSUME e.v # Vrf(Times(a, MappedPoint(x))),
                      NEW g \in [V : {V}, h : 0 .. Q - 1, s : 0 .. Q - 1],
                      Asked(g) = Asked(e.sig)
               PROVE  g.h = e.sig.h
    BY <2>3, Zenon
  <2>6. WrongOutput(a, b, V[2])
    <3> DEFINE v == (a * b) % Q
    <3> HIDE DEF a, b, x, V
    <3>1. SUFFICES ASSUME V[2] = v PROVE FALSE
      BY DEF WrongOutput
    <3>2. Times(a, <<0, b>>) = <<0, v>>
      <4>1. a \in Int /\ b \in Int
        BY <2>1, <2>5
      <4> QED BY <4>1, TimesOfPrimePart
    <3>3. MulByCofactor(V) = MulByCofactor(<<0, v>>)
      <4>1. (8 * V[1]) % 8 = (8 * 0) % 8
        BY <2>3 DEF Points
      <4> HIDE DEF v
      <4> QED BY <3>1, <4>1 DEF MulByCofactor, Times
    <3> QED BY <2>3, <2>5, <3>2, <3>3 DEF Vrf
  <2> DEFINE h == e.sig.h
             s == e.sig.s
             i == g.h
             t == g.s
  <2>7. /\ h \in 0 .. Q - 1 /\ s \in 0 .. Q - 1 /\ i \in 0 .. Q - 1 /\ t \in 0 .. Q - 1
        /\ g.V = V
    BY <2>3 DEF Signatures
  <2>8. h % Q = h /\ s % Q = s /\ i % Q = i /\ t % Q = t
    BY <2>1, <2>7, SmallRemainder
  <2>9. /\ Commitments(<<0, a>>, V, <<0, b>>, h % Q, s % Q)[1]
              = Commitments(<<0, a>>, V, <<0, b>>, i % Q, t % Q)[1]
        /\ Commitments(<<0, a>>, V, <<0, b>>, h % Q, s % Q)[2]
              = Commitments(<<0, a>>, V, <<0, b>>, i % Q, t % Q)[2]
    <3> HIDE DEF a, b, x
    <3> QED BY <2>1, <2>5, <2>7 DEF ChallengeInput
  <2>10. Commitments(<<0, a>>, V, <<0, b>>, h, s) = Commitments(<<0, a>>, V, <<0, b>>, i, t)
    <3> HIDE DEF a, b, x, V, h, s, i, t
    <3> QED BY <2>8, <2>9 DEF Commitments
  <2>11. a \in Int
    BY <2>1
  <2> HIDE DEF a, b, x, V, h, s, i, t
  <2>12. h = i
    BY <2>3, <2>5, <2>6, <2>7, <2>10, <2>11, CommitmentsTell
  <2> QED BY <2>12 DEF h, i
<1> QED BY <1>1, SignatureInvariance, PTL

=============================================================================
