--------------------------- MODULE OrderedProofs ---------------------------
(***************************************************************************)
(* Theorems about a session over an ordered network: nothing is ever       *)
(* skipped, the key of a message that was decrypted is gone, and the       *)
(* session behaves as a pair of FIFO channels, for every value of the      *)
(* constants that the assumptions allow.                                   *)
(***************************************************************************)
EXTENDS OrderedSession, SessionProofs

(***************************************************************************)
(* The header nonces of a party; it has used as many as its counter says.  *)
(***************************************************************************)
Nonce(p, c) == [is_sender |-> p = Alice, counter |-> c]

Nonces == [is_sender : BOOLEAN, counter : Nat]

Total(p) == state[p].header_nonce_counter

(***************************************************************************)
(* The position, among all that q has sent, of the message 0 of the chain  *)
(* that q is on.                                                           *)
(***************************************************************************)
Base(q) == Total(q) - state[q].ns

(***************************************************************************)
(* The nonces of a sender count its messages, chain after chain.           *)
(***************************************************************************)
CountersOK(q) ==
    /\ state[q].ns <= Total(q)
    /\ state[q].hk_s = None => Total(q) = 0
    /\ \A c \in 0 .. Total(q) - 1 : \E m \in SentBy(q) : m.nonce.counter = c
    /\ \A m \in SentBy(q) : IF m.hk = state[q].hk_s
                            THEN m.nonce.counter = Base(q) + m.n
                            ELSE m.nonce.counter < Base(q)

(***************************************************************************)
(* What a party was handed: the messages of its peer up to a position.     *)
(***************************************************************************)
InboxOK(p) ==
    /\ inbox[p] \in Seq(Nonces)
    /\ Len(inbox[p]) <= Total(Peer(p))
    /\ \A i \in 1 .. Len(inbox[p]) : inbox[p][i] = Nonce(Peer(p), i - 1)
    /\ \A m \in SentBy(Peer(p)) : handed[m] > 0 <=> m.nonce.counter < Len(inbox[p])

(***************************************************************************)
(* The leader of the DH ratchet reads the chain its peer is on.  The other *)
(* party reads the chain before the one the leader is on, if any.          *)
(***************************************************************************)
Leading(l) == state[l].hk_r = state[Peer(l)].hk_s

PreviousChain(l) ==
    LET a == state[l]
        b == state[Peer(l)]
    IN  /\ a.pn <= Base(l)
        /\ b.hk_r = None => Base(l) = 0
        /\ \A m \in SentBy(l) :
              m.hk = b.hk_r => m.nonce.counter = Base(l) - a.pn + m.n
        /\ b.ck_r # None =>
              /\ b.ck_r[1] # a.ck_s[1]
              /\ b.ck_s # None => b.ck_r[1] # b.ck_s[1]
              /\ \A m \in Sent : m.mk[2] = b.ck_r[1] => m.hk = b.hk_r

(***************************************************************************)
(* Where p stands in the chain it reads, whose messages have the positions *)
(* from `base` on and so far end before `end`: at the first message it was *)
(* not handed; or one further, for good, if that one was dropped because   *)
(* too many were tracked.                                                  *)
(***************************************************************************)
Position(p, base, end) ==
    LET at == Len(inbox[p])
        nr == state[p].nr
    IN  /\ base <= at /\ at <= end
        /\ state[p].hk_r # None =>
              nr = at - base \/ (nr = at - base + 1 /\ at < end)

(***************************************************************************)
(* The inductive invariant, besides AInv.                                  *)
(***************************************************************************)
OInv ==
    /\ DOMAIN inbox = Party
    /\ NothingSkipped
    /\ \A p \in Party : CountersOK(p) /\ InboxOK(p)
    /\ \A l \in Party : Leading(l) =>
          /\ PreviousChain(l)
          /\ Position(l, Base(Peer(l)), Total(Peer(l)))
          /\ Position(Peer(l), Base(l) - state[l].pn, Base(l))

-----------------------------------------------------------------------------
(***************************************************************************)
(* skip_message_keys with nothing to skip leaves an empty store empty.     *)
(***************************************************************************)
LEMMA NothingToSkip ==
    ASSUME NEW ck, NEW hk, NEW from \in Nat
    PROVE  SkipMessageKeys(EmptyStore, ck, hk, from, from) = EmptyStore
<1> DEFINE e == SkippedEntries(ck, hk, from, from .. from - 1, Newest(EmptyStore) + 1)
<1>1. from .. from - 1 = {}
  OBVIOUS
<1>2. SkipMessageKeys(EmptyStore, ck, hk, from, from) = Insert(EmptyStore, e)
  BY <1>1 DEF SkipMessageKeys
<1>3. DOMAIN e = {}
  BY <1>1 DEF SkippedEntries
<1>4. DOMAIN EmptyStore = {}
  BY EmptyIsStore
<1> HIDE DEF e
<1>5. Insert(EmptyStore, e) = [k \in {} |-> None]
  BY <1>3, <1>4 DEF Insert
<1> QED BY <1>2, <1>5 DEF EmptyStore

(***************************************************************************)
(* There is one leader: the party that reads the chain its peer is on.     *)
(***************************************************************************)
LEMMA LeaderIs ==
    ASSUME NEW st, NEW k \in Party, Turn(st, k),
           NEW l \in Party, st[l].hk_r = st[Peer(l)].hk_s
    PROVE  l = k
<1>1. st[Peer(k)].hk_r # st[k].hk_s
  BY DEF Turn
<1> QED BY <1>1, TwoParties

(***************************************************************************)
(* One party leads, and no other reads the chain that its peer is on.      *)
(***************************************************************************)
LEMMA LeaderTurn ==
    ASSUME AInv
    PROVE  \E k \in Party : /\ Turn(state, k)
                            /\ \A m \in Sent : PreviousOK(state, k, m)
                            /\ Leading(k)
                            /\ \A l \in Party : Leading(l) => l = k
<1>1. PICK k \in Party : Turn(state, k) /\ \A m \in Sent : PreviousOK(state, k, m)
  BY DEF AInv
<1>2. Leading(k)
  BY <1>1 DEF Turn, Leads, Leading
<1>3. \A l \in Party : Leading(l) => l = k
  BY <1>1, LeaderIs DEF Leading
<1> QED BY <1>1, <1>2, <1>3

(***************************************************************************)
(* A step that derives no root key keeps the leader, and what is said of   *)
(* its previous chain, if it sends no message of that chain.               *)
(***************************************************************************)
LEMMA PreviousChainStays ==
    ASSUME NoneIsNoKey, NEW l \in Party, PreviousChain(l),
           \A q \in Party : Quiet(state[q], state'[q]),
           Base(l)' = Base(l),
           \A m \in Sent' :
              \/ m \in Sent
              \/ /\ m.hk # state[Peer(l)].hk_r
                 /\ state[Peer(l)].ck_r # None => m.mk[2] # state[Peer(l)].ck_r[1]
    PROVE  PreviousChain(l)'
<1> DEFINE a == state[l]
           b == state[Peer(l)]
           a2 == state'[l]
           b2 == state'[Peer(l)]
<1>1. /\ a2.pn = a.pn /\ b2.hk_r = b.hk_r
      /\ MovesOn(a.ck_s, a2.ck_s) /\ MovesOn(b.ck_s, b2.ck_s) /\ MovesOn(b.ck_r, b2.ck_r)
  BY TwoParties DEF Quiet
<1>2. /\ (b2.ck_r = None) <=> (b.ck_r = None)
      /\ (b2.ck_s = None) <=> (b.ck_s = None)
      /\ a2.ck_s[1] = a.ck_s[1] /\ b2.ck_s[1] = b.ck_s[1] /\ b2.ck_r[1] = b.ck_r[1]
  <2>1. \A x, y : MovesOn(x, y) => ((y = None) <=> (x = None)) /\ y[1] = x[1]
    BY MovesOnKeeps DEF MovesOn
  <2> HIDE DEF a, b, a2, b2
  <2> QED BY <1>1, <2>1
<1>3. /\ a.pn <= Base(l)
      /\ b.hk_r = None => Base(l) = 0
      /\ \A m \in SentBy(l) : m.hk = b.hk_r => m.nonce.counter = Base(l) - a.pn + m.n
      /\ b.ck_r # None =>
            /\ b.ck_r[1] # a.ck_s[1]
            /\ b.ck_s # None => b.ck_r[1] # b.ck_s[1]
            /\ \A m \in Sent : m.mk[2] = b.ck_r[1] => m.hk = b.hk_r
  BY DEF PreviousChain
<1>4. \A m \in Sent' : \/ m \in Sent
                       \/ /\ m.hk # b.hk_r
                          /\ b.ck_r # None => m.mk[2] # b.ck_r[1]
  OBVIOUS
<1> DEFINE B == Base(l)
           B2 == Base(l)'
<1>5. B2 = B
  OBVIOUS
<1>6. \A m \in SentBy(l)' : m \in Sent' /\ (m \in Sent => m \in SentBy(l))
  BY DEF SentBy
<1> HIDE DEF a, b, a2, b2, B, B2
<1>7. /\ a2.pn <= B2
      /\ b2.hk_r = None => B2 = 0
      /\ \A m \in SentBy(l)' : m.hk = b2.hk_r => m.nonce.counter = B2 - a2.pn + m.n
      /\ b2.ck_r # None =>
            /\ b2.ck_r[1] # a2.ck_s[1]
            /\ b2.ck_s # None => b2.ck_r[1] # b2.ck_s[1]
            /\ \A m \in Sent' : m.mk[2] = b2.ck_r[1] => m.hk = b2.hk_r
  BY <1>1, <1>2, <1>3, <1>4, <1>5, <1>6 DEF B
<1> QED BY <1>7 DEF PreviousChain, a2, b2, B2

-----------------------------------------------------------------------------
(* encrypt.                                                                *)

(***************************************************************************)
(* What a successful encrypt changes, and the message that it sends.       *)
(***************************************************************************)
LEMMA EncryptChanges ==
    ASSUME NoneIsNoKey, AInv, NEW p \in Party, Encrypt(p)
    PROVE  LET s == state[p]
               new == Packet(s)
           IN  /\ \A q \in Party : Quiet(state[q], state'[q])
               /\ \A q \in Party : /\ state'[q].mkskipped = state[q].mkskipped
                                   /\ state'[q].nr = state[q].nr
               /\ state'[p].ns = s.ns + 1
               /\ state'[p].header_nonce_counter = s.header_nonce_counter + 1
               /\ state'[Peer(p)] = state[Peer(p)]
               /\ new.hk = s.hk_s /\ s.hk_s # None /\ new.n = s.ns
               /\ s.ck_s # None /\ new.mk[2] = s.ck_s[1]
               /\ new.nonce = Nonce(p, s.header_nonce_counter)
               /\ s.header_nonce_counter \in 0 .. MaxNonce - 1
               /\ new \notin Sent
               /\ Sent' = Sent \cup {new}
               /\ SentBy(p)' = SentBy(p) \cup {new}
               /\ SentBy(Peer(p))' = SentBy(Peer(p))
               /\ \A m \in Sent : handed'[m] = handed[m]
               /\ handed'[new] = 0
<1> DEFINE s == state[p]
           new == Packet(s)
<1>1. /\ ValidForEncryption(s) /\ ~NumberOverflows(s) /\ ~NonceOverflows(s)
      /\ state' = [state EXCEPT ![p] = AfterEncrypt(s)]
      /\ handed' = [m \in Sent \cup {new} |-> IF m \in Sent THEN handed[m] ELSE 0]
  BY ErrorAssumption DEF Encrypt, EncryptError, Errors
<1>2. PICK l \in Party : Turn(state, l)
  BY DEF AInv
<1>3. /\ \A q \in Party : Quiet(state[q], state'[q])
      /\ \A q \in Party : state'[q].mkskipped = state[q].mkskipped
  BY <1>1, <1>2, EncryptIsQuiet DEF AInv, Turn
<1>4. SessionTypeOK(s) /\ s.is_sender = (p = Alice) /\ DOMAIN state = Party
  BY DEF AInv, IInv, TypeOK
<1>5. \A q \in Party : state'[q] = IF q = p THEN AfterEncrypt(s) ELSE state[q]
  BY <1>1, <1>4
<1>6. /\ AfterEncrypt(s).ns = s.ns + 1
      /\ AfterEncrypt(s).header_nonce_counter = s.header_nonce_counter + 1
      /\ AfterEncrypt(s).nr = s.nr
  BY <1>4 DEF AfterEncrypt, Numbered, ChainAdvanced, SessionTypeOK, SessionFields
<1>7. /\ s.hk_s # None /\ s.ck_s # None
      /\ s.header_nonce_counter \in 0 .. MaxNonce - 1
  BY <1>1, <1>4, LimitAssumption DEF ValidForEncryption, NonceOverflows, SessionTypeOK
<1>8. /\ new.hk = s.hk_s /\ new.n = s.ns /\ new.mk[2] = s.ck_s[1]
      /\ new.nonce = [is_sender |-> s.is_sender, counter |-> s.header_nonce_counter]
  BY DEF Packet, KdfCk, HeaderNonce
<1> HIDE DEF s, new
<1>9. new.nonce = Nonce(p, s.header_nonce_counter)
  BY <1>4, <1>8 DEF Nonce
<1>10. Sender(new) = p
  <2>1. new.nonce.is_sender = (p = Alice)
    BY <1>9 DEF Nonce
  <2> QED BY <2>1, PartyAssumption, Zenon DEF Sender, Party
<1>11. new \notin Sent
  <2> SUFFICES ASSUME new \in Sent PROVE FALSE
    OBVIOUS
  <2>1. new.nonce.counter < s.header_nonce_counter
    BY <1>10 DEF AInv, IInv, NoncesOK, SentBy, s
  <2>2. new.nonce.counter = s.header_nonce_counter
    BY <1>8
  <2> QED BY <2>1, <2>2, <1>7
<1>12. /\ Sent' = Sent \cup {new}
       /\ \A m \in Sent : handed'[m] = handed[m]
       /\ handed'[new] = 0
  BY <1>1, <1>11 DEF Sent
<1>13. SentBy(p)' = SentBy(p) \cup {new} /\ SentBy(Peer(p))' = SentBy(Peer(p))
  BY <1>10, <1>12, TwoParties DEF SentBy
<1> QED BY <1>3, <1>5, <1>6, <1>7, <1>8, <1>9, <1>11, <1>12, <1>13, TwoParties DEF s, new

(***************************************************************************)
(* A successful encrypt sends the next message of the sender's chain.      *)
(***************************************************************************)
LEMMA EncryptOrdered ==
    ASSUME NoneIsNoKey, AInv, OInv, NEW p \in Party, Encrypt(p), UNCHANGED inbox
    PROVE  OInv'
<1> DEFINE s == state[p]
           new == Packet(s)
           T == s.header_nonce_counter
<1>1. /\ \A q \in Party : Quiet(state[q], state'[q])
      /\ \A q \in Party : /\ state'[q].mkskipped = state[q].mkskipped
                          /\ state'[q].nr = state[q].nr
      /\ state'[p].ns = s.ns + 1
      /\ state'[p].header_nonce_counter = T + 1
      /\ state'[Peer(p)] = state[Peer(p)]
      /\ new.hk = s.hk_s /\ s.hk_s # None /\ new.n = s.ns
      /\ s.ck_s # None /\ new.mk[2] = s.ck_s[1]
      /\ new.nonce = Nonce(p, T)
      /\ new \notin Sent
      /\ Sent' = Sent \cup {new}
      /\ SentBy(p)' = SentBy(p) \cup {new}
      /\ SentBy(Peer(p))' = SentBy(Peer(p))
      /\ \A m \in Sent : handed'[m] = handed[m]
      /\ handed'[new] = 0
  BY EncryptChanges
<1>2. PICK l \in Party : /\ Turn(state, l) /\ Leading(l)
                         /\ \A k \in Party : Leading(k) => k = l
  BY LeaderTurn
<1>3. /\ PreviousChain(l)
      /\ Position(l, Base(Peer(l)), Total(Peer(l)))
      /\ Position(Peer(l), Base(l) - state[l].pn, Base(l))
      /\ NothingSkipped
      /\ \A q \in Party : CountersOK(q) /\ InboxOK(q)
  BY <1>2 DEF OInv
<1>4. /\ \A q \in Party : state[q].ns \in Nat /\ state[q].nr \in Nat /\ Total(q) \in Nat
      /\ \A m \in Sent : m.nonce.counter \in Nat /\ m.n \in Nat
  BY LimitAssumption
     DEF AInv, IInv, TypeOK, SessionTypeOK, Total, PacketTypeOK
<1> HIDE DEF s, new, T
<1>5. T = Total(p) /\ T \in Nat /\ s.ns \in Nat /\ s.ns <= T
  BY <1>3, <1>4 DEF T, s, Total, CountersOK
<1>6. /\ Total(p)' = T + 1 /\ Total(Peer(p))' = Total(Peer(p))
      /\ \A q \in Party : Base(q)' = Base(q)
  <2>1. Total(p)' = T + 1 /\ Total(Peer(p))' = Total(Peer(p))
    BY <1>1 DEF Total
  <2>2. Base(p)' = Base(p)
    <3>1. Base(p) = T - s.ns /\ Base(p)' = (T + 1) - (s.ns + 1)
      BY <1>1, <1>5, <2>1 DEF Base, s
    <3> QED BY <3>1, <1>5
  <2>3. Base(Peer(p))' = Base(Peer(p))
    BY <1>1 DEF Base, Total
  <2> QED BY <2>1, <2>2, <2>3, TwoParties
<1>7. new.nonce.counter = T
  BY <1>1 DEF Nonce
<1>8. NothingSkipped'
  BY <1>1, <1>3 DEF NothingSkipped
<1>9. \A q \in Party : state'[q].hk_s = state[q].hk_s /\ state'[q].hk_r = state[q].hk_r
  BY <1>1 DEF Quiet
<1>10. CountersOK(p)'
  <2>1. /\ \A c \in 0 .. T - 1 : \E m \in SentBy(p) : m.nonce.counter = c
        /\ \A m \in SentBy(p) : IF m.hk = s.hk_s
                                THEN m.nonce.counter = Base(p) + m.n
                                ELSE m.nonce.counter < Base(p)
    BY <1>3, <1>5 DEF CountersOK, s
  <2>2. \A c \in 0 .. T : \E m \in SentBy(p)' : m.nonce.counter = c
    <3> TAKE c \in 0 .. T
    <3>1. CASE c = T
      BY <3>1, <1>1, <1>7
    <3>2. CASE c # T
      <4>1. c \in 0 .. T - 1
        BY <3>2, <1>5
      <4> QED BY <4>1, <2>1, <1>1
    <3> QED BY <3>1, <3>2
  <2>3. new.nonce.counter = Base(p) + new.n
    <3>1. Base(p) = T - s.ns
      BY <1>5 DEF Base, s
    <3> QED BY <3>1, <1>1, <1>5, <1>7
  <2>4. \A m \in SentBy(p)' : IF m.hk = s.hk_s
                              THEN m.nonce.counter = Base(p) + m.n
                              ELSE m.nonce.counter < Base(p)
    BY <2>1, <2>3, <1>1
  <2>5. /\ state'[p].ns <= Total(p)'
        /\ state'[p].hk_s = s.hk_s
        /\ Total(p)' - 1 = T
    BY <1>1, <1>5, <1>6, <1>9 DEF s
  <2> QED BY <2>2, <2>4, <2>5, <1>1, <1>6 DEF CountersOK
<1>11. CountersOK(Peer(p))'
  <2>1. CountersOK(Peer(p))
    BY <1>3, TwoParties
  <2> QED BY <2>1, <1>1, <1>6, TwoParties DEF CountersOK
<1>12. ASSUME NEW q \in Party PROVE InboxOK(q)'
  <2>1. InboxOK(q)
    BY <1>3
  <2>2. inbox' = inbox
    OBVIOUS
  <2>3. CASE q = p
    <3>1. /\ Total(Peer(q))' = Total(Peer(q))
          /\ SentBy(Peer(q))' = SentBy(Peer(q))
          /\ \A m \in SentBy(Peer(q)) : handed'[m] = handed[m]
      BY <2>3, <1>1, <1>6 DEF SentBy
    <3> QED BY <2>1, <2>2, <3>1 DEF InboxOK
  <2>4. CASE q # p
    <3>1. Peer(q) = p
      BY <2>4, TwoParties
    <3>2. /\ Len(inbox[q]) <= T /\ Len(inbox[q]) \in Nat
          /\ \A m \in SentBy(p) : (handed[m] > 0) <=> (m.nonce.counter < Len(inbox[q]))
      BY <2>1, <3>1, <1>5 DEF InboxOK
    <3>3. Len(inbox[q]) <= Total(p)'
      BY <3>2, <1>5, <1>6
    <3>4. ASSUME NEW m \in SentBy(p)'
          PROVE  (handed'[m] > 0) <=> (m.nonce.counter < Len(inbox[q]))
      <4>1. CASE m = new
        BY <4>1, <3>2, <1>1, <1>5, <1>7
      <4>2. CASE m \in SentBy(p)
        <5>1. handed'[m] = handed[m]
          BY <4>2, <1>1 DEF SentBy
        <5> QED BY <5>1, <4>2, <3>2
      <4> QED BY <4>1, <4>2, <1>1
    <3> QED BY <2>1, <2>2, <3>1, <3>3, <3>4 DEF InboxOK
  <2> QED BY <2>3, <2>4
<1>13. ASSUME NEW k \in Party, Leading(k)'
       PROVE  /\ PreviousChain(k)'
              /\ Position(k, Base(Peer(k)), Total(Peer(k)))'
              /\ Position(Peer(k), Base(k) - state[k].pn, Base(k))'
  <2>1. k = l
    <3>1. Leading(k)
      BY <1>9, <1>13, TwoParties DEF Leading
    <3> QED BY <3>1, <1>2
  <2>2. PreviousChain(l)'
    <3>1. /\ new.hk # state[Peer(l)].hk_r
          /\ state[Peer(l)].ck_r # None => new.mk[2] # state[Peer(l)].ck_r[1]
      <4>1. CASE p = l
        BY <4>1, <1>1, <1>2, <1>3 DEF PreviousChain, Turn, s
      <4>2. CASE p # l
        <5>1. p = Peer(l)
          BY <4>2, TwoParties
        <5>2. new.hk # state[p].hk_r
          BY <5>1, <1>1, <1>2 DEF Turn, s
        <5> QED BY <5>1, <5>2, <1>1, <1>3 DEF PreviousChain, s
      <4> QED BY <4>1, <4>2
    <3> QED BY <3>1, <1>1, <1>3, <1>6, PreviousChainStays
  <2>3. state'[l].pn = state[l].pn
    BY <1>1 DEF Quiet
  <2>4. Position(l, Base(Peer(l)), Total(Peer(l)))'
    <3> DEFINE q == Peer(l)
    <3>1. /\ q \in Party /\ Base(q)' = Base(q)
          /\ Total(q)' \in {Total(q), Total(q) + 1} /\ Total(q) \in Nat
      BY <1>4, <1>5, <1>6, TwoParties
    <3>2. Len(inbox[l]) \in Nat /\ inbox' = inbox
      BY <1>3 DEF InboxOK
    <3>3. /\ Base(q) <= Len(inbox[l]) /\ Len(inbox[l]) <= Total(q)
          /\ state[l].hk_r # None =>
                \/ state[l].nr = Len(inbox[l]) - Base(q)
                \/ state[l].nr = Len(inbox[l]) - Base(q) + 1 /\ Len(inbox[l]) < Total(q)
      BY <1>3 DEF Position
    <3>4. /\ Base(q)' <= Len(inbox'[l]) /\ Len(inbox'[l]) <= Total(q)'
          /\ state'[l].hk_r # None =>
                \/ state'[l].nr = Len(inbox'[l]) - Base(q)'
                \/ state'[l].nr = Len(inbox'[l]) - Base(q)' + 1 /\ Len(inbox'[l]) < Total(q)'
      BY <3>1, <3>2, <3>3, <1>1, <1>9
    <3> QED BY <3>4 DEF Position
  <2>5. Position(Peer(l), Base(l) - state[l].pn, Base(l))'
    BY <2>3, <1>1, <1>3, <1>6, <1>9, TwoParties DEF Position
  <2> QED BY <2>1, <2>2, <2>4, <2>5
<1>14. /\ \A q \in Party : CountersOK(q)' /\ InboxOK(q)'
       /\ DOMAIN inbox' = Party
  BY <1>10, <1>11, <1>12, TwoParties DEF OInv
<1> QED BY <1>8, <1>13, <1>14 DEF OInv

-----------------------------------------------------------------------------
(* decrypt.                                                                *)

(***************************************************************************)
(* Where a party reads: the chain its peer is on if the party leads, the   *)
(* leader's previous chain if not.                                         *)
(***************************************************************************)
ReadBase(l, p) == IF p = l THEN Base(Peer(l)) ELSE Base(l) - state[l].pn

ReadEnd(l, p) == IF p = l THEN Total(Peer(l)) ELSE Base(l)

(***************************************************************************)
(* The types of what the invariant counts.                                 *)
(***************************************************************************)
LEMMA OrderedTypes ==
    ASSUME AInv, OInv, NEW q \in Party
    PROVE  /\ Total(q) \in Nat /\ Base(q) \in Nat
           /\ state[q].ns \in Nat /\ state[q].nr \in Nat /\ state[q].pn \in Nat
           /\ Base(q) - state[q].pn \in Int
           /\ inbox[q] \in Seq(Nonces) /\ Len(inbox[q]) \in Nat
<1>1. SessionTypeOK(state[q])
  BY DEF AInv, IInv, TypeOK
<1>2. /\ Total(q) \in Nat /\ state[q].ns \in Nat
      /\ state[q].nr \in Nat /\ state[q].pn \in Nat
  BY <1>1, LimitAssumption DEF SessionTypeOK, Total
<1>3. inbox[q] \in Seq(Nonces)
  BY DEF OInv, InboxOK
<1>4. Base(q) \in Nat
  <2>1. state[q].ns <= Total(q)
    BY DEF OInv, CountersOK
  <2> QED BY <1>2, <2>1 DEF Base
<1> QED BY <1>2, <1>3, <1>4

(***************************************************************************)
(* What arrives is at most one position beyond what was handed over.       *)
(***************************************************************************)
LEMMA ArrivesNext ==
    ASSUME AInv, OInv, NEW p \in Party, NEW m, Arrives(p, m)
    PROVE  /\ m \in SentBy(Peer(p))
           /\ m.nonce.counter \in Nat
           /\ m.nonce.counter <= Len(inbox[p])
           /\ m.nonce.counter < Total(Peer(p))
<1> DEFINE q == Peer(p)
           r == Len(inbox[p])
<1>1. /\ q \in Party /\ CountersOK(q) /\ InboxOK(p)
  BY TwoParties DEF OInv
<1>2. /\ m \in SentBy(q)
      /\ \A d \in SentBy(q) : d.nonce.counter < m.nonce.counter => handed[d] > 0
  BY DEF Arrives
<1>3. m.nonce.counter \in Nat /\ m.nonce.counter < Total(q)
  BY <1>1, <1>2 DEF AInv, IInv, TypeOK, PacketTypeOK, NoncesOK, Total, SentBy
<1>4. r \in Nat
  BY <1>1 DEF InboxOK
<1>5. m.nonce.counter <= r
  <2> SUFFICES ASSUME r < m.nonce.counter PROVE FALSE
    BY <1>3, <1>4
  <2>1. r \in 0 .. Total(q) - 1
    <3>1. Total(q) \in Nat
      BY <1>1 DEF AInv, IInv, TypeOK, SessionTypeOK, Total
    <3> HIDE DEF r, q
    <3> QED BY <3>1, <1>3, <1>4
  <2>2. PICK d \in SentBy(q) : d.nonce.counter = r
    BY <2>1, <1>1 DEF CountersOK
  <2>3. handed[d] > 0
    BY <2>2, <1>2
  <2>4. d.nonce.counter < r
    BY <2>2, <2>3, <1>1 DEF InboxOK
  <2> HIDE DEF r
  <2> QED BY <2>2, <2>4, <1>4
<1> QED BY <1>2, <1>3, <1>5

(***************************************************************************)
(* A message that is admitted on the chain the party reads is the one at   *)
(* nr: those before it were handed over, and their numbers lie below nr.   *)
(***************************************************************************)
LEMMA NextOnChain ==
    ASSUME AInv, OInv, NEW p \in Party, NEW m, Arrives(p, m),
           NEW l \in Party, Leading(l), Turn(state, l),
           \A k \in Sent : PreviousOK(state, l, k),
           Admitted(state[p], m), ~DhRatchetNeeded(state[p], m)
    PROVE  /\ m.nonce.counter = Len(inbox[p])
           /\ m.n = state[p].nr
           /\ state[p].nr = Len(inbox[p]) - ReadBase(l, p)
           /\ Len(inbox[p]) < ReadEnd(l, p)
<1> DEFINE s == state[p]
           r == Len(inbox[p])
           base == ReadBase(l, p)
           end == ReadEnd(l, p)
<1>1. /\ m \in SentBy(Peer(p)) /\ m.nonce.counter \in Nat
      /\ m.nonce.counter <= r /\ m.nonce.counter < Total(Peer(p))
  BY ArrivesNext
<1>2. /\ SessionTypeOK(s) /\ SessionOK(s) /\ PacketTypeOK(m) /\ PacketOK(m)
      /\ s.nr \in Nat /\ m.n \in Nat /\ m.hk = s.hk_r /\ s.hk_r # None
  BY <1>1 DEF AInv, IInv, TypeOK, SentBy, PacketTypeOK, PacketOK, SessionTypeOK,
              DhRatchetNeeded
<1>3. s.nr <= m.n
  BY <1>2, AdmittedInRange DEF ReceivingFrom, SkipAllowed
<1>4. /\ Position(l, Base(Peer(l)), Total(Peer(l)))
      /\ Position(Peer(l), Base(l) - state[l].pn, Base(l))
      /\ PreviousChain(l)
      /\ \A q \in Party : CountersOK(q) /\ InboxOK(q)
  BY DEF OInv
<1>5. /\ r \in Nat
      /\ \A q \in Party : Base(q) \in Int /\ state[q].pn \in Nat /\ Total(q) \in Nat
  BY OrderedTypes
<1>6. m.nonce.counter = base + m.n /\ m.nonce.counter < end
  <2>1. CASE p = l
    <3>1. m.hk = state[Peer(l)].hk_s
      BY <2>1, <1>2 DEF Leading
    <3>2. m.nonce.counter = Base(Peer(l)) + m.n
      BY <2>1, <3>1, <1>1, <1>4, TwoParties DEF CountersOK
    <3> QED BY <2>1, <3>2, <1>1 DEF ReadBase, ReadEnd
  <2>2. CASE p # l
    <3>1. p = Peer(l) /\ Peer(p) = l
      BY <2>2, TwoParties
    <3>2. m.nonce.counter = Base(l) - state[l].pn + m.n
      BY <3>1, <1>1, <1>2, <1>4 DEF PreviousChain
    <3>3. m.hk # state[l].hk_s
      BY <3>1, <1>2 DEF Turn
    <3>4. m.nonce.counter < Base(l)
      BY <3>1, <3>3, <1>1, <1>4 DEF CountersOK
    <3> QED BY <2>2, <3>2, <3>4 DEF ReadBase, ReadEnd
  <2> QED BY <2>1, <2>2
<1>7. /\ base \in Int /\ end \in Int
      /\ \/ s.nr = r - base
         \/ s.nr = r - base + 1 /\ r < end
  <2>1. base \in Int /\ end \in Int
    BY <1>5, TwoParties DEF ReadBase, ReadEnd
  <2>2. CASE p = l
    BY <2>1, <2>2, <1>2, <1>4 DEF Position, ReadBase, ReadEnd
  <2>3. CASE p # l
    <3>1. p = Peer(l)
      BY <2>3, TwoParties
    <3> QED BY <2>1, <2>3, <3>1, <1>2, <1>4 DEF Position, ReadBase, ReadEnd
  <2> QED BY <2>1, <2>2, <2>3
<1> HIDE DEF s, r, base, end
<1>8. m.nonce.counter = r /\ m.n = s.nr /\ s.nr = r - base /\ r < end
  BY <1>1, <1>2, <1>3, <1>5, <1>6, <1>7
<1> QED BY <1>8 DEF s, r, base, end

(***************************************************************************)
(* A message that is admitted with a DH ratchet is the first of the chain  *)
(* the leader is on, and its previous chain was read to the end.           *)
(***************************************************************************)
LEMMA NextRatchet ==
    ASSUME AInv, OInv, NEW p \in Party, NEW m, Arrives(p, m),
           NEW l \in Party, Leading(l), Turn(state, l),
           Admitted(state[p], m), DhRatchetNeeded(state[p], m)
    PROVE  /\ p = Peer(l)
           /\ m.nonce.counter = Len(inbox[p])
           /\ Len(inbox[p]) = Base(l)
           /\ Len(inbox[p]) < Total(l)
           /\ m.n = 0
           /\ state[p].hk_r # None => state[p].nr = m.pn
           /\ m.pn \in Nat
<1> DEFINE s == state[p]
           r == Len(inbox[p])
<1>1. /\ m \in SentBy(Peer(p)) /\ m.nonce.counter \in Nat
      /\ m.nonce.counter <= r /\ m.nonce.counter < Total(Peer(p))
  BY ArrivesNext
<1>2. m \in Sent
  BY <1>1 DEF SentBy
<1>3. /\ p = Peer(l) /\ Peer(p) = l
      /\ m.hk = state[l].hk_s
      /\ SentOn(m, l, state[l])
  BY <1>2, RatchetIsTheOthers, TwoParties
<1>4. /\ m.n \in Nat /\ m.pn \in Nat /\ m.pn = state[l].pn
  BY <1>2, <1>3 DEF AInv, IInv, TypeOK, PacketTypeOK, SentOn
<1>5. /\ Position(p, Base(l) - state[l].pn, Base(l))
      /\ CountersOK(l) /\ InboxOK(p)
  BY <1>3 DEF OInv
<1>6. r \in Nat /\ Base(l) \in Int /\ s.nr \in Nat /\ Total(l) \in Nat
  BY <1>3, OrderedTypes
<1>7. m.nonce.counter = Base(l) + m.n
  BY <1>1, <1>3, <1>5 DEF CountersOK
<1>8. r <= Base(l)
  BY <1>5 DEF Position
<1>9. r = Base(l) /\ m.n = 0 /\ m.nonce.counter = r /\ r < Total(l)
  <2> HIDE DEF r
  <2> QED BY <1>1, <1>3, <1>4, <1>6, <1>7, <1>8
<1>10. s.hk_r # None => s.nr = m.pn
  <2> SUFFICES ASSUME s.hk_r # None PROVE s.nr = m.pn
    OBVIOUS
  <2>1. \/ s.nr = r - (Base(l) - state[l].pn)
        \/ s.nr = r - (Base(l) - state[l].pn) + 1 /\ r < Base(l)
    BY <1>5 DEF Position
  <2> HIDE DEF r, s
  <2> QED BY <2>1, <1>4, <1>6, <1>9
<1> QED BY <1>3, <1>4, <1>9, <1>10

(***************************************************************************)
(* A message is known by its sender and its position.                      *)
(***************************************************************************)
LEMMA NonceOfSent ==
    ASSUME AInv, NEW q \in Party, NEW m \in SentBy(q)
    PROVE  /\ m.nonce = Nonce(q, m.nonce.counter)
           /\ m.nonce \in Nonces
           /\ \A d \in SentBy(q) : d.nonce.counter = m.nonce.counter => d = m
<1>1. ASSUME NEW d \in SentBy(q) PROVE d.nonce = Nonce(q, d.nonce.counter)
  <2>1. /\ d.nonce \in [is_sender : BOOLEAN, counter : Nat]
        /\ q = IF d.nonce.is_sender THEN Alice ELSE Bob
    BY DEF AInv, IInv, TypeOK, PacketTypeOK, SentBy, Sender
  <2>2. d.nonce.is_sender <=> (q = Alice)
    BY <2>1, PartyAssumption, Zenon
  <2>3. d.nonce.is_sender \in BOOLEAN
    BY <2>1
  <2>4. d.nonce.is_sender = (q = Alice)
    BY <2>2, <2>3
  <2>5. d.nonce = [is_sender |-> d.nonce.is_sender, counter |-> d.nonce.counter]
    BY <2>1
  <2> QED BY <2>4, <2>5 DEF Nonce
<1>2. m.nonce \in Nonces
  BY DEF AInv, IInv, TypeOK, PacketTypeOK, SentBy, Nonces
<1>3. ASSUME NEW d \in SentBy(q), d.nonce.counter = m.nonce.counter PROVE d = m
  <2>1. d.nonce = m.nonce
    BY <1>1, <1>3
  <2> QED BY <2>1 DEF AInv, IInv, NoncesOK, SentBy
<1> QED BY <1>1, <1>2, <1>3

(***************************************************************************)
(* What becomes of the next message: it is handed over, or it is dropped   *)
(* because too many were tracked.                                          *)
(***************************************************************************)
Outcome(p, m) ==
    \/ handed' = handed /\ inbox' = inbox
    \/ Hand(m) /\ inbox' = [inbox EXCEPT ![p] = Append(@, m.nonce)]

(***************************************************************************)
(* After the next message the inbox still holds what was handed over, in   *)
(* the order in which it was sent, and a message that was dropped is not   *)
(* of it.                                                                  *)
(***************************************************************************)
LEMMA NextIsHandled ==
    ASSUME AInv, OInv, NEW p \in Party, NEW m \in SentBy(Peer(p)),
           m.nonce.counter = Len(inbox[p]), m.nonce.counter < Total(Peer(p)),
           Outcome(p, m),
           \A q \in Party : Total(q)' = Total(q)
    PROVE  /\ Sent' = Sent /\ \A q \in Party : SentBy(q)' = SentBy(q)
           /\ DOMAIN inbox' = Party
           /\ inbox'[Peer(p)] = inbox[Peer(p)]
           /\ Len(inbox'[p]) \in {Len(inbox[p]), Len(inbox[p]) + 1}
           /\ \A q \in Party : InboxOK(q)'
<1> DEFINE o == Peer(p)
           r == Len(inbox[p])
<1>1. /\ o \in Party /\ o # p /\ Peer(o) = p
      /\ \A q \in Party : q = p \/ q = o
      /\ InboxOK(p) /\ InboxOK(o)
      /\ DOMAIN inbox = Party
  BY TwoParties DEF OInv
<1>2. m \in Sent /\ Sender(m) = o
  BY DEF SentBy
<1>3. Sent' = Sent /\ \A q \in Party : SentBy(q)' = SentBy(q)
  <2>1. DOMAIN handed' = DOMAIN handed
    BY DEF Outcome, Hand
  <2> QED BY <2>1 DEF SentBy, Sent
<1>4. CASE handed' = handed /\ inbox' = inbox
  BY <1>1, <1>3, <1>4 DEF InboxOK
<1>5. CASE Hand(m) /\ inbox' = [inbox EXCEPT ![p] = Append(@, m.nonce)]
  <2>1. /\ DOMAIN inbox' = Party
        /\ inbox'[p] = Append(inbox[p], m.nonce)
        /\ inbox'[o] = inbox[o]
    BY <1>1, <1>5
  <2>2. /\ m.nonce = Nonce(o, r) /\ m.nonce \in Nonces
        /\ \A d \in SentBy(o) : d.nonce.counter = r => d = m
    BY <1>1, NonceOfSent
  <2>3. /\ inbox[p] \in Seq(Nonces) /\ r \in Nat /\ r < Total(o) /\ Total(o) \in Nat
        /\ \A i \in 1 .. r : inbox[p][i] = Nonce(o, i - 1)
        /\ \A d \in SentBy(o) : (handed[d] > 0) <=> (d.nonce.counter < r)
    BY <1>1, OrderedTypes DEF InboxOK
  <2>4. /\ handed'[m] = handed[m] + 1 /\ handed[m] \in Nat
        /\ \A d \in Sent : d # m => handed'[d] = handed[d]
    BY <1>2, <1>5 DEF Hand, Sent, AInv, IInv, TypeOK
  <2>5. InboxOK(o)'
    <3>1. InboxOK(o)
      BY <1>1
    <3>2. \A d \in SentBy(p) : handed'[d] = handed[d]
      BY <1>1, <1>2, <2>4 DEF SentBy
    <3> HIDE DEF o
    <3> QED BY <1>1, <1>3, <2>1, <3>1, <3>2 DEF InboxOK
  <2>6. InboxOK(p)'
    <3> DEFINE new == inbox'[p]
    <3>1. /\ new \in Seq(Nonces) /\ Len(new) = r + 1
          /\ \A i \in 1 .. r : new[i] = inbox[p][i]
          /\ new[r + 1] = Nonce(o, r)
      BY <2>1, <2>2, <2>3
    <3>2. \A i \in 1 .. r + 1 : new[i] = Nonce(o, i - 1)
      <4> TAKE i \in 1 .. r + 1
      <4> HIDE DEF new, r, o
      <4>1. CASE i = r + 1
        BY <3>1, <2>3, <4>1
      <4>2. CASE i # r + 1
        <5>1. i \in 1 .. r
          BY <2>3, <4>2
        <5> QED BY <5>1, <3>1, <2>3
      <4> QED BY <4>1, <4>2
    <3>3. ASSUME NEW d \in SentBy(o)
          PROVE  (handed'[d] > 0) <=> (d.nonce.counter < r + 1)
      <4>1. CASE d = m
        BY <4>1, <2>3, <2>4
      <4>2. CASE d # m
        <5>1. d.nonce.counter # r /\ d.nonce.counter \in Nat
          BY <4>2, <2>2 DEF AInv, IInv, TypeOK, PacketTypeOK, SentBy
        <5>2. handed'[d] = handed[d]
          BY <4>2, <2>4 DEF SentBy
        <5> HIDE DEF r, o
        <5> QED BY <5>1, <5>2, <2>3
      <4> QED BY <4>1, <4>2
    <3>4. Total(o)' = Total(o) /\ SentBy(o)' = SentBy(o) /\ r + 1 <= Total(o)
      <4> HIDE DEF r, o
      <4> QED BY <1>1, <1>3, <2>3
    <3> HIDE DEF r, o
    <3> QED BY <3>1, <3>2, <3>3, <3>4 DEF InboxOK, o
  <2>7. Len(inbox'[p]) = r + 1
    BY <2>1, <2>3
  <2> QED BY <1>1, <1>3, <2>1, <2>5, <2>6, <2>7
<1> QED BY <1>4, <1>5 DEF Outcome

(***************************************************************************)
(* The two positions, and that a step leaves alone the one of a party that *)
(* it does not concern.                                                    *)
(***************************************************************************)
LEMMA PositionsAre ==
    ASSUME OInv, NEW l \in Party, Leading(l), NEW p \in Party
    PROVE  Position(p, ReadBase(l, p), ReadEnd(l, p))
<1>1. /\ Position(l, Base(Peer(l)), Total(Peer(l)))
      /\ Position(Peer(l), Base(l) - state[l].pn, Base(l))
  BY DEF OInv
<1> QED BY <1>1, TwoParties DEF ReadBase, ReadEnd

(***************************************************************************)
(* A commit without a DH ratchet moves the party to the next position.     *)
(***************************************************************************)
LEMMA OnChainOrdered ==
    ASSUME NoneIsNoKey, AInv, OInv, NEW p \in Party, NEW m, Arrives(p, m),
           NEW c, NEW fresh,
           Admitted(state[p], m), ~DhRatchetNeeded(state[p], m),
           AfterCommit(c, Committed(state[p], m, fresh), m),
           state' = [state EXCEPT ![p] = c],
           Outcome(p, m)
    PROVE  OInv'
<1> DEFINE s == state[p]
           r == Len(inbox[p])
<1>1. PICK l \in Party : /\ Turn(state, l) /\ Leading(l)
                         /\ \A k \in Party : Leading(k) => k = l
                         /\ \A k \in Sent : PreviousOK(state, l, k)
  BY LeaderTurn DEF AInv, Turn, Leads, Leading
<1> DEFINE base == ReadBase(l, p)
           end == ReadEnd(l, p)
<1>2. /\ m.nonce.counter = r /\ m.n = s.nr /\ s.nr = r - base /\ r < end
  BY <1>1, NextOnChain
<1>3. m \in SentBy(Peer(p)) /\ m.nonce.counter < Total(Peer(p)) /\ m \in Sent
  BY ArrivesNext DEF SentBy
<1>4. /\ SessionTypeOK(s) /\ s.nr \in Nat /\ s.ns \in Nat
      /\ s.mkskipped = EmptyStore
      /\ s.hk_r # None
  BY <1>3, OrderedTypes
     DEF AInv, IInv, TypeOK, OInv, NothingSkipped, DhRatchetNeeded, PacketOK
<1>5. /\ c.ck_r = <<s.ck_r[1], s.ck_r[2] + 1>> /\ c.nr = s.nr + 1
      /\ c.mkskipped = EmptyStore
      /\ \A f \in SessionFields \ {"ck_r", "nr", "mkskipped", "received_messages"} :
            c[f] = s[f]
  <2> DEFINE next == Committed(s, m, fresh)
             store == SkipMessageKeys(s.mkskipped, s.ck_r, s.hk_r, s.nr, m.n)
  <2>1. store = EmptyStore
    BY <1>2, <1>4, NothingToSkip
  <2>2. /\ next.ck_r = <<s.ck_r[1], s.ck_r[2] + 1>> /\ next.nr = s.nr + 1
        /\ next.mkskipped = store
        /\ \A f \in SessionFields \ {"ck_r", "nr", "mkskipped"} : next[f] = s[f]
    BY <1>4, CommittedOnChain DEF SessionTypeOK
  <2>3. \A f \in SessionFields \ {"received_messages"} : c[f] = next[f]
    BY DEF AfterCommit
  <2> HIDE DEF next, store, s
  <2> QED BY <2>1, <2>2, <2>3 DEF SessionFields
<1>6. \A q \in Party : state'[q] = IF q = p THEN c ELSE state[q]
  BY DEF AInv, IInv, TypeOK
<1>7. \A q \in Party : Quiet(state[q], state'[q])
  <2>1. s.ck_r # None
    BY <1>4 DEF AInv, KeysOK, OwnKeysOK
  <2>2. Quiet(s, c)
    <3> HIDE DEF s
    <3> QED BY <1>4, <1>5, <2>1 DEF Quiet, MovesOn, SessionFields
  <2>3. \A q \in Party : Quiet(state[q], state[q])
    BY OrderedTypes DEF Quiet, MovesOn
  <2> QED BY <1>6, <2>2, <2>3
<1>8. /\ c.ns = s.ns /\ c.header_nonce_counter = s.header_nonce_counter
      /\ c.hk_s = s.hk_s /\ c.hk_r = s.hk_r /\ c.pn = s.pn
  BY <1>5 DEF SessionFields
<1>9. \A q \in Party : /\ state'[q].ns = state[q].ns
                       /\ state'[q].header_nonce_counter = state[q].header_nonce_counter
                       /\ state'[q].hk_s = state[q].hk_s /\ state'[q].hk_r = state[q].hk_r
                       /\ state'[q].pn = state[q].pn
  BY <1>6, <1>8
<1>10. \A q \in Party : Total(q)' = Total(q) /\ Base(q)' = Base(q)
  BY <1>9 DEF Total, Base
<1>11. /\ Sent' = Sent /\ \A q \in Party : SentBy(q)' = SentBy(q)
       /\ DOMAIN inbox' = Party
       /\ inbox'[Peer(p)] = inbox[Peer(p)]
       /\ Len(inbox'[p]) \in {Len(inbox[p]), Len(inbox[p]) + 1}
       /\ \A q \in Party : InboxOK(q)'
  BY <1>2, <1>3, <1>10, NextIsHandled
<1>12. \A q \in Party : CountersOK(q)'
  <2> TAKE q \in Party
  <2>1. CountersOK(q)
    BY DEF OInv
  <2> QED BY <2>1, <1>9, <1>10, <1>11 DEF CountersOK
<1>13. NothingSkipped'
  BY <1>5, <1>6 DEF OInv, NothingSkipped
<1>14. ASSUME NEW k \in Party, Leading(k)' PROVE k = l
  <2>1. Leading(k)
    BY <1>9, <1>14, TwoParties DEF Leading
  <2> QED BY <2>1, <1>1
<1>15. PreviousChain(l)'
  <2>1. PreviousChain(l)
    BY <1>1 DEF OInv
  <2> QED BY <2>1, <1>7, <1>10, <1>11, PreviousChainStays
<1>16. \A q \in Party : ReadBase(l, q)' = ReadBase(l, q) /\ ReadEnd(l, q)' = ReadEnd(l, q)
  BY <1>9, <1>10, TwoParties DEF ReadBase, ReadEnd
<1>17. \A q \in Party : Position(q, ReadBase(l, q), ReadEnd(l, q))'
  <2> TAKE q \in Party
  <2>1. Position(q, ReadBase(l, q), ReadEnd(l, q))
    BY <1>1, PositionsAre
  <2>2. CASE q = p
    <3>1. /\ base \in Int /\ end \in Int /\ r \in Nat
      BY <1>1, OrderedTypes, TwoParties DEF ReadBase, ReadEnd
    <3>2. base <= r
      BY <2>1, <2>2 DEF Position
    <3>3. state'[p].nr = s.nr + 1
      BY <1>5, <1>6
    <3>4. LET at == Len(inbox'[p])
          IN  /\ base <= at /\ at <= end
              /\ state'[p].nr = at - base \/ (state'[p].nr = at - base + 1 /\ at < end)
      <4> HIDE DEF base, end, s, r
      <4> QED BY <3>1, <3>2, <3>3, <1>2, <1>11 DEF r
    <3> QED BY <2>2, <3>4, <1>16 DEF Position
  <2>3. CASE q # p
    <3>1. inbox'[q] = inbox[q] /\ state'[q] = state[q]
      BY <2>3, <1>6, <1>11, TwoParties
    <3> QED BY <2>1, <3>1, <1>16 DEF Position
  <2> QED BY <2>2, <2>3
<1>18. /\ Position(l, Base(Peer(l)), Total(Peer(l)))'
       /\ Position(Peer(l), Base(l) - state[l].pn, Base(l))'
  <2>1. Peer(l) \in Party /\ Peer(l) # l
    BY TwoParties
  <2>2. /\ Position(l, ReadBase(l, l), ReadEnd(l, l))'
        /\ Position(Peer(l), ReadBase(l, Peer(l)), ReadEnd(l, Peer(l)))'
    BY <1>17, <2>1
  <2>3. /\ ReadBase(l, l)' = Base(Peer(l))' /\ ReadEnd(l, l)' = Total(Peer(l))'
        /\ ReadBase(l, Peer(l))' = (Base(l) - state[l].pn)'
        /\ ReadEnd(l, Peer(l))' = Base(l)'
    BY <2>1 DEF ReadBase, ReadEnd
  <2> QED BY <2>2, <2>3 DEF Position
<1> HIDE DEF s, r, base, end
<1>19. \A k \in Party : Leading(k)' =>
          /\ PreviousChain(k)'
          /\ Position(k, Base(Peer(k)), Total(Peer(k)))'
          /\ Position(Peer(k), Base(k) - state[k].pn, Base(k))'
  BY <1>14, <1>15, <1>18
<1> QED BY <1>11, <1>12, <1>13, <1>19 DEF OInv

(***************************************************************************)
(* What the leader's previous chain becomes when the lead changes hands:   *)
(* b, which was on the chain that a reads, goes on to the chain of c.      *)
(***************************************************************************)
LEMMA ChainLeftBehind ==
    ASSUME NoneIsNoKey, NEW st, KeysOK(st),
           NEW l \in Party, NEW p \in Party, p = Peer(l), Turn(st, l), NEW c,
           TakesTheLead(st[l], st[p], c, Key(p, st[p].dh_pair[2] + 1)),
           st[l].ck_r # None
    PROVE  /\ st[l].ck_r[1] # c.ck_s[1]
           /\ st[l].ck_s # None => st[l].ck_r[1] # st[l].ck_s[1]
           /\ \A m : MessageOK(st, m) /\ m.mk[2] = st[l].ck_r[1] => m.hk = st[l].hk_r
<1> DEFINE a == st[l]
           b == st[p]
           fresh == Key(p, b.dh_pair[2] + 1)
           send == KdfRkHe(a.rk, DH(fresh, a.dh_pair))
<1>1. /\ a.hk_r = b.hk_s /\ b.ck_s # None
      /\ a.ck_r = <<b.ck_s[1], a.nr>>
      /\ a.rk # b.rk
  BY DEF Turn, Leads
<1>2. /\ b.ck_s = <<b.rk, b.ck_s[2]>> /\ Known(st, b.rk)
      /\ a.ck_s # None => a.ck_s = <<a.rk, a.ck_s[2]>>
  BY <1>1 DEF KeysOK, OwnKeysOK
<1>3. a.ck_r[1] = b.rk /\ b.ck_s[1] = b.rk
  <2> HIDE DEF a, b
  <2>1. b.ck_s[1] = b.rk
    BY <1>2
  <2> QED BY <1>1, <2>1
<1>4. ~Known(st, send.rk)
  <2>1. b.dh_pair[2] + 1 \in Nat /\ b.dh_pair[2] < b.dh_pair[2] + 1
    BY DEF KeysOK, OwnKeysOK
  <2> QED BY <2>1, FreshIsNew
<1>5. c.ck_s[1] = send.rk
  BY DEF TakesTheLead
<1>6. a.ck_s # None => a.ck_s[1] = a.rk
  <2> HIDE DEF a
  <2> QED BY <1>2
<1>7. ASSUME NEW m, MessageOK(st, m), m.mk[2] = b.rk PROVE m.hk = b.hk_s
  <2>1. Current(m, b)
    BY <1>1, <1>3, <1>7 DEF Current
  <2> QED BY <2>1, <1>7 DEF MessageOK, SentOn
<1> HIDE DEF send
<1> QED BY <1>1, <1>2, <1>3, <1>4, <1>5, <1>6, <1>7

(***************************************************************************)
(* A DH ratchet skips nothing either: its commit is not refused, and the   *)
(* store stays empty.                                                      *)
(***************************************************************************)
LEMMA RatchetSkipsNothing ==
    ASSUME AInv, OInv, NEW p \in Party, NEW m, Arrives(p, m), Admitted(state[p], m)
    PROVE  /\ ~PreviousChainRefused(state[p], m)
           /\ DhRatchetNeeded(state[p], m) =>
                 PreviousChainStored(state[p], m) = EmptyStore
<1> DEFINE s == state[p]
<1>1. PICK l \in Party : Turn(state, l) /\ Leading(l)
  BY LeaderTurn
<1> SUFFICES ASSUME DhRatchetNeeded(s, m)
             PROVE  ~PreviousChainRefused(s, m) /\ PreviousChainStored(s, m) = EmptyStore
  BY DEF PreviousChainRefused
<1>2. s.mkskipped = EmptyStore
  BY DEF OInv, NothingSkipped
<1>3. CASE s.ck_r = None
  BY <1>2, <1>3 DEF PreviousChainRefused, PreviousChainStored
<1>4. CASE s.ck_r # None
  <2>1. s.hk_r # None
    BY <1>4 DEF AInv, KeysOK, OwnKeysOK
  <2>2. s.nr = m.pn /\ m.pn \in Nat
    BY <1>1, <2>1, NextRatchet
  <2>3. SkipAllowed(s.nr, m.pn)
    BY <2>2, SkipAssumption DEF SkipAllowed
  <2>4. SkipMessageKeys(s.mkskipped, s.ck_r, s.hk_r, s.nr, m.pn) = EmptyStore
    BY <1>2, <2>2, NothingToSkip
  <2> QED BY <1>4, <2>3, <2>4 DEF PreviousChainRefused, PreviousChainStored
<1> QED BY <1>3, <1>4

(***************************************************************************)
(* A commit with a DH ratchet: the lead changes hands, at the message 0 of *)
(* the chain that the former leader is on.                                 *)
(***************************************************************************)
LEMMA RatchetOrdered ==
    ASSUME NoneIsNoKey, AInv, OInv, NEW p \in Party, NEW m, Arrives(p, m), NEW c,
           Admitted(state[p], m), DhRatchetNeeded(state[p], m),
           AfterCommit(c, Committed(state[p], m, FreshKey(p)), m),
           state' = [state EXCEPT ![p] = c],
           Outcome(p, m)
    PROVE  OInv'
<1>1. PICK l \in Party : Turn(state, l) /\ Leading(l)
  BY LeaderTurn
<1> DEFINE a == state[l]
           b == state[p]
           r == Len(inbox[p])
<1>2. /\ p = Peer(l) /\ m.nonce.counter = r /\ r = Base(l) /\ r < Total(l) /\ m.n = 0
  BY <1>1, NextRatchet
<1>3. /\ m \in SentBy(Peer(p)) /\ m.nonce.counter < Total(Peer(p))
      /\ m \in Sent /\ Peer(p) = l
  BY <1>2, ArrivesNext, TwoParties DEF SentBy
<1>4. /\ SessionTypeOK(b) /\ Leads(a, b) /\ m.dh_pub = a.dh_pair
  BY <1>1, <1>2, <1>3, RatchetIsTheOthers DEF AInv, IInv, TypeOK, Turn, SentOn
<1>5. /\ TakesTheLead(a, b, c, FreshKey(p))
      /\ c.mkskipped = EmptyStore
      /\ c.header_nonce_counter = b.header_nonce_counter
  <2> DEFINE next == Committed(b, m, FreshKey(p))
             store == SkipMessageKeys(PreviousChainStored(b, m),
                                      <<a.rk, 0>>, b.nhk_r, 0, m.n)
  <2>1. TakesTheLead(a, b, next, FreshKey(p)) /\ next.mkskipped = store
    BY <1>4, CommittedTakesTheLead DEF SessionTypeOK
  <2>2. next.header_nonce_counter = b.header_nonce_counter
    BY <1>4, CommittedRatchet DEF SessionTypeOK
  <2>3. store = EmptyStore
    BY <1>2, RatchetSkipsNothing, NothingToSkip
  <2>4. \A f \in SessionFields \ {"received_messages"} : c[f] = next[f]
    BY DEF AfterCommit
  <2> HIDE DEF next, store, a, b
  <2>5. TakesTheLead(a, b, c, FreshKey(p))
    BY <2>1, <2>4 DEF TakesTheLead, SessionFields
  <2> QED BY <2>1, <2>2, <2>3, <2>4, <2>5 DEF SessionFields
<1>6. /\ c.pn = b.ns /\ c.ns = 0 /\ c.nr = 1
      /\ c.hk_s = b.nhk_s /\ c.hk_r = a.hk_s
  BY <1>4, <1>5 DEF TakesTheLead, Leads
<1>7. \A q \in Party : state'[q] = IF q = p THEN c ELSE state[q]
  BY DEF AInv, IInv, TypeOK
<1>8. l # p /\ state'[l] = a /\ state'[p] = c
  BY <1>2, <1>7, TwoParties
<1>9. /\ \A q \in Party : Total(q)' = Total(q)
      /\ Base(l)' = Base(l) /\ Base(p)' = Total(p)
      /\ Total(p) \in Nat /\ Total(l) \in Nat /\ Base(p) \in Nat /\ Base(l) \in Nat
      /\ b.ns \in Nat /\ r \in Nat
  <2>1. \A q \in Party : Total(q)' = Total(q)
    BY <1>5, <1>7 DEF Total
  <2>2. Base(l)' = Base(l)
    BY <2>1, <1>8 DEF Base
  <2>3. Total(p) \in Nat /\ Total(l) \in Nat /\ Base(p) \in Nat /\ Base(l) \in Nat
    BY OrderedTypes
  <2>4. Base(p)' = Total(p)
    BY <2>1, <2>3, <1>6, <1>8 DEF Base
  <2> QED BY <2>1, <2>2, <2>3, <2>4, OrderedTypes
<1>10. /\ Sent' = Sent /\ \A q \in Party : SentBy(q)' = SentBy(q)
       /\ DOMAIN inbox' = Party
       /\ inbox'[l] = inbox[l]
       /\ Len(inbox'[p]) \in {r, r + 1}
       /\ \A q \in Party : InboxOK(q)'
  BY <1>2, <1>3, <1>9, NextIsHandled
<1>11. /\ CountersOK(l) /\ CountersOK(p)
  BY DEF OInv
<1>12. CountersOK(l)'
  BY <1>8, <1>9, <1>10, <1>11 DEF CountersOK
<1>13. CountersOK(p)'
  <2>1. b.nhk_s # None
    BY DEF AInv, KeysOK, OwnKeysOK
  <2>2. \A d \in SentBy(p) : d.hk # b.nhk_s /\ d.nonce.counter < Total(p)
    BY DEF AInv, IInv, NoncesOK, MessageOK, SentBy, Total
  <2>3. \A k \in 0 .. Total(p) - 1 : \E d \in SentBy(p) : d.nonce.counter = k
    BY <1>11 DEF CountersOK
  <2> QED BY <2>1, <2>2, <2>3, <1>6, <1>8, <1>9, <1>10 DEF CountersOK
<1>14. NothingSkipped'
  BY <1>5, <1>7 DEF OInv, NothingSkipped
<1>15. ASSUME NEW k \in Party, Leading(k)' PROVE k = p
  <2> SUFFICES ASSUME k = l PROVE FALSE
    BY <1>2, TwoParties
  <2>1. a.hk_r = b.nhk_s
    BY <1>2, <1>6, <1>8, <1>15 DEF Leading
  <2> QED BY <2>1, <1>1, <1>2 DEF Turn, Leads
<1>16. /\ a.hk_r = b.hk_s
       /\ a.hk_r = None => Total(p) = 0
       /\ \A d \in SentBy(p) : d.hk = a.hk_r => d.nonce.counter = Base(p) + d.n
       /\ Base(p) = Total(p) - b.ns /\ b.ns <= Total(p)
  BY <1>4, <1>11 DEF Leads, CountersOK, Base
<1>17. PreviousChain(p)'
  <2>1. a.ck_r # None =>
           /\ a.ck_r[1] # c.ck_s[1]
           /\ a.ck_s # None => a.ck_r[1] # a.ck_s[1]
           /\ \A d \in Sent : d.mk[2] = a.ck_r[1] => d.hk = a.hk_r
    BY <1>1, <1>2, <1>5, ChainLeftBehind DEF AInv, FreshKey
  <2>2. /\ c.pn <= Base(p)'
        /\ a.hk_r = None => Base(p)' = 0
        /\ \A d \in SentBy(p)' : d.hk = a.hk_r => d.nonce.counter = Base(p)' - c.pn + d.n
    BY <1>6, <1>9, <1>10, <1>16
  <2> QED BY <2>1, <2>2, <1>3, <1>8, <1>10 DEF PreviousChain
<1>18. Position(p, Base(Peer(p)), Total(Peer(p)))'
  <2>1. Base(l)' = r /\ Total(l)' = Total(l)
    BY <1>2, <1>9
  <2>2. LET at == Len(inbox'[p])
        IN  /\ r <= at /\ at <= Total(l)
            /\ c.nr = at - r \/ (c.nr = at - r + 1 /\ at < Total(l))
    <3> HIDE DEF r
    <3> QED BY <1>2, <1>6, <1>9, <1>10
  <2> QED BY <2>1, <2>2, <1>3, <1>8 DEF Position
<1>19. Position(Peer(p), Base(p) - state[p].pn, Base(p))'
  <2>1. Position(l, Base(p), Total(p))
    BY <1>1, <1>2 DEF OInv
  <2>2. Base(p)' - c.pn = Base(p)
    BY <1>6, <1>9, <1>16
  <2> QED BY <2>1, <2>2, <1>3, <1>8, <1>9, <1>10 DEF Position
<1> QED BY <1>2, <1>8, <1>10, <1>12, <1>13, <1>14, <1>15, <1>17, <1>18, <1>19, TwoParties
    DEF OInv

(***************************************************************************)
(* A decrypt that the ordered network allows commits: no stored key opens  *)
(* the message, no commit is refused, and only a chain that was read       *)
(* before can have too many messages tracked.                              *)
(***************************************************************************)
LEMMA DecryptCommits ==
    ASSUME AInv, OInv, NEW p \in Party, NEW m \in Sent, DecryptInOrder(p, m)
    PROVE  /\ Admitted(state[p], m)
           /\ Arrives(p, m)
           /\ Outcome(p, m)
           /\ DhRatchetNeeded(state[p], m) => Hand(m)
           /\ Hand(m) => inbox' = [inbox EXCEPT ![p] = Append(@, m.nonce)]
           /\ \E c : /\ AfterCommit(c, Committed(state[p], m, FreshKey(p)), m)
                     /\ state' = [state EXCEPT ![p] = c]
<1> DEFINE s == state[p]
           next == Committed(s, m, FreshKey(p))
<1>1. /\ Arrives(p, m) /\ Decrypt(p, m)
      /\ inbox' = IF handed'[m] > handed[m]
                  THEN [inbox EXCEPT ![p] = Append(@, m.nonce)]
                  ELSE inbox
  BY DEF DecryptInOrder
<1>2. ~SkippedKeyOpens(s, m, "none")
  <2>1. s.mkskipped = EmptyStore
    BY DEF OInv, NothingSkipped
  <2> QED BY <2>1, EmptyIsStore DEF SkippedKeyOpens
<1>3. Authentic(p, m) /\ Admitted(s, m)
  BY <1>1, <1>2
     DEF Decrypt, DecryptWithSkippedKey, DecryptLosesSkippedKeys, DecryptTooMany,
         DecryptOnChain, Authentic, Admitted
<1>4. ~PreviousChainRefused(s, m)
  BY <1>1, <1>3, RatchetSkipsNothing
<1>5. \/ handed' = handed /\ ReceivedFull(next) /\ state' = [state EXCEPT ![p] = next]
      \/ Hand(m) /\ state' = [state EXCEPT ![p] = Tracked(next, m)]
  BY <1>1, <1>2, <1>4
     DEF Decrypt, DecryptWithSkippedKey, DecryptLosesSkippedKeys, DecryptTooMany,
         DecryptOnChain
<1>6. /\ handed[m] \in Nat
      /\ Hand(m) => handed'[m] = handed[m] + 1
  BY DEF AInv, IInv, TypeOK, Hand, Sent
<1>7. Hand(m) => inbox' = [inbox EXCEPT ![p] = Append(@, m.nonce)]
  BY <1>1, <1>6
<1>8. Outcome(p, m)
  BY <1>1, <1>5, <1>6, <1>7 DEF Outcome
<1>9. SessionTypeOK(s) /\ SessionOK(s) /\ PacketTypeOK(m) /\ PacketOK(m)
  BY DEF AInv, IInv, TypeOK
<1>10. SessionTypeOK(next)
  BY <1>3, <1>4, <1>9, CommittedKeeps
<1>11. \E c : AfterCommit(c, next, m) /\ state' = [state EXCEPT ![p] = c]
  <2>1. CASE Hand(m) /\ state' = [state EXCEPT ![p] = Tracked(next, m)]
    <3>1. AfterCommit(Tracked(next, m), next, m)
      BY <2>1, <1>6, <1>10, CommitOrTracked
    <3> QED BY <2>1, <3>1
  <2>2. CASE state' = [state EXCEPT ![p] = next]
    <3>1. AfterCommit(next, next, m)
      BY <1>10, CommitOrTracked
    <3> QED BY <2>2, <3>1
  <2> QED BY <1>5, <2>1, <2>2
<1>12. DhRatchetNeeded(s, m) => ~ReceivedFull(next)
  <2> SUFFICES ASSUME DhRatchetNeeded(s, m) PROVE ~ReceivedFull(next)
    OBVIOUS
  <2>1. next.received_messages = {}
    BY <1>9, CommittedRatchet DEF SessionTypeOK
  <2>2. Cardinality(next.received_messages) = 0
    BY <2>1, FS_EmptySet
  <2> HIDE DEF next
  <2> QED BY <2>2, LimitAssumption DEF ReceivedFull
<1> QED BY <1>1, <1>3, <1>5, <1>7, <1>8, <1>11, <1>12

(***************************************************************************)
(* A decrypt of the next message keeps the invariant, with a DH ratchet or *)
(* without one.                                                            *)
(***************************************************************************)
LEMMA DecryptOrdered ==
    ASSUME NoneIsNoKey, AInv, OInv, NEW p \in Party, NEW m \in Sent, DecryptInOrder(p, m)
    PROVE  OInv'
<1>1. /\ Admitted(state[p], m) /\ Arrives(p, m) /\ Outcome(p, m)
      /\ \E c : /\ AfterCommit(c, Committed(state[p], m, FreshKey(p)), m)
                /\ state' = [state EXCEPT ![p] = c]
  BY DecryptCommits
<1>2. PICK c : /\ AfterCommit(c, Committed(state[p], m, FreshKey(p)), m)
               /\ state' = [state EXCEPT ![p] = c]
  BY <1>1
<1>3. CASE DhRatchetNeeded(state[p], m)
  BY <1>1, <1>2, <1>3, RatchetOrdered
<1>4. CASE ~DhRatchetNeeded(state[p], m)
  BY <1>1, <1>2, <1>4, OnChainOrdered
<1> QED BY <1>3, <1>4

-----------------------------------------------------------------------------
(* The invariant of a session over an ordered network.                     *)

(***************************************************************************)
(* A step that changes nothing keeps the invariant.                        *)
(***************************************************************************)
LEMMA StutterOrdered == OInv /\ UNCHANGED orderedVars => OInv'
<1> SUFFICES ASSUME OInv, state' = state, handed' = handed, inbox' = inbox PROVE OInv'
  BY DEF orderedVars, vars
<1>1. /\ Sent' = Sent /\ \A q \in Party : SentBy(q)' = SentBy(q)
      /\ \A q \in Party : Total(q)' = Total(q) /\ Base(q)' = Base(q)
  BY DEF Sent, SentBy, Total, Base
<1>2. NothingSkipped' /\ DOMAIN inbox' = Party
  BY DEF OInv, NothingSkipped
<1>3. \A q \in Party : CountersOK(q)' /\ InboxOK(q)'
  BY <1>1, TwoParties DEF OInv, CountersOK, InboxOK
<1>4. ASSUME NEW l \in Party, Leading(l)'
      PROVE  /\ PreviousChain(l)'
             /\ Position(l, Base(Peer(l)), Total(Peer(l)))'
             /\ Position(Peer(l), Base(l) - state[l].pn, Base(l))'
  <2>1. /\ PreviousChain(l)
        /\ Position(l, Base(Peer(l)), Total(Peer(l)))
        /\ Position(Peer(l), Base(l) - state[l].pn, Base(l))
    BY <1>4 DEF OInv, Leading
  <2> QED BY <2>1, <1>1, TwoParties DEF PreviousChain, Position
<1> QED BY <1>2, <1>3, <1>4 DEF OInv

(***************************************************************************)
(* Every step keeps the invariant.                                         *)
(***************************************************************************)
LEMMA OrderedStep == NoneIsNoKey /\ AInv /\ OInv /\ [OrderedNext]_orderedVars => OInv'
<1> SUFFICES ASSUME NoneIsNoKey, AInv, OInv, [OrderedNext]_orderedVars PROVE OInv'
  OBVIOUS
<1>1. ASSUME NEW p \in Party, EncryptInOrder(p) PROVE OInv'
  <2>1. CASE Encrypt(p)
    BY <1>1, <2>1, EncryptOrdered DEF EncryptInOrder
  <2>2. CASE \E ad \in AdSizes : EncryptRefused(p, ad)
    BY <1>1, <2>2, StutterOrdered DEF EncryptInOrder, EncryptRefused, orderedVars
  <2> QED BY <1>1, <2>1, <2>2 DEF EncryptInOrder
<1>2. ASSUME NEW p \in Party, NEW m \in Sent, DecryptInOrder(p, m) PROVE OInv'
  BY <1>2, DecryptOrdered
<1>3. ASSUME NEW p \in Party, NEW m \in Sent, RefusedInOrder(p, m) PROVE OInv'
  BY <1>3, StutterOrdered DEF RefusedInOrder, DecryptRefused, orderedVars
<1>4. CASE UNCHANGED orderedVars
  BY <1>4, StutterOrdered
<1> QED BY <1>1, <1>2, <1>3, <1>4 DEF OrderedNext

(***************************************************************************)
(* At the start Alice leads; nothing was sent.                             *)
(***************************************************************************)
LEMMA OrderedStart == NoneIsNoKey /\ OrderedInit => OInv
<1> SUFFICES ASSUME NoneIsNoKey, OrderedInit PROVE OInv
  OBVIOUS
<1>1. /\ Alice \in Party /\ Bob \in Party /\ Alice # Bob
      /\ Peer(Alice) = Bob /\ Peer(Bob) = Alice
      /\ \A q \in Party : q = Alice \/ q = Bob
  BY PartyAssumption DEF Party, Peer
<1>2. /\ state[Alice] = InitSenderState(SharedSecret, Key(Alice, 1), Key(Bob, 0))
      /\ state[Bob] = InitReceiverState(SharedSecret, Key(Bob, 0))
      /\ Sent = {}
      /\ DOMAIN inbox = Party /\ \A q \in Party : inbox[q] = <<>>
  BY <1>1 DEF OrderedInit, Init, Sent
<1>3. \A q \in Party : /\ state[q].ns = 0 /\ state[q].pn = 0
                       /\ state[q].header_nonce_counter = 0
                       /\ state[q].hk_r = None /\ state[q].ck_r = None
                       /\ state[q].mkskipped = EmptyStore
  BY <1>1, <1>2 DEF InitSenderState, InitReceiverState
<1>4. \A q \in Party : SentBy(q) = {} /\ Total(q) = 0 /\ Base(q) = 0
  BY <1>2, <1>3 DEF SentBy, Total, Base
<1>5. \A q \in Party : CountersOK(q) /\ InboxOK(q)
  <2>1. \A q \in Party : CountersOK(q)
    BY <1>3, <1>4 DEF CountersOK
  <2>2. <<>> \in Seq(Nonces) /\ Len(<<>>) = 0
    OBVIOUS
  <2>3. ASSUME NEW q \in Party PROVE InboxOK(q)
    <3>1. inbox[q] = <<>> /\ Total(Peer(q)) = 0 /\ SentBy(Peer(q)) = {}
      BY <1>2, <1>4, TwoParties
    <3>2. inbox[q] \in Seq(Nonces) /\ Len(inbox[q]) = 0
      BY <3>1, <2>2
    <3> QED BY <3>1, <3>2 DEF InboxOK
  <2> QED BY <2>1, <2>3
<1>6. \A l \in Party : /\ PreviousChain(l)
                       /\ Position(l, Base(Peer(l)), Total(Peer(l)))
                       /\ Position(Peer(l), Base(l) - state[l].pn, Base(l))
  <2>1. \A l \in Party : PreviousChain(l)
    BY <1>1, <1>3, <1>4 DEF PreviousChain
  <2>2. \A q \in Party : Position(q, 0, 0)
    BY <1>2, <1>3 DEF Position
  <2> QED BY <2>1, <2>2, <1>1, <1>3, <1>4
<1>7. NothingSkipped
  BY <1>3 DEF NothingSkipped
<1> QED BY <1>2, <1>5, <1>6, <1>7 DEF OInv

(***************************************************************************)
(* A step over the ordered network is one of the session.                  *)
(***************************************************************************)
LEMMA OrderedIsSession == OrderedInit /\ [][OrderedNext]_orderedVars => Spec
<1>1. OrderedInit => Init
  BY DEF OrderedInit
<1>2. [OrderedNext]_orderedVars => [Next]_vars
  BY DEF OrderedNext, EncryptInOrder, DecryptInOrder, RefusedInOrder, Next, orderedVars, vars
<1> QED BY <1>1, <1>2, PTL DEF Spec

(***************************************************************************)
(* OInv is an inductive invariant of the ordered session, next to AInv.    *)
(***************************************************************************)
THEOREM OrderedInvariance == NoneIsNoKey => (OrderedSpec => [](AInv /\ OInv))
<1> SUFFICES ASSUME NoneIsNoKey PROVE OrderedSpec => [](AInv /\ OInv)
  OBVIOUS
<1>1. OrderedInit => OInv
  BY OrderedStart
<1>2. AInv /\ OInv /\ [OrderedNext]_orderedVars => OInv'
  BY OrderedStep
<1>3. Spec => []AInv
  BY Agreement
<1>4. OrderedInit /\ [][OrderedNext]_orderedVars => Spec
  BY OrderedIsSession
<1> QED BY <1>1, <1>2, <1>3, <1>4, PTL DEF OrderedSpec

(***************************************************************************)
(* Over an ordered network skip_message_keys never stores a key, however   *)
(* many messages are repeated and however the DH ratchets fall.            *)
(***************************************************************************)
THEOREM StoreStaysEmpty == NoneIsNoKey => (OrderedSpec => []NothingSkipped)
<1>1. OInv => NothingSkipped
  BY DEF OInv
<1> QED BY <1>1, OrderedInvariance, PTL

(***************************************************************************)
(* What was handed over lies behind the receiving chain: the message       *)
(* numbers of the chain that are below nr.                                 *)
(***************************************************************************)
LEMMA HandedLieBehind ==
    ASSUME AInv, OInv, NEW p \in Party, NEW m \in SentBy(Peer(p)), handed[m] > 0,
           state[p].ck_r # None, m.mk[2] = state[p].ck_r[1]
    PROVE  m.n < state[p].nr
<1> DEFINE s == state[p]
           at == Len(inbox[p])
<1>1. PICK l \in Party : Turn(state, l) /\ Leading(l)
  BY LeaderTurn
<1> DEFINE base == ReadBase(l, p)
<1>2. /\ m \in Sent /\ MessageOK(state, m) /\ m.n \in Nat /\ m.nonce.counter \in Nat
  BY DEF SentBy, AInv, IInv, TypeOK, PacketTypeOK
<1>3. m.nonce.counter < at
  BY TwoParties DEF OInv, InboxOK
<1>4. m.nonce.counter = base + m.n
  <2>1. CASE p = l
    <3> DEFINE o == state[Peer(l)]
    <3>1. /\ o.ck_s # None /\ s.ck_r = <<o.ck_s[1], s.nr>>
      BY <2>1, <1>1 DEF Turn, Leads
    <3>2. s.ck_r[1] = o.ck_s[1]
      <4> HIDE DEF s, o
      <4> QED BY <3>1
    <3>3. Current(m, o)
      BY <3>1, <3>2 DEF Current
    <3>4. m.hk = o.hk_s
      BY <3>3, <1>2, TwoParties DEF MessageOK, SentOn
    <3> QED BY <2>1, <3>4, TwoParties DEF OInv, CountersOK, ReadBase
  <2>2. CASE p # l
    <3>1. p = Peer(l) /\ Peer(p) = l
      BY <2>2, TwoParties
    <3>2. PreviousChain(l)
      BY <1>1 DEF OInv
    <3>3. m.hk = s.hk_r
      BY <3>1, <3>2, <1>2 DEF PreviousChain
    <3> QED BY <2>2, <3>1, <3>2, <3>3 DEF PreviousChain, ReadBase
  <2> QED BY <2>1, <2>2
<1>5. base \in Int /\ at \in Nat /\ s.nr \in Nat
  BY <1>1, OrderedTypes, TwoParties DEF ReadBase
<1>6. s.nr = at - base \/ s.nr = at - base + 1
  <2>1. s.hk_r # None
    BY DEF AInv, KeysOK, OwnKeysOK
  <2> QED BY <1>1, <2>1, PositionsAre DEF Position
<1> HIDE DEF s, at, base
<1> QED BY <1>2, <1>3, <1>4, <1>5, <1>6 DEF s

(***************************************************************************)
(* Forward secrecy over an ordered network: what a party still holds leads *)
(* to no message that it has decrypted.  The keys of those messages lie    *)
(* behind its receiving chain key.                                         *)
(***************************************************************************)
THEOREM KeysAreForgotten == NoneIsNoKey => (OrderedSpec => []HandedKeysForgotten)
<1>1. AInv /\ OInv => HandedKeysForgotten
  <2> SUFFICES ASSUME AInv, OInv, NEW m \in Sent, handed[m] > 0
               PROVE  LET s == state[Peer(Sender(m))]
                      IN  /\ \A k \in DOMAIN s.mkskipped : s.mkskipped[k].mk # m.mk
                          /\ s.ck_r # None =>
                               \A i \in 0 .. m.n : m.mk # KdfCk(KdfCkIter(s.ck_r, i)).mk
    BY DEF HandedKeysForgotten
  <2> DEFINE q == Sender(m)
             p == Peer(q)
             s == state[p]
  <2>1. /\ q \in Party /\ p \in Party /\ Peer(p) = q /\ m \in SentBy(Peer(p))
    <3>1. q \in Party
      BY DEF Sender, Party
    <3> QED BY <3>1, TwoParties DEF SentBy
  <2>2. s.mkskipped = EmptyStore
    BY <2>1 DEF OInv, NothingSkipped
  <2>3. \A k \in DOMAIN s.mkskipped : s.mkskipped[k].mk # m.mk
    BY <2>2, EmptyIsStore
  <2>4. ASSUME s.ck_r # None, NEW i \in 0 .. m.n, m.mk = KdfCk(KdfCkIter(s.ck_r, i)).mk
        PROVE  FALSE
    <3>1. m.mk = <<"mk", s.ck_r[1], s.ck_r[2] + i>>
      BY <2>4 DEF KdfCk, KdfCkIter
    <3>2. m.mk[2] = s.ck_r[1] /\ m.mk[3] = s.ck_r[2] + i
      <4> HIDE DEF s
      <4> QED BY <3>1
    <3>3. m.mk[3] = m.n /\ m.n \in Nat
      BY DEF AInv, IInv, TypeOK, PacketTypeOK, PacketOK
    <3>4. s.ck_r[2] = s.nr /\ s.nr \in Nat
      <4>1. s.hk_r # None
        BY <2>1, <2>4 DEF AInv, KeysOK, OwnKeysOK
      <4> QED BY <2>1, <4>1, OrderedTypes DEF AInv, IInv, SessionOK
    <3>5. m.n < s.nr
      BY <2>1, <2>4, <3>2, HandedLieBehind
    <3> HIDE DEF s
    <3> QED BY <3>2, <3>3, <3>4, <3>5
  <2> QED BY <2>3, <2>4
<1> QED BY <1>1, OrderedInvariance, PTL

-----------------------------------------------------------------------------
(* The refinement of FifoChannel.                                          *)

(***************************************************************************)
(* The outbox of a party: one nonce per message, in the order of sending.  *)
(***************************************************************************)
LEMMA OutboxIs ==
    ASSUME AInv, OInv, NEW q \in Party
    PROVE  Outbox(q) = [i \in 1 .. Total(q) |-> Nonce(q, i - 1)]
<1>1. Cardinality(SentBy(q)) = Total(q) /\ Total(q) \in Nat
  BY OrderedTypes DEF AInv, IInv, NoncesOK, Total
<1>2. ASSUME NEW i \in 1 .. Total(q)
      PROVE  (CHOOSE nonce \in {m.nonce : m \in SentBy(q)} : nonce.counter = i - 1)
                = Nonce(q, i - 1)
  <2>1. i - 1 \in 0 .. Total(q) - 1
    BY <1>1
  <2>2. PICK m \in SentBy(q) : m.nonce.counter = i - 1
    BY <2>1 DEF OInv, CountersOK
  <2>3. \A d \in SentBy(q) : d.nonce = Nonce(q, d.nonce.counter)
    BY NonceOfSent
  <2> DEFINE nonces == {d.nonce : d \in SentBy(q)}
  <2>4. \E nonce \in nonces : nonce.counter = i - 1
    BY <2>2
  <2>5. \A nonce \in nonces : nonce.counter = i - 1 => nonce = Nonce(q, i - 1)
    BY <2>3
  <2> HIDE DEF nonces
  <2>6. (CHOOSE nonce \in nonces : nonce.counter = i - 1) = Nonce(q, i - 1)
    BY <2>4, <2>5
  <2> QED BY <2>6 DEF nonces
<1> QED BY <1>1, <1>2 DEF Outbox

(***************************************************************************)
(* Bob can encrypt only after a DH ratchet, and the message that brought   *)
(* it was handed over: a new receiving chain has none tracked yet.         *)
(***************************************************************************)
BobWasSpokenTo == state[Bob].hk_s # None => inbox[Bob] # <<>>

(***************************************************************************)
(* No step lets Bob encrypt before a message was handed over to him.       *)
(***************************************************************************)
LEMMA BobIsSpokenTo ==
    ASSUME NoneIsNoKey, AInv, OInv, BobWasSpokenTo, [OrderedNext]_orderedVars
    PROVE  BobWasSpokenTo'
<1>1. /\ Bob \in Party /\ DOMAIN inbox = Party /\ DOMAIN state = Party
      /\ \A q \in Party : inbox[q] \in Seq(Nonces)
  BY OrderedTypes DEF Party, OInv, AInv, IInv, TypeOK
<1>2. ASSUME state'[Bob].hk_s = state[Bob].hk_s,
             inbox' = inbox \/ \E q \in Party, x \in Nonces :
                                  inbox' = [inbox EXCEPT ![q] = Append(@, x)]
      PROVE  BobWasSpokenTo'
  <2>1. CASE inbox' = inbox
    BY <2>1, <1>2 DEF BobWasSpokenTo
  <2>2. ASSUME NEW q \in Party, NEW x \in Nonces,
               inbox' = [inbox EXCEPT ![q] = Append(@, x)]
        PROVE  BobWasSpokenTo'
    <3>1. inbox'[Bob] = IF q = Bob THEN Append(inbox[Bob], x) ELSE inbox[Bob]
      BY <2>2, <1>1
    <3>2. Append(inbox[Bob], x) # <<>>
      BY <1>1
    <3> QED BY <3>1, <3>2, <1>2 DEF BobWasSpokenTo
  <2> QED BY <2>1, <2>2, <1>2
<1>3. ASSUME NEW p \in Party, EncryptInOrder(p) PROVE BobWasSpokenTo'
  <2>1. inbox' = inbox /\ (Encrypt(p) \/ UNCHANGED vars)
    BY <1>3 DEF EncryptInOrder, EncryptRefused
  <2>2. state'[Bob].hk_s = state[Bob].hk_s
    <3>1. CASE Encrypt(p)
      BY <3>1, <1>1, EncryptChanges DEF Quiet
    <3>2. CASE UNCHANGED vars
      BY <3>2 DEF vars
    <3> QED BY <2>1, <3>1, <3>2
  <2> QED BY <2>1, <2>2, <1>2
<1>4. ASSUME NEW p \in Party, NEW m \in Sent, DecryptInOrder(p, m) PROVE BobWasSpokenTo'
  <2>1. /\ Admitted(state[p], m) /\ Arrives(p, m) /\ Outcome(p, m)
        /\ DhRatchetNeeded(state[p], m) => Hand(m)
        /\ Hand(m) => inbox' = [inbox EXCEPT ![p] = Append(@, m.nonce)]
        /\ \E c : /\ AfterCommit(c, Committed(state[p], m, FreshKey(p)), m)
                  /\ state' = [state EXCEPT ![p] = c]
    BY <1>4, DecryptCommits
  <2>2. PICK c : /\ AfterCommit(c, Committed(state[p], m, FreshKey(p)), m)
                 /\ state' = [state EXCEPT ![p] = c]
    BY <2>1
  <2>3. m.nonce \in Nonces
    BY <2>1, ArrivesNext, NonceOfSent, TwoParties
  <2>4. state'[Bob] = IF p = Bob THEN c ELSE state[Bob]
    BY <2>2, <1>1
  <2>5. CASE DhRatchetNeeded(state[p], m) /\ p = Bob
    <3>1. inbox'[Bob] = Append(inbox[Bob], m.nonce)
      BY <2>1, <2>5, <1>1
    <3>2. Append(inbox[Bob], m.nonce) # <<>>
      BY <2>3, <1>1
    <3> QED BY <3>1, <3>2 DEF BobWasSpokenTo
  <2>6. CASE ~DhRatchetNeeded(state[p], m) \/ p # Bob
    <3>1. state'[Bob].hk_s = state[Bob].hk_s
      <4>1. CASE p # Bob
        BY <4>1, <2>4
      <4>2. CASE p = Bob /\ ~DhRatchetNeeded(state[p], m)
        <5> DEFINE next == Committed(state[p], m, FreshKey(p))
        <5>1. SessionTypeOK(state[p])
          BY DEF AInv, IInv, TypeOK
        <5>2. next.hk_s = state[p].hk_s
          <6>1. DOMAIN state[p] = SessionFields
            BY <5>1 DEF SessionTypeOK
          <6> HIDE DEF next
          <6>2. \A f \in SessionFields \ {"ck_r", "nr", "mkskipped"} : next[f] = state[p][f]
            BY <4>2, <6>1, CommittedOnChain DEF next
          <6> QED BY <6>2 DEF SessionFields
        <5>3. c.hk_s = next.hk_s
          BY <2>2 DEF AfterCommit, SessionFields
        <5> QED BY <4>2, <5>2, <5>3, <2>4
      <4> QED BY <2>6, <4>1, <4>2
    <3> QED BY <3>1, <2>1, <2>3, <1>2 DEF Outcome
  <2> QED BY <2>5, <2>6
<1>5. ASSUME NEW p \in Party, NEW m \in Sent, RefusedInOrder(p, m) PROVE BobWasSpokenTo'
  BY <1>5 DEF RefusedInOrder, DecryptRefused, vars, BobWasSpokenTo
<1>6. CASE UNCHANGED orderedVars
  BY <1>6 DEF orderedVars, vars, BobWasSpokenTo
<1> QED BY <1>3, <1>4, <1>5, <1>6 DEF OrderedNext

(***************************************************************************)
(* The outbox of each party, by the header nonces it has used; of the next *)
(* state by the temporal prover, which primes the lemma.                   *)
(***************************************************************************)
OutboxOK ==
    \A q \in Party : Outbox(q) = [i \in 1 .. Total(q) |-> Nonce(q, i - 1)]

(***************************************************************************)
(* OutboxOK follows from the invariants, here of the next state.           *)
(***************************************************************************)
LEMMA OutboxesNextAreOK == AInv' /\ OInv' => OutboxOK'
<1>1. AInv /\ OInv => OutboxOK
  BY OutboxIs DEF OutboxOK
<1> QED BY <1>1, PTL

(***************************************************************************)
(* A successful encrypt sends on the channel of its party.                 *)
(***************************************************************************)
LEMMA EncryptSends ==
    ASSUME NoneIsNoKey, AInv, OInv, BobWasSpokenTo, AInv', OInv',
           NEW p \in Party, Encrypt(p), UNCHANGED inbox
    PROVE  Fifo!Send(p)
<1> DEFINE T == Total(p)
           new == Nonce(p, T)
<1>1. /\ state'[p].header_nonce_counter = T + 1
      /\ state'[Peer(p)] = state[Peer(p)]
      /\ state[p].hk_s # None
      /\ T \in 0 .. MaxNonce - 1
  BY EncryptChanges DEF Total
<1>2. p = Alice \/ inbox[p] # <<>>
  BY <1>1 DEF BobWasSpokenTo, Party
<1>3. new \in [is_sender : BOOLEAN, counter : 0 .. MaxNonce]
  BY <1>1, LimitAssumption DEF Nonce
<1>4. /\ Total(p)' = T + 1 /\ Total(Peer(p))' = Total(Peer(p))
  BY <1>1 DEF Total
<1>5. /\ \A q \in Party : Outbox(q) = [i \in 1 .. Total(q) |-> Nonce(q, i - 1)]
      /\ \A q \in Party : Outbox(q)' = [i \in 1 .. Total(q)' |-> Nonce(q, i - 1)]
  BY OutboxIs, OutboxesNextAreOK DEF OutboxOK
<1>6. Outbox(p)' = Append(Outbox(p), new)
  <2>1. Outbox(p)' = [i \in 1 .. T + 1 |-> Nonce(p, i - 1)]
    BY <1>4, <1>5
  <2>2. Outbox(p) = [i \in 1 .. T |-> Nonce(p, i - 1)] /\ T \in Nat
    BY <1>1, <1>5
  <2>3. Nonce(p, (T + 1) - 1) = new
    BY <2>2
  <2> HIDE DEF T
  <2> QED BY <2>1, <2>2, <2>3
<1>7. Outbox(Peer(p))' = Outbox(Peer(p))
  <2> DEFINE o == Peer(p)
  <2>1. /\ Outbox(o) = [i \in 1 .. Total(o) |-> Nonce(o, i - 1)]
        /\ Outbox(o)' = [i \in 1 .. Total(o)' |-> Nonce(o, i - 1)]
    BY <1>5, TwoParties
  <2>2. Total(o)' = Total(o)
    BY <1>4
  <2> QED BY <2>1, <2>2, Zenon
<1>8. [q \in Party |-> Outbox(q)]' = [[q \in Party |-> Outbox(q)] EXCEPT ![p] = Append(@, new)]
  <2> DEFINE out == [q \in Party |-> Outbox(q)]
  <2>1. \A q \in Party : Outbox(q)' = IF q = p THEN Append(out[p], new) ELSE out[q]
    BY <1>6, <1>7, TwoParties
  <2> QED BY <2>1
<1> QED BY <1>2, <1>3, <1>8 DEF Fifo!Send

(***************************************************************************)
(* A decrypt that hands over its message receives the next one; one that   *)
(* drops it is a stutter.                                                  *)
(***************************************************************************)
LEMMA DecryptReceives ==
    ASSUME NoneIsNoKey, AInv, OInv, AInv', OInv',
           NEW p \in Party, NEW m \in Sent, DecryptInOrder(p, m)
    PROVE  Fifo!Receive(p) \/ UNCHANGED <<[q \in Party |-> Outbox(q)], inbox>>
<1> DEFINE o == Peer(p)
           r == Len(inbox[p])
<1>1. /\ Admitted(state[p], m) /\ Arrives(p, m) /\ Outcome(p, m)
      /\ \E c : /\ AfterCommit(c, Committed(state[p], m, FreshKey(p)), m)
                /\ state' = [state EXCEPT ![p] = c]
  BY DecryptCommits
<1>2. PICK c : /\ AfterCommit(c, Committed(state[p], m, FreshKey(p)), m)
               /\ state' = [state EXCEPT ![p] = c]
  BY <1>1
<1>3. PICK l \in Party : /\ Turn(state, l) /\ \A k \in Sent : PreviousOK(state, l, k)
  BY DEF AInv
<1>4. m.nonce.counter = r
  <2>1. Leading(l)
    BY <1>3 DEF Turn, Leads, Leading
  <2> QED BY <1>1, <1>3, <2>1, NextOnChain, NextRatchet
<1>5. /\ m \in SentBy(o) /\ r < Total(o) /\ o \in Party /\ r \in Nat /\ Total(o) \in Nat
  BY <1>1, <1>4, ArrivesNext, OrderedTypes, TwoParties
<1>6. c.header_nonce_counter = state[p].header_nonce_counter
  <2> DEFINE next == Committed(state[p], m, FreshKey(p))
  <2>1. SessionTypeOK(state[p])
    BY DEF AInv, IInv, TypeOK
  <2>2. next.header_nonce_counter = state[p].header_nonce_counter
    <3>1. CASE DhRatchetNeeded(state[p], m)
      BY <2>1, <3>1, CommittedRatchet DEF SessionTypeOK
    <3>2. CASE ~DhRatchetNeeded(state[p], m)
      BY <2>1, <3>2, CommittedOnChain DEF SessionTypeOK, SessionFields
    <3> QED BY <3>1, <3>2
  <2>3. c.header_nonce_counter = next.header_nonce_counter
    BY <1>2 DEF AfterCommit, SessionFields
  <2> QED BY <2>2, <2>3
<1>7. \A q \in Party : Total(q)' = Total(q)
  BY <1>2, <1>6 DEF Total, AInv, IInv, TypeOK
<1>8. /\ \A q \in Party : Outbox(q) = [i \in 1 .. Total(q) |-> Nonce(q, i - 1)]
      /\ \A q \in Party : Outbox(q)' = [i \in 1 .. Total(q)' |-> Nonce(q, i - 1)]
  BY OutboxIs, OutboxesNextAreOK DEF OutboxOK
<1>9. [q \in Party |-> Outbox(q)]' = [q \in Party |-> Outbox(q)]
  <2>1. \A q \in Party : Outbox(q)' = Outbox(q)
    BY <1>7, <1>8, Zenon
  <2> QED BY <2>1
<1>10. CASE handed' = handed /\ inbox' = inbox
  BY <1>9, <1>10
<1>11. CASE inbox' = [inbox EXCEPT ![p] = Append(@, m.nonce)]
  <2>1. m.nonce = Nonce(o, r)
    BY <1>4, <1>5, NonceOfSent
  <2>2. Outbox(o) = [i \in 1 .. Total(o) |-> Nonce(o, i - 1)]
    BY <1>5, <1>8
  <2>3. Len(Outbox(o)) = Total(o) /\ Outbox(o)[r + 1] = Nonce(o, r)
    <3>1. r + 1 \in 1 .. Total(o) /\ (r + 1) - 1 = r
      BY <1>5
    <3> HIDE DEF r, o
    <3> QED BY <1>5, <2>2, <3>1
  <2>4. o = IF p = Alice THEN Bob ELSE Alice
    BY DEF Peer
  <2> HIDE DEF r, o
  <2>5. /\ r < Len([q \in Party |-> Outbox(q)][o])
        /\ inbox' = [inbox EXCEPT ![p] =
                        Append(@, [q \in Party |-> Outbox(q)][o][r + 1])]
    BY <1>5, <1>11, <2>1, <2>3
  <2> QED BY <1>9, <2>4, <2>5 DEF Fifo!Receive, Fifo!Other, r
<1> QED BY <1>1, <1>10, <1>11 DEF Outcome

(***************************************************************************)
(* encrypt and decrypt over an ordered network are a pair of FIFO          *)
(* channels: every plaintext that comes out is the next one that went in   *)
(* at the other side, whatever is repeated, refused or dropped on the way. *)
(***************************************************************************)
THEOREM OrderedIsFifo == NoneIsNoKey => (OrderedSpec => Fifo!ChannelSafety)
<1> SUFFICES ASSUME NoneIsNoKey PROVE OrderedSpec => Fifo!ChannelSafety
  OBVIOUS
<1>1. OrderedInit => BobWasSpokenTo
  <2>1. OrderedInit => state[Bob].hk_s = None
    BY PartyAssumption DEF OrderedInit, Init, Party, InitReceiverState
  <2> QED BY <2>1 DEF BobWasSpokenTo
<1>2. AInv /\ OInv /\ BobWasSpokenTo /\ [OrderedNext]_orderedVars => BobWasSpokenTo'
  BY BobIsSpokenTo
<1>3. OrderedInit /\ AInv /\ OInv => Fifo!ChannelInit
  <2> SUFFICES ASSUME OrderedInit, AInv, OInv PROVE Fifo!ChannelInit
    OBVIOUS
  <2>1. \A q \in Party : Total(q) = 0
    BY DEF OrderedInit, Init, Total, InitSenderState, InitReceiverState
  <2>2. \A q \in Party : Outbox(q) = <<>>
    BY <2>1, OutboxIs
  <2>3. [q \in Party |-> Outbox(q)] = [q \in {Alice, Bob} |-> <<>>]
    BY <2>2 DEF Party
  <2>4. inbox = [q \in {Alice, Bob} |-> <<>>]
    BY DEF OrderedInit, Party
  <2> QED BY <2>3, <2>4 DEF Fifo!ChannelInit
<1>4. AInv /\ OInv /\ BobWasSpokenTo /\ AInv' /\ OInv' /\ [OrderedNext]_orderedVars
         => [Fifo!ChannelNext]_(Fifo!channels)
  <2> SUFFICES ASSUME AInv, OInv, BobWasSpokenTo, AInv', OInv', [OrderedNext]_orderedVars
               PROVE  Fifo!ChannelNext \/ UNCHANGED Fifo!channels
    OBVIOUS
  <2>1. ASSUME state' = state, handed' = handed, inbox' = inbox
        PROVE  UNCHANGED Fifo!channels
    <3>1. \A q \in Party : Outbox(q)' = Outbox(q)
      BY <2>1 DEF Outbox, SentBy, Sent, Sender
    <3> QED BY <2>1, <3>1 DEF Fifo!channels
  <2>2. ASSUME NEW p \in Party, EncryptInOrder(p)
        PROVE  Fifo!ChannelNext \/ UNCHANGED Fifo!channels
    <3>1. CASE Encrypt(p)
      <4>1. Fifo!Send(p)
        BY <2>2, <3>1, EncryptSends DEF EncryptInOrder
      <4> QED BY <4>1 DEF Fifo!ChannelNext, Party
    <3>2. CASE \E ad \in AdSizes : EncryptRefused(p, ad)
      BY <2>1, <2>2, <3>2 DEF EncryptInOrder, EncryptRefused, vars
    <3> QED BY <2>2, <3>1, <3>2 DEF EncryptInOrder
  <2>3. ASSUME NEW p \in Party, NEW m \in Sent, DecryptInOrder(p, m)
        PROVE  Fifo!ChannelNext \/ UNCHANGED Fifo!channels
    <3>1. Fifo!Receive(p) \/ UNCHANGED <<[q \in Party |-> Outbox(q)], inbox>>
      BY <2>3, DecryptReceives
    <3> QED BY <3>1 DEF Fifo!ChannelNext, Fifo!channels, Party
  <2>4. ASSUME NEW p \in Party, NEW m \in Sent, RefusedInOrder(p, m)
        PROVE  UNCHANGED Fifo!channels
    BY <2>1, <2>4 DEF RefusedInOrder, DecryptRefused, vars
  <2>5. CASE UNCHANGED orderedVars
    BY <2>1, <2>5 DEF orderedVars, vars
  <2> QED BY <2>2, <2>3, <2>4, <2>5 DEF OrderedNext
<1>5. OrderedSpec => [](AInv /\ OInv)
  BY OrderedInvariance
<1> QED BY <1>1, <1>2, <1>3, <1>4, <1>5, PTL DEF OrderedSpec, Fifo!ChannelSafety

=============================================================================
