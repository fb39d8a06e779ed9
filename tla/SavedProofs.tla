---------------------------- MODULE SavedProofs ----------------------------
(***************************************************************************)
(* Theorems about SavedSession, for every number of crashes and nulls, of  *)
(* messages, and every value of the library's limits: no nonce and no key  *)
(* is used twice, a copy does not lead to what was sent before it, and it  *)
(* is of no use after the next DH ratchets.  The two sessions stay in step *)
(* through all of it, and within the limits nothing that was sent is lost. *)
(*                                                                         *)
(* The first three need no agreement between the two sessions, only that a *)
(* DH ratchet draws a pair nobody knew: what is derived from it is new,    *)
(* and whatever holds it has it from there.  InStep needs that the two     *)
(* agree wherever each of them stands or would start from again, and       *)
(* SavedCopyRecovers, besides, what has been stored and what is awaited.   *)
(***************************************************************************)
EXTENDS CopiedSession, SessionProofs

(***************************************************************************)
(* A key pair that has been drawn, and keys derived from such pairs alone. *)
(***************************************************************************)
Drawn(prs, k) == \E q \in Party : \E i \in 0 .. prs[q] : k = Key(q, i)

RootDrawn(prs, root) == root # SharedSecret => \A k \in root[3] : Drawn(prs, k)

NextHeaderKey(root) == <<"nhk", root>>

HeaderKeyDrawn(prs, hk) == hk[1] = "nhk" => RootDrawn(prs, hk[2])

(***************************************************************************)
(* A root that one or two DH ratchets with the key pair of s lead to.      *)
(***************************************************************************)
LeadsTo(s, root) ==
    /\ root # SharedSecret
    /\ s.dh_pair \in root[3]
    /\ \/ root[2] = s.rk
       \/ root[2] # SharedSecret /\ s.dh_pair \in root[2][3] /\ root[2][2] = s.rk

(***************************************************************************)
(* A session whose sending chain has begun; only Bob's first has not.      *)
(***************************************************************************)
Begun(s) == s.rk # SharedSecret

ChainOK(prs, p, s) ==
    /\ s.rk = <<"okm", s.rk[2], {s.dh_pair, s.dh_remote}>>
    /\ s.dh_remote[2] \in 0 .. prs[Peer(p)]
    /\ s.dh_remote = Key(Peer(p), s.dh_remote[2])
    /\ s.ck_s = <<s.rk, s.ck_s[2]>> /\ s.ck_s[2] \in Nat
    /\ ~LeadsTo(s, s.rk)

NotBegun(s) == s.dh_pair[2] = 0 /\ s.dh_remote = None /\ s.ck_s = None

(***************************************************************************)
(* A receiving chain of p: there is a message of the peer's on it, and it  *)
(* was derived with no later key pair than the session's own.              *)
(***************************************************************************)
FromPeer(sent, p, s, root) ==
    /\ \E m \in sent : Sender(m) = Peer(p) /\ m.mk[2] = root
    /\ \A k \in root[3] : k[1] = p => k[2] \in 0 .. s.dh_pair[2]

(***************************************************************************)
(* A session of p, in memory or on disk.                                   *)
(***************************************************************************)
CopyOK(prs, sent, p, s) ==
    /\ DOMAIN s = SessionFields
    /\ s.is_sender \in BOOLEAN
    /\ s.is_sender <=> p = Alice
    /\ s.header_nonce_counter \in Nat
    /\ s.ns \in Nat /\ s.nr \in Nat /\ s.pn \in Nat
    /\ s.dh_pair[2] \in 0 .. prs[p] /\ s.dh_pair = Key(p, s.dh_pair[2])
    /\ IF Begun(s) THEN ChainOK(prs, p, s) ELSE NotBegun(s)
    /\ s.hk_r # None \/ s.ck_r # None => FromPeer(sent, p, s, s.ck_r[1])

CopiesOK(prs, sent, st, sv) ==
    /\ DOMAIN st = Party /\ DOMAIN sv = Party
    /\ \A p \in Party : CopyOK(prs, sent, p, st[p]) /\ CopyOK(prs, sent, p, sv[p])

(***************************************************************************)
(* The stored keys, in memory a function and on disk a set of pairs.       *)
(***************************************************************************)
StoreOK(sent, p, s) ==
    \A k \in DOMAIN s.mkskipped : FromPeer(sent, p, s, s.mkskipped[k].mk[2])

SavedStoreOK(sent, p, s) ==
    \A e \in s.mkskipped : FromPeer(sent, p, s, e[2].mk[2])

KeptKeysOK(sent, st, sv) ==
    \A p \in Party : StoreOK(sent, p, st[p]) /\ SavedStoreOK(sent, p, sv[p])

(***************************************************************************)
(* The messages encrypted: those sent, and those in an outbox.             *)
(***************************************************************************)
Encrypted(sent, out) == sent \cup ({out[q] : q \in Party} \ {None})

ItemOK(prs, m) ==
    /\ m.hk # None
    /\ m.nonce = [is_sender |-> m.nonce.is_sender, counter |-> m.nonce.counter]
    /\ m.nonce.is_sender \in BOOLEAN
    /\ m.nonce.counter \in Nat /\ m.n \in Nat /\ m.pn \in Nat
    /\ m.dh_pub[2] \in 0 .. prs[Sender(m)]
    /\ m.dh_pub = Key(Sender(m), m.dh_pub[2])
    /\ m.mk = <<"mk", m.mk[2], m.mk[3]>> /\ m.mk[3] \in Nat

(***************************************************************************)
(* Sending chains.  Along one, message numbers and nonce counters move     *)
(* together: whoever is on it, a message, a session or an old copy, is on  *)
(* it for the same party and at the same distance of the two.              *)
(***************************************************************************)
Place(m) == <<m.mk[2], Sender(m), m.mk[3] - m.nonce.counter>>

PlaceOf(p, s) == <<s.rk, p, s.ck_s[2] - s.header_nonce_counter>>

Places(items, st, sv) ==
    {Place(m) : m \in items}
    \cup {PlaceOf(p, st[p]) : p \in {q \in Party : Begun(st[q])}}
    \cup {PlaceOf(p, sv[p]) : p \in {q \in Party : Begun(sv[q])}}

PlacesOK(prs, places) ==
    /\ \A x \in places : RootDrawn(prs, x[1])
    /\ \A x, y \in places : x[1] = y[1] => x = y

(***************************************************************************)
(* Header keys: each belongs to the direction of one party.                *)
(***************************************************************************)
SendingHeaderKeys(s) == {s.hk_s, s.nhk_s, NextHeaderKey(s.rk)}

ReceivingHeaderKeys(s) == {s.hk_r, s.nhk_r}

HeaderKeysOf(q, items, st, sv) ==
    (UNION {{m.hk, NextHeaderKey(m.mk[2])} : m \in {i \in items : Sender(i) = q}})
    \cup SendingHeaderKeys(st[q]) \cup SendingHeaderKeys(sv[q])
    \cup ReceivingHeaderKeys(st[Peer(q)]) \cup ReceivingHeaderKeys(sv[Peer(q)])

HeaderKeysOK(prs, items, st, sv) ==
    \A q \in Party : \A hk \in HeaderKeysOf(q, items, st, sv) \ {None} :
        /\ HeaderKeyDrawn(prs, hk)
        /\ hk \notin HeaderKeysOf(Peer(q), items, st, sv)

(***************************************************************************)
(* Nonces.  What was sent lies below the counter of the copy, the copy is  *)
(* not ahead of the session, and what waits in the outbox is the newest.   *)
(***************************************************************************)
CountersOK(sent, out, p, s, c) ==
    /\ c.header_nonce_counter <= s.header_nonce_counter
    /\ \A m \in sent : Sender(m) = p => m.nonce.counter < c.header_nonce_counter
    /\ out # None =>
          /\ Sender(out) = p
          /\ out.nonce.counter < s.header_nonce_counter
          /\ \A m \in sent : Sender(m) = p => m.nonce.counter < out.nonce.counter

(***************************************************************************)
(* A copy does not lead to the chain of a message encrypted before it.     *)
(***************************************************************************)
PastOK(items, p, s) ==
    \A m \in items :
        Sender(m) = p /\ m.nonce.counter < s.header_nonce_counter
            => ~LeadsTo(s, m.mk[2])

(***************************************************************************)
(* The inductive invariant, of the pairs drawn, the messages sent, the     *)
(* outboxes, the sessions and the copies.                                  *)
(***************************************************************************)
PairsOK(prs) == prs \in [Party -> Nat]

MessagesOK(prs, items, st, sv) ==
    /\ \A m \in items : ItemOK(prs, m)
    /\ PlacesOK(prs, Places(items, st, sv))
    /\ HeaderKeysOK(prs, items, st, sv)

NoncesLieBelow(sent, out, st, sv) ==
    \A p \in Party : CountersOK(sent, out[p], p, st[p], sv[p])

PastsOK(items, st, sv) ==
    \A p \in Party : PastOK(items, p, st[p]) /\ PastOK(items, p, sv[p])

Items == Encrypted(Sent, outbox)

SInv ==
    /\ DOMAIN outbox = Party
    /\ PairsOK(pairs)
    /\ CopiesOK(pairs, Sent, state, saved)
    /\ KeptKeysOK(Sent, state, saved)
    /\ MessagesOK(pairs, Items, state, saved)
    /\ NoncesLieBelow(Sent, outbox, state, saved)
    /\ PastsOK(Items, state, saved)

-----------------------------------------------------------------------------
(* Steps of one session that derive no root key.                           *)

(***************************************************************************)
(* From s to c the root, the key pair and the header keys stay; the        *)
(* sending chain moves along with the nonce counter, if at all.            *)
(***************************************************************************)
Continues(sent, p, s, c) ==
    /\ DOMAIN c = SessionFields
    /\ c.dh_pair = s.dh_pair /\ c.dh_remote = s.dh_remote /\ c.rk = s.rk
    /\ c.hk_s = s.hk_s /\ c.nhk_s = s.nhk_s /\ c.hk_r = s.hk_r /\ c.nhk_r = s.nhk_r
    /\ c.is_sender = s.is_sender /\ c.pn = s.pn
    /\ c.ns \in {s.ns, s.ns + 1} /\ c.nr \in {s.nr, s.nr + 1}
    /\ \/ c.ck_s = s.ck_s /\ c.header_nonce_counter = s.header_nonce_counter
       \/ /\ Begun(s)
          /\ c.ck_s = <<s.ck_s[1], s.ck_s[2] + 1>>
          /\ c.header_nonce_counter = s.header_nonce_counter + 1
    /\ c.ck_r = s.ck_r \/ FromPeer(sent, p, s, c.ck_r[1])

(***************************************************************************)
(* What CopyOK says of s holds of c, and they are at the same place.       *)
(***************************************************************************)
LEMMA ContinuesKeeps ==
    ASSUME NEW prs, NEW sent, NEW p \in Party, NEW s, NEW c,
           CopyOK(prs, sent, p, s), Continues(sent, p, s, c)
    PROVE  /\ CopyOK(prs, sent, p, c)
           /\ Begun(c) <=> Begun(s)
           /\ Begun(s) => PlaceOf(p, c) = PlaceOf(p, s)
           /\ SendingHeaderKeys(c) = SendingHeaderKeys(s)
           /\ ReceivingHeaderKeys(c) = ReceivingHeaderKeys(s)
           /\ \A root : LeadsTo(c, root) <=> LeadsTo(s, root)
           /\ \A root : FromPeer(sent, p, s, root) <=> FromPeer(sent, p, c, root)
           /\ c.header_nonce_counter \in {s.header_nonce_counter, s.header_nonce_counter + 1}
<1>1. /\ c.dh_pair = s.dh_pair /\ c.rk = s.rk /\ c.dh_remote = s.dh_remote
      /\ c.hk_s = s.hk_s /\ c.nhk_s = s.nhk_s /\ c.hk_r = s.hk_r /\ c.nhk_r = s.nhk_r
  BY DEF Continues
<1>2. \A root : LeadsTo(c, root) <=> LeadsTo(s, root)
  BY <1>1 DEF LeadsTo
<1>3. \A root : FromPeer(sent, p, s, root) <=> FromPeer(sent, p, c, root)
  BY <1>1 DEF FromPeer
<1>4. Begun(c) <=> Begun(s)
  BY <1>1 DEF Begun
<1>5. /\ SendingHeaderKeys(c) = SendingHeaderKeys(s)
      /\ ReceivingHeaderKeys(c) = ReceivingHeaderKeys(s)
  BY <1>1 DEF SendingHeaderKeys, ReceivingHeaderKeys
<1>6. c.header_nonce_counter \in {s.header_nonce_counter, s.header_nonce_counter + 1}
  BY DEF Continues
<1>7. /\ s.header_nonce_counter \in Nat /\ s.ns \in Nat /\ s.nr \in Nat
      /\ s.dh_pair[2] \in 0 .. prs[p] /\ s.dh_pair = Key(p, s.dh_pair[2])
      /\ s.is_sender \in BOOLEAN /\ (s.is_sender <=> p = Alice) /\ s.pn \in Nat
  BY DEF CopyOK
<1>8. CASE Begun(s)
  <2>1. ChainOK(prs, p, s)
    BY <1>8 DEF CopyOK
  <2>2. ChainOK(prs, p, c) /\ PlaceOf(p, c) = PlaceOf(p, s)
    <3>1. /\ s.ck_s = <<s.rk, s.ck_s[2]>> /\ s.ck_s[2] \in Nat
      BY <2>1 DEF ChainOK
    <3>2. CASE /\ c.ck_s = s.ck_s
               /\ c.header_nonce_counter = s.header_nonce_counter
      BY <2>1, <3>2, <1>1, <1>2 DEF ChainOK, PlaceOf
    <3>3. CASE /\ c.ck_s = <<s.ck_s[1], s.ck_s[2] + 1>>
               /\ c.header_nonce_counter = s.header_nonce_counter + 1
      <4>1. c.ck_s = <<c.rk, c.ck_s[2]>> /\ c.ck_s[2] \in Nat /\ c.ck_s[2] = s.ck_s[2] + 1
        BY <3>1, <3>3, <1>1
      <4>2. c.ck_s[2] - c.header_nonce_counter = s.ck_s[2] - s.header_nonce_counter
        BY <3>1, <3>3, <4>1, <1>7
      <4>3. PlaceOf(p, c) = PlaceOf(p, s)
        BY <4>2, <1>1 DEF PlaceOf
      <4> QED BY <2>1, <4>1, <4>3, <1>1, <1>2 DEF ChainOK
    <3> QED BY <3>2, <3>3 DEF Continues
  <2>3. CopyOK(prs, sent, p, c)
    BY <2>2, <1>1, <1>3, <1>4, <1>6, <1>7, <1>8 DEF CopyOK, Continues
  <2> QED BY <2>2, <2>3, <1>2, <1>3, <1>4, <1>5, <1>6
<1>9. CASE ~Begun(s)
  <2>1. NotBegun(s) /\ c.ck_s = s.ck_s
    BY <1>9 DEF CopyOK, Continues
  <2>2. NotBegun(c)
    BY <2>1, <1>1 DEF NotBegun
  <2>3. CopyOK(prs, sent, p, c)
    BY <2>2, <1>1, <1>3, <1>4, <1>6, <1>7, <1>9 DEF CopyOK, Continues
  <2> QED BY <2>3, <1>2, <1>3, <1>4, <1>5, <1>6, <1>9
<1> QED BY <1>8, <1>9

(***************************************************************************)
(* Saving, starting from a copy, a successful encrypt, and a decrypt with  *)
(* a stored key are such steps.                                            *)
(***************************************************************************)
LEMMA OperationsContinue ==
    ASSUME NEW prs, NEW sent, NEW p \in Party, NEW s, CopyOK(prs, sent, p, s)
    PROVE  /\ Continues(sent, p, s, Serialized(s))
           /\ Continues(sent, p, s, Deserialized(s))
           /\ \A m : Continues(sent, p, s, WithoutSkippedKey(s, m))
           /\ Begun(s) => Continues(sent, p, s, AfterEncrypt(s))
<1> DEFINE Rest == SessionFields \ {"mkskipped"}
<1>1. DOMAIN s = SessionFields
  BY DEF CopyOK
<1>2. ASSUME NEW store
      PROVE  Continues(sent, p, s, [s EXCEPT !.mkskipped = store])
  BY <1>1 DEF Continues, SessionFields
<1>3. /\ Continues(sent, p, s, Serialized(s))
      /\ Continues(sent, p, s, Deserialized(s))
      /\ \A m : Continues(sent, p, s, WithoutSkippedKey(s, m))
  BY <1>2 DEF Serialized, Deserialized, WithoutSkippedKey
<1>4. ASSUME Begun(s) PROVE Continues(sent, p, s, AfterEncrypt(s))
  <2>1. /\ AfterEncrypt(s).ck_s = <<s.ck_s[1], s.ck_s[2] + 1>>
        /\ AfterEncrypt(s).ns = s.ns + 1
        /\ AfterEncrypt(s).header_nonce_counter = s.header_nonce_counter + 1
        /\ DOMAIN AfterEncrypt(s) = SessionFields
        /\ \A f \in SessionFields \ {"ck_s", "ns", "header_nonce_counter"} :
              AfterEncrypt(s)[f] = s[f]
    BY <1>1 DEF AfterEncrypt, Numbered, ChainAdvanced, KdfCk, SessionFields
  <2> QED BY <1>4, <2>1 DEF Continues, SessionFields
<1> QED BY <1>3, <1>4

-----------------------------------------------------------------------------
(* What an authentic message says.                                         *)

(***************************************************************************)
(* Its header key is a receiving key of the session, and the chain it is   *)
(* expected on is its own.                                                 *)
(***************************************************************************)
LEMMA AuthenticChain ==
    ASSUME NEW s, NEW m, Admitted(s, m)
    PROVE  /\ m.hk \in ReceivingHeaderKeys(s)
           /\ ReceivingFrom(s, m).ck[1] = m.mk[2]
<1>1. m.hk \in ReceivingHeaderKeys(s)
  BY AdmittedGuards DEF ReceivingHeaderKeys
<1>2. ComputeMessageKey(s, m) = m.mk
  BY AdmittedGuards
<1> DEFINE at == ReceivingFrom(s, m)
           steps == IF m.n > at.nr THEN m.n - at.nr ELSE 0
<1>3. ComputeMessageKey(s, m) = KdfCk(KdfCkIter(at.ck, steps)).mk
  BY DEF ComputeMessageKey
<1> HIDE DEF at, steps
<1>4. KdfCk(KdfCkIter(at.ck, steps)).mk = <<"mk", at.ck[1], at.ck[2] + steps>>
  BY DEF KdfCk, KdfCkIter
<1>5. m.mk[2] = at.ck[1]
  BY <1>2, <1>3, <1>4
<1> QED BY <1>1, <1>5 DEF at

(***************************************************************************)
(* What HeaderKeysOf says of one key.                                      *)
(***************************************************************************)
LEMMA HeaderKeyOwner ==
    ASSUME NEW q, NEW items, NEW st, NEW sv, NEW hk
    PROVE  hk \in HeaderKeysOf(q, items, st, sv) <=>
              \/ \E m \in items : Sender(m) = q /\ hk \in {m.hk, NextHeaderKey(m.mk[2])}
              \/ hk \in SendingHeaderKeys(st[q]) \/ hk \in SendingHeaderKeys(sv[q])
              \/ hk \in ReceivingHeaderKeys(st[Peer(q)])
              \/ hk \in ReceivingHeaderKeys(sv[Peer(q)])
BY Zenon DEF HeaderKeysOf

(***************************************************************************)
(* It is one of the peer's.                                                *)
(***************************************************************************)
LEMMA AuthenticSender ==
    ASSUME NEW prs, NEW items, NEW st, NEW sv, HeaderKeysOK(prs, items, st, sv),
           NEW p \in Party, NEW m \in items, ItemOK(prs, m), Admitted(st[p], m)
    PROVE  Sender(m) = Peer(p)
<1> DEFINE q == Peer(p)
<1>1. q \in Party /\ Peer(q) = p /\ Sender(m) \in Party
  BY TwoParties DEF Sender, Party
<1>2. m.hk \in HeaderKeysOf(q, items, st, sv)
  <2>1. m.hk \in ReceivingHeaderKeys(st[Peer(q)])
    BY <1>1, AuthenticChain
  <2> QED BY <2>1, HeaderKeyOwner
<1>3. m.hk \in HeaderKeysOf(Sender(m), items, st, sv)
  BY HeaderKeyOwner
<1>4. m.hk # None
  BY DEF ItemOK
<1>5. Sender(m) # p
  BY <1>1, <1>2, <1>3, <1>4 DEF HeaderKeysOK
<1> QED BY <1>1, <1>5, TwoParties

(***************************************************************************)
(* A chain that p derives from its key pair and the message's for a        *)
(* message of the peer's is a receiving chain of p.                        *)
(***************************************************************************)
LEMMA ReceivingChainIsPeers ==
    ASSUME NEW prs, NEW sent, NEW p \in Party, NEW s, CopyOK(prs, sent, p, s),
           NEW m \in sent, ItemOK(prs, m), Sender(m) = Peer(p), Admitted(s, m)
    PROVE  FromPeer(sent, p, s, m.mk[2])
<1>1. ReceivingFrom(s, m).ck[1] = m.mk[2] /\ m.hk \in {s.hk_r, s.nhk_r} /\ m.hk # None
  BY AuthenticChain DEF ReceivingHeaderKeys, ItemOK
<1>2. CASE DhRatchetNeeded(s, m)
  <2>1. m.mk[2] = <<"okm", s.rk, {s.dh_pair, m.dh_pub}>>
    BY <1>1, <1>2 DEF ReceivingFrom, KdfRkHe, DH
  <2>2. /\ s.dh_pair = <<p, s.dh_pair[2]>> /\ s.dh_pair[2] \in Nat
        /\ m.dh_pub = <<Peer(p), m.dh_pub[2]>>
    BY DEF CopyOK, ItemOK, Key
  <2>3. \A k \in m.mk[2][3] : k = s.dh_pair \/ k = m.dh_pub
    BY <2>1
  <2>4. \A k \in m.mk[2][3] : k[1] = p => k[2] \in 0 .. s.dh_pair[2]
    BY <2>2, <2>3, TwoParties
  <2> QED BY <2>4 DEF FromPeer
<1>3. CASE ~DhRatchetNeeded(s, m)
  BY <1>1, <1>3 DEF ReceivingFrom, DhRatchetNeeded, CopyOK
<1> QED BY <1>2, <1>3

(***************************************************************************)
(* Keys that skip_message_keys stores from a receiving chain.              *)
(***************************************************************************)
LEMMA SkipKeepsFromPeer ==
    ASSUME NEW sent, NEW p, NEW s, NEW store, NEW ck, NEW hk,
           NEW from \in Nat, NEW to \in Nat,
           \A k \in DOMAIN store : FromPeer(sent, p, s, store[k].mk[2]),
           FromPeer(sent, p, s, ck[1])
    PROVE  LET new == SkipMessageKeys(store, ck, hk, from, to)
           IN  \A k \in DOMAIN new : FromPeer(sent, p, s, new[k].mk[2])
<1> DEFINE new == SkipMessageKeys(store, ck, hk, from, to)
<1>1. HoldsSkipped(new, store, ck, hk, from, to)
  BY SkipMessageKeysEntries
<1> HIDE DEF new
<1>2. ASSUME NEW k \in DOMAIN new PROVE FromPeer(sent, p, s, new[k].mk[2])
  <2>1. CASE k \in DOMAIN store /\ new[k] = store[k]
    BY <2>1
  <2>2. CASE new[k].mk = <<"mk", ck[1], ck[2] + (k[2] - from)>>
    BY <2>2
  <2> QED BY <2>1, <2>2, <1>1 DEF HoldsSkipped
<1> QED BY <1>2 DEF new

-----------------------------------------------------------------------------
(* What the commit of a decrypt does to one session.                       *)

(***************************************************************************)
(* What is the same whether the commit is followed by the tracking of the  *)
(* message or not.                                                         *)
(***************************************************************************)
Committing(s, m, fresh, c) ==
    LET next == Committed(s, m, fresh)
    IN  c = next \/ c = Tracked(next, m)

(***************************************************************************)
(* A commit changes no field but those Committed changes, and tracking     *)
(* changes received_messages only.                                         *)
(***************************************************************************)
LEMMA CommittingFields ==
    ASSUME NEW s, NEW m, NEW fresh, NEW c, Committing(s, m, fresh, c),
           DOMAIN s = SessionFields
    PROVE  /\ DOMAIN c = SessionFields
           /\ \A f \in SessionFields \ {"received_messages"} :
                 c[f] = Committed(s, m, fresh)[f]
<1> DEFINE next == Committed(s, m, fresh)
<1>1. DOMAIN next = SessionFields
  <2> DEFINE r == Ratcheted(s, m, fresh)
  <2>1. DOMAIN r = SessionFields
    <3>1. DOMAIN DhRatchet(s, m, fresh) = DOMAIN s
      BY Zenon DEF DhRatchet
    <3> QED BY <3>1 DEF Ratcheted
  <2> HIDE DEF r
  <2>2. DOMAIN Advanced(r, m) = DOMAIN r
    BY DEF Advanced
  <2>3. next = [Advanced(r, m) EXCEPT !.mkskipped = GapStored(r, m)]
    BY DEF Committed, r
  <2> HIDE DEF next
  <2> QED BY <2>1, <2>2, <2>3
<1> HIDE DEF next
<1>2. c = next \/ c = [next EXCEPT !.received_messages = @ \cup {MessageId(m)}]
  BY DEF Committing, Tracked, next
<1> QED BY <1>1, <1>2 DEF next

(***************************************************************************)
(* A commit without a DH ratchet continues the session.                    *)
(***************************************************************************)
LEMMA CommitOnChainContinues ==
    ASSUME NEW prs, NEW sent, NEW p \in Party, NEW s, CopyOK(prs, sent, p, s),
           StoreOK(sent, p, s),
           NEW m \in sent, ItemOK(prs, m), Sender(m) = Peer(p), Admitted(s, m),
           NEW fresh, NEW c, Committing(s, m, fresh, c), ~DhRatchetNeeded(s, m)
    PROVE  Continues(sent, p, s, c) /\ StoreOK(sent, p, c)
<1> DEFINE next == Committed(s, m, fresh)
           store == SkipMessageKeys(s.mkskipped, s.ck_r, s.hk_r, s.nr, m.n)
<1>1. DOMAIN s = SessionFields /\ s.nr \in Nat /\ m.n \in Nat
  BY DEF CopyOK, ItemOK
<1>2. /\ next.ck_r = <<s.ck_r[1], s.ck_r[2] + 1>>
      /\ next.nr = s.nr + 1
      /\ next.mkskipped = store
      /\ \A f \in SessionFields \ {"ck_r", "nr", "mkskipped"} : next[f] = s[f]
  BY <1>1, CommittedOnChain
<1>3. /\ DOMAIN c = SessionFields
      /\ \A f \in SessionFields \ {"received_messages"} : c[f] = next[f]
  BY <1>1, CommittingFields
<1>4. FromPeer(sent, p, s, s.ck_r[1])
  <2>1. s.ck_r[1] = m.mk[2]
    BY AuthenticChain DEF ReceivingFrom
  <2> QED BY <2>1, ReceivingChainIsPeers
<1>5. \A k \in DOMAIN store : FromPeer(sent, p, s, store[k].mk[2])
  BY <1>1, <1>4, SkipKeepsFromPeer DEF StoreOK
<1> HIDE DEF next, store
<1>6. /\ c.ck_r = <<s.ck_r[1], s.ck_r[2] + 1>> /\ c.nr = s.nr + 1 /\ c.mkskipped = store
      /\ \A f \in SessionFields \ {"ck_r", "nr", "mkskipped", "received_messages"} :
            c[f] = s[f]
  BY <1>2, <1>3 DEF SessionFields
<1>7. Continues(sent, p, s, c)
  BY <1>3, <1>4, <1>6 DEF Continues, SessionFields
<1>8. StoreOK(sent, p, c)
  BY <1>5, <1>6, <1>7, ContinuesKeeps DEF StoreOK
<1> QED BY <1>7, <1>8

(***************************************************************************)
(* The next key pair of p has not been drawn.                              *)
(***************************************************************************)
LEMMA NextPairIsNew ==
    ASSUME NEW prs, NEW p \in Party, prs[p] \in Nat
    PROVE  ~Drawn(prs, Key(p, prs[p] + 1))
BY DEF Drawn, Key

(***************************************************************************)
(* The key pair that p draws next, and the count of the pairs drawn after. *)
(***************************************************************************)
Fresh(prs, p) == Key(p, prs[p] + 1)

DrawnBy(prs, p, prs2) ==
    /\ prs2[p] = prs[p] + 1
    /\ \A q \in Party \ {p} : prs2[q] = prs[q]

(***************************************************************************)
(* A commit with a DH ratchet begins a sending chain whose root nobody     *)
(* knew.                                                                   *)
(***************************************************************************)
LEMMA CommitRatchets ==
    ASSUME NEW prs, \A q \in Party : prs[q] \in Nat, NEW p \in Party,
           NEW prs2, DrawnBy(prs, p, prs2),
           NEW sent, NEW s, CopyOK(prs, sent, p, s), StoreOK(sent, p, s),
           NEW m \in sent, ItemOK(prs, m), Sender(m) = Peer(p), Admitted(s, m),
           RootDrawn(prs, m.mk[2]),
           NEW c, Committing(s, m, Fresh(prs, p), c), DhRatchetNeeded(s, m)
    PROVE  /\ CopyOK(prs2, sent, p, c) /\ StoreOK(sent, p, c) /\ Begun(c)
           /\ ~RootDrawn(prs, c.rk) /\ RootDrawn(prs2, c.rk)
           /\ c.dh_pair = Fresh(prs, p)
           /\ c.hk_s = s.nhk_s /\ c.nhk_s = NextHeaderKey(c.rk)
           /\ c.hk_r = s.nhk_r /\ c.nhk_r = NextHeaderKey(m.mk[2])
           /\ c.header_nonce_counter = s.header_nonce_counter
<1> DEFINE fresh == Fresh(prs, p)
           next == Committed(s, m, fresh)
           R == <<"okm", s.rk, {s.dh_pair, m.dh_pub}>>
           S == <<"okm", R, {fresh, m.dh_pub}>>
           previous == PreviousChainStored(s, m)
           store == SkipMessageKeys(previous, <<R, 0>>, s.nhk_r, 0, m.n)
<1>1. /\ DOMAIN s = SessionFields /\ s.nr \in Nat /\ m.n \in Nat /\ m.pn \in Nat
      /\ s.ns \in Nat /\ s.header_nonce_counter \in Nat
      /\ s.is_sender \in BOOLEAN /\ (s.is_sender <=> p = Alice)
      /\ s.dh_pair[2] \in 0 .. prs[p] /\ s.dh_pair = Key(p, s.dh_pair[2])
      /\ m.dh_pub[2] \in 0 .. prs[Peer(p)] /\ m.dh_pub = Key(Peer(p), m.dh_pub[2])
      /\ Peer(p) \in Party /\ Peer(p) # p
      /\ prs2[p] = prs[p] + 1 /\ prs2[Peer(p)] = prs[Peer(p)]
      /\ prs[p] \in Nat
  BY TwoParties DEF CopyOK, ItemOK, DrawnBy
<1>2. /\ KdfRkHe(s.rk, DH(s.dh_pair, m.dh_pub)) =
            [rk |-> R, ck |-> <<R, 0>>, nhk |-> NextHeaderKey(R)]
      /\ KdfRkHe(R, DH(fresh, m.dh_pub)) =
            [rk |-> S, ck |-> <<S, 0>>, nhk |-> NextHeaderKey(S)]
  BY DEF KdfRkHe, DH, NextHeaderKey
<1>3. m.mk[2] = R
  <2>1. ReceivingFrom(s, m).ck = <<R, 0>>
    BY <1>2 DEF ReceivingFrom
  <2> QED BY <2>1, AuthenticChain
<1>4. FromPeer(sent, p, s, R)
  BY <1>3, ReceivingChainIsPeers
<1>5. ~Drawn(prs, fresh)
  BY <1>1, NextPairIsNew DEF Fresh
<1>6. fresh = Key(p, prs[p] + 1) /\ fresh[2] = prs[p] + 1
  BY DEF Fresh, Key
<1> HIDE DEF fresh
<1>7. S # SharedSecret /\ R # SharedSecret /\ S[3] = {fresh, m.dh_pub} /\ S[2] = R
  BY DEF SharedSecret
<1>8. ~RootDrawn(prs, S)
  BY <1>5, <1>7 DEF RootDrawn
<1>9. RootDrawn(prs2, S)
  <2>1. Drawn(prs2, fresh)
    <3>1. prs[p] + 1 \in 0 .. prs2[p]
      BY <1>1
    <3> QED BY <1>6, <3>1 DEF Drawn
  <2>2. Drawn(prs2, m.dh_pub)
    BY <1>1 DEF Drawn
  <2> QED BY <1>7, <2>1, <2>2 DEF RootDrawn
<1>10. next.mkskipped = store /\ next.pn = s.ns /\ next.ns = 0 /\ next.nr = 1
       /\ next.hk_s = s.nhk_s /\ next.hk_r = s.nhk_r
       /\ next.dh_remote = m.dh_pub /\ next.dh_pair = fresh /\ next.rk = S
       /\ next.ck_r = <<R, 1>> /\ next.ck_s = <<S, 0>>
       /\ next.nhk_r = NextHeaderKey(R) /\ next.nhk_s = NextHeaderKey(S)
       /\ next.is_sender = s.is_sender
       /\ next.header_nonce_counter = s.header_nonce_counter
  <2> HIDE DEF R, S, previous
  <2> QED BY <1>1, <1>2, CommittedRatchet DEF previous
<1>11. /\ DOMAIN c = SessionFields
       /\ \A f \in SessionFields \ {"received_messages"} : c[f] = next[f]
  BY <1>1, CommittingFields DEF fresh
<1>12. \A k \in DOMAIN store : FromPeer(sent, p, s, store[k].mk[2])
  <2>1. \A k \in DOMAIN previous : FromPeer(sent, p, s, previous[k].mk[2])
    <3>1. CASE s.ck_r = None
      BY <3>1 DEF PreviousChainStored, StoreOK
    <3>2. CASE s.ck_r # None
      <4>1. FromPeer(sent, p, s, s.ck_r[1])
        BY <3>2 DEF CopyOK
      <4>2. previous = SkipMessageKeys(s.mkskipped, s.ck_r, s.hk_r, s.nr, m.pn)
        BY <3>2 DEF PreviousChainStored
      <4> HIDE DEF previous
      <4> QED BY <4>1, <4>2, <1>1, SkipKeepsFromPeer DEF StoreOK
    <3> QED BY <3>1, <3>2
  <2> HIDE DEF previous, R
  <2> DEFINE ck == <<R, 0>>
  <2>2. ck[1] = R
    OBVIOUS
  <2> HIDE DEF ck
  <2>3. \A k \in DOMAIN SkipMessageKeys(previous, ck, s.nhk_r, 0, m.n) :
           FromPeer(sent, p, s, SkipMessageKeys(previous, ck, s.nhk_r, 0, m.n)[k].mk[2])
    BY <2>1, <2>2, <1>1, <1>4, SkipKeepsFromPeer
  <2> QED BY <2>3 DEF ck
<1> HIDE DEF next, store, previous, R, S
<1>13. /\ c.mkskipped = store /\ c.pn = s.ns /\ c.ns = 0 /\ c.nr = 1
       /\ c.hk_s = s.nhk_s /\ c.hk_r = s.nhk_r
       /\ c.dh_remote = m.dh_pub /\ c.dh_pair = fresh /\ c.rk = S
       /\ c.ck_r = <<R, 1>> /\ c.ck_s = <<S, 0>>
       /\ c.nhk_r = NextHeaderKey(R) /\ c.nhk_s = NextHeaderKey(S)
       /\ c.is_sender = s.is_sender
       /\ c.header_nonce_counter = s.header_nonce_counter
  BY <1>10, <1>11 DEF SessionFields
<1>14. Begun(c)
  BY <1>7, <1>13 DEF Begun
<1>15. \A root : FromPeer(sent, p, s, root) => FromPeer(sent, p, c, root)
  <2>1. s.dh_pair[2] \in Nat /\ c.dh_pair[2] \in Nat /\ s.dh_pair[2] <= c.dh_pair[2]
    BY <1>1, <1>6, <1>13
  <2>2. ASSUME NEW root, FromPeer(sent, p, s, root),
               NEW k \in root[3], k[1] = p
        PROVE  k[2] \in 0 .. c.dh_pair[2]
    <3>1. k[2] \in 0 .. s.dh_pair[2]
      BY <2>2 DEF FromPeer
    <3> QED BY <2>1, <3>1
  <2> QED BY <2>2 DEF FromPeer
<1>16. ~LeadsTo(c, c.rk)
  <2>1. S[2] # S
    BY <1>3, <1>7, <1>8
  <2>2. fresh \notin R[3]
    BY <1>3, <1>5, <1>7 DEF RootDrawn
  <2> QED BY <2>1, <2>2, <1>7, <1>13 DEF LeadsTo
<1>17. ChainOK(prs2, p, c)
  <2>1. S = <<"okm", S[2], {fresh, m.dh_pub}>>
    BY DEF S
  <2>2. c.ck_s[2] = 0
    BY <1>13
  <2> QED BY <2>1, <2>2, <1>1, <1>13, <1>16 DEF ChainOK
<1>18. CopyOK(prs2, sent, p, c)
  <2>1. FromPeer(sent, p, c, c.ck_r[1])
    BY <1>4, <1>13, <1>15
  <2>2. c.dh_pair[2] \in 0 .. prs2[p]
    BY <1>1, <1>6, <1>13
  <2> QED BY <2>1, <2>2, <1>1, <1>6, <1>11, <1>13, <1>14, <1>17 DEF CopyOK
<1>19. StoreOK(sent, p, c)
  BY <1>12, <1>13, <1>15 DEF StoreOK
<1> QED BY <1>3, <1>8, <1>9, <1>13, <1>14, <1>18, <1>19 DEF fresh

-----------------------------------------------------------------------------
(* Steps of the whole system that derive no root key.                      *)

(***************************************************************************)
(* More messages and more key pairs take nothing away.                     *)
(***************************************************************************)
LEMMA FromPeerStays ==
    ASSUME NEW sent, NEW sent2, sent \subseteq sent2, NEW p, NEW s, NEW root,
           FromPeer(sent, p, s, root)
    PROVE  FromPeer(sent2, p, s, root)
BY DEF FromPeer

(***************************************************************************)
(* A key pair that has been drawn remains so, and what is derived from it. *)
(***************************************************************************)
LEMMA DrawnStays ==
    ASSUME NEW prs, NEW prs2,
           \A q \in Party : prs[q] \in Nat /\ prs2[q] \in Nat /\ prs[q] <= prs2[q]
    PROVE  /\ \A k : Drawn(prs, k) => Drawn(prs2, k)
           /\ \A root : RootDrawn(prs, root) => RootDrawn(prs2, root)
           /\ \A hk : HeaderKeyDrawn(prs, hk) => HeaderKeyDrawn(prs2, hk)
<1>1. \A k : Drawn(prs, k) => Drawn(prs2, k)
  BY DEF Drawn
<1>2. \A root : RootDrawn(prs, root) => RootDrawn(prs2, root)
  BY <1>1 DEF RootDrawn
<1> QED BY <1>1, <1>2 DEF HeaderKeyDrawn

(***************************************************************************)
(* What is said of a session stays true when messages are sent and key     *)
(* pairs drawn elsewhere.                                                  *)
(***************************************************************************)
LEMMA CopyStays ==
    ASSUME NEW prs, NEW prs2, NEW sent, NEW sent2, sent \subseteq sent2,
           \A q \in Party : prs[q] \in Nat /\ prs2[q] \in Nat /\ prs[q] <= prs2[q],
           NEW p \in Party, NEW s, CopyOK(prs, sent, p, s)
    PROVE  CopyOK(prs2, sent2, p, s)
<1>1. s.hk_r # None \/ s.ck_r # None => FromPeer(sent2, p, s, s.ck_r[1])
  BY FromPeerStays DEF CopyOK
<1>2. s.dh_pair[2] \in 0 .. prs2[p]
  BY DEF CopyOK
<1>3. ChainOK(prs, p, s) => ChainOK(prs2, p, s)
  <2>1. Peer(p) \in Party
    BY TwoParties
  <2> QED BY <2>1 DEF ChainOK
<1> QED BY <1>1, <1>2, <1>3 DEF CopyOK

(***************************************************************************)
(* So does what is said of a message.                                      *)
(***************************************************************************)
LEMMA ItemStays ==
    ASSUME NEW prs, NEW prs2,
           \A q \in Party : prs[q] \in Nat /\ prs2[q] \in Nat /\ prs[q] <= prs2[q],
           NEW m, ItemOK(prs, m)
    PROVE  ItemOK(prs2, m)
<1>1. Sender(m) \in Party
  BY DEF Sender, Party
<1> QED BY <1>1 DEF ItemOK

(***************************************************************************)
(* A message encrypted in session s of p.                                  *)
(***************************************************************************)
EncryptedIn(p, s, m) ==
    /\ Begun(s) /\ Sender(m) = p
    /\ m.hk = s.hk_s /\ m.mk[2] = s.rk
    /\ Place(m) = PlaceOf(p, s)

(***************************************************************************)
(* All that there is after the step was there before, or was encrypted in  *)
(* a session that was.                                                     *)
(***************************************************************************)
NothingNew(sent, items, st, sv, items2, st2, sv2) ==
    /\ \A p \in Party : \A c \in {st2[p], sv2[p]} :
          \E s \in {st[p], sv[p]} : Continues(sent, p, s, c)
    /\ \A m \in items2 : m \in items \/ \E p \in Party : EncryptedIn(p, st[p], m)

(***************************************************************************)
(* The places and the header keys are those from before.                   *)
(***************************************************************************)
LEMMA PlacesStay ==
    ASSUME NEW prs, NEW sent, NEW items, NEW st, NEW sv, CopiesOK(prs, sent, st, sv),
           NEW items2, NEW st2, NEW sv2,
           NothingNew(sent, items, st, sv, items2, st2, sv2)
    PROVE  /\ Places(items2, st2, sv2) \subseteq Places(items, st, sv)
           /\ \A q \in Party : HeaderKeysOf(q, items2, st2, sv2)
                                  \subseteq HeaderKeysOf(q, items, st, sv)
<1>1. ASSUME NEW p \in Party, NEW c \in {st2[p], sv2[p]}
      PROVE  \E s \in {st[p], sv[p]} :
                /\ Begun(c) <=> Begun(s)
                /\ Begun(s) => PlaceOf(p, c) = PlaceOf(p, s)
                /\ SendingHeaderKeys(c) = SendingHeaderKeys(s)
                /\ ReceivingHeaderKeys(c) = ReceivingHeaderKeys(s)
  <2>1. PICK s \in {st[p], sv[p]} : Continues(sent, p, s, c)
    BY DEF NothingNew
  <2>2. CopyOK(prs, sent, p, s)
    BY DEF CopiesOK
  <2>3. /\ Begun(c) <=> Begun(s)
        /\ Begun(s) => PlaceOf(p, c) = PlaceOf(p, s)
        /\ SendingHeaderKeys(c) = SendingHeaderKeys(s)
        /\ ReceivingHeaderKeys(c) = ReceivingHeaderKeys(s)
    BY <2>1, <2>2, ContinuesKeeps
  <2> QED BY <2>3
<1>2. ASSUME NEW x \in Places(items2, st2, sv2)
      PROVE  x \in Places(items, st, sv)
  <2>1. CASE \E m \in items2 : x = Place(m)
    BY <2>1 DEF NothingNew, EncryptedIn, Places
  <2>2. ASSUME NEW p \in Party, NEW c \in {st2[p], sv2[p]}, Begun(c), x = PlaceOf(p, c)
        PROVE  x \in Places(items, st, sv)
    <3>1. PICK s \in {st[p], sv[p]} : Begun(s) /\ PlaceOf(p, c) = PlaceOf(p, s)
      BY <1>1, <2>2
    <3> QED BY <2>2, <3>1 DEF Places
  <2>3. \/ \E m \in items2 : x = Place(m)
        \/ \E p \in Party : Begun(st2[p]) /\ x = PlaceOf(p, st2[p])
        \/ \E p \in Party : Begun(sv2[p]) /\ x = PlaceOf(p, sv2[p])
    BY DEF Places
  <2> QED BY <2>1, <2>2, <2>3
<1>3. ASSUME NEW q \in Party, NEW hk \in HeaderKeysOf(q, items2, st2, sv2)
      PROVE  hk \in HeaderKeysOf(q, items, st, sv)
  <2>1. CASE \E m \in items2 : Sender(m) = q /\ hk \in {m.hk, NextHeaderKey(m.mk[2])}
    <3>1. PICK m \in items2 : Sender(m) = q /\ hk \in {m.hk, NextHeaderKey(m.mk[2])}
      BY <2>1
    <3>2. CASE m \in items
      BY <3>1, <3>2, HeaderKeyOwner
    <3>3. CASE \E p \in Party : EncryptedIn(p, st[p], m)
      <4>1. hk \in SendingHeaderKeys(st[q])
        BY <3>1, <3>3 DEF EncryptedIn, SendingHeaderKeys
      <4> QED BY <4>1, HeaderKeyOwner
    <3> QED BY <3>2, <3>3 DEF NothingNew
  <2>2. CASE hk \in SendingHeaderKeys(st2[q]) \/ hk \in SendingHeaderKeys(sv2[q])
    <3>1. hk \in SendingHeaderKeys(st[q]) \/ hk \in SendingHeaderKeys(sv[q])
      BY <1>1, <2>2
    <3> QED BY <3>1, HeaderKeyOwner
  <2>3. CASE \/ hk \in ReceivingHeaderKeys(st2[Peer(q)])
             \/ hk \in ReceivingHeaderKeys(sv2[Peer(q)])
    <3>1. \/ hk \in ReceivingHeaderKeys(st[Peer(q)])
          \/ hk \in ReceivingHeaderKeys(sv[Peer(q)])
      <4>1. Peer(q) \in Party
        BY TwoParties
      <4> QED BY <1>1, <2>3, <4>1
    <3> QED BY <3>1, HeaderKeyOwner
  <2> QED BY <2>1, <2>2, <2>3, HeaderKeyOwner
<1> QED BY <1>2, <1>3

(***************************************************************************)
(* So what was known of them still holds.                                  *)
(***************************************************************************)
LEMMA NothingNewKeeps ==
    ASSUME NEW prs, PairsOK(prs), NEW sent, NEW items, NEW st, NEW sv,
           CopiesOK(prs, sent, st, sv), MessagesOK(prs, items, st, sv),
           NEW sent2, NEW items2, NEW st2, NEW sv2, sent \subseteq sent2,
           DOMAIN st2 = Party, DOMAIN sv2 = Party,
           NothingNew(sent, items, st, sv, items2, st2, sv2),
           \A m \in items2 : ItemOK(prs, m)
    PROVE  CopiesOK(prs, sent2, st2, sv2) /\ MessagesOK(prs, items2, st2, sv2)
<1>1. ASSUME NEW p \in Party, NEW c \in {st2[p], sv2[p]}
      PROVE  CopyOK(prs, sent2, p, c)
  <2>1. PICK s \in {st[p], sv[p]} : Continues(sent, p, s, c)
    BY DEF NothingNew
  <2>2. CopyOK(prs, sent, p, s)
    BY DEF CopiesOK
  <2>3. CopyOK(prs, sent, p, c)
    BY <2>1, <2>2, ContinuesKeeps
  <2>4. \A q \in Party : prs[q] \in Nat /\ prs[q] <= prs[q]
    BY DEF PairsOK
  <2> QED BY <2>3, <2>4, CopyStays
<1>2. CopiesOK(prs, sent2, st2, sv2)
  BY <1>1 DEF CopiesOK
<1>3. /\ Places(items2, st2, sv2) \subseteq Places(items, st, sv)
      /\ \A q \in Party : HeaderKeysOf(q, items2, st2, sv2)
                             \subseteq HeaderKeysOf(q, items, st, sv)
  BY PlacesStay
<1>4. PlacesOK(prs, Places(items2, st2, sv2))
  BY <1>3 DEF PlacesOK, MessagesOK
<1>5. HeaderKeysOK(prs, items2, st2, sv2)
  <2>1. \A q \in Party : Peer(q) \in Party
    BY TwoParties
  <2> QED BY <1>3, <2>1 DEF HeaderKeysOK, MessagesOK
<1> QED BY <1>2, <1>4, <1>5 DEF MessagesOK

(***************************************************************************)
(* A session that only one step of encrypt has moved still does not lead   *)
(* to what was encrypted before.                                           *)
(***************************************************************************)
LEMMA PastStays ==
    ASSUME NEW prs, NEW sent, NEW p \in Party, NEW s, CopyOK(prs, sent, p, s), NEW c,
           Continues(sent, p, s, c), c.header_nonce_counter = s.header_nonce_counter,
           NEW items, NEW items2, items2 \subseteq items, PastOK(items, p, s)
    PROVE  PastOK(items2, p, c)
BY ContinuesKeeps DEF PastOK

-----------------------------------------------------------------------------
(* A DH ratchet in the whole system.                                       *)

(***************************************************************************)
(* What CommitRatchets says of the session c that p has after one, m being *)
(* the message that announced it.                                          *)
(***************************************************************************)
Ratcheting(prs, prs2, sent, p, s, m, c) ==
    /\ CopyOK(prs2, sent, p, c) /\ Begun(c)
    /\ ~RootDrawn(prs, c.rk) /\ RootDrawn(prs2, c.rk)
    /\ c.dh_pair = Fresh(prs, p)
    /\ c.hk_s = s.nhk_s /\ c.nhk_s = NextHeaderKey(c.rk)
    /\ c.hk_r = s.nhk_r /\ c.nhk_r = NextHeaderKey(m.mk[2])

(***************************************************************************)
(* The new header key belongs to p, and the other ones were there before.  *)
(***************************************************************************)
LEMMA RatchetKeepsHeaderKeys ==
    ASSUME NEW prs, NEW prs2, NEW sent, NEW items, NEW st, NEW sv,
           NEW p \in Party, NEW m \in items, Sender(m) = Peer(p), NEW c,
           Ratcheting(prs, prs2, sent, p, st[p], m, c),
           NEW st2, st2[p] = c, \A q \in Party \ {p} : st2[q] = st[q]
    PROVE  /\ HeaderKeysOf(p, items, st2, sv)
                 \subseteq HeaderKeysOf(p, items, st, sv) \cup {NextHeaderKey(c.rk)}
           /\ HeaderKeysOf(Peer(p), items, st2, sv)
                 \subseteq HeaderKeysOf(Peer(p), items, st, sv)
<1> DEFINE q == Peer(p)
<1>1. q \in Party /\ q # p /\ Peer(q) = p /\ st2[q] = st[q]
  BY TwoParties
<1>2. ASSUME NEW hk \in HeaderKeysOf(p, items, st2, sv)
      PROVE  hk \in HeaderKeysOf(p, items, st, sv) \cup {NextHeaderKey(c.rk)}
  <2>1. CASE hk \in SendingHeaderKeys(st2[p])
    <3>1. hk \in SendingHeaderKeys(st[p]) \/ hk = NextHeaderKey(c.rk)
      BY <2>1 DEF SendingHeaderKeys, Ratcheting
    <3> QED BY <3>1, HeaderKeyOwner
  <2>2. CASE hk \notin SendingHeaderKeys(st2[p])
    BY <2>2, <1>1, <1>2, HeaderKeyOwner
  <2> QED BY <2>1, <2>2
<1>3. ASSUME NEW hk \in HeaderKeysOf(q, items, st2, sv)
      PROVE  hk \in HeaderKeysOf(q, items, st, sv)
  <2>1. CASE hk \in ReceivingHeaderKeys(st2[p])
    <3>1. hk \in ReceivingHeaderKeys(st[p]) \/ hk = NextHeaderKey(m.mk[2])
      BY <2>1 DEF ReceivingHeaderKeys, Ratcheting
    <3> QED BY <3>1, <1>1, HeaderKeyOwner
  <2>2. CASE hk \notin ReceivingHeaderKeys(st2[p])
    BY <2>2, <1>1, <1>3, HeaderKeyOwner
  <2> QED BY <2>1, <2>2
<1> QED BY <1>2, <1>3

(***************************************************************************)
(* A DH ratchet of p keeps the parts of the invariant that speak of        *)
(* chains, header keys and pasts.                                          *)
(***************************************************************************)
LEMMA RatchetKeeps ==
    ASSUME NEW prs, PairsOK(prs), NEW prs2, PairsOK(prs2),
           NEW p \in Party, DrawnBy(prs, p, prs2),
           NEW sent, NEW items, NEW st, NEW sv,
           CopiesOK(prs, sent, st, sv), MessagesOK(prs, items, st, sv),
           PastsOK(items, st, sv),
           NEW m \in items, Sender(m) = Peer(p), NEW c,
           Ratcheting(prs, prs2, sent, p, st[p], m, c),
           NEW st2, DOMAIN st2 = Party, st2[p] = c,
           \A q \in Party \ {p} : st2[q] = st[q]
    PROVE  /\ CopiesOK(prs2, sent, st2, sv)
           /\ MessagesOK(prs2, items, st2, sv)
           /\ PastsOK(items, st2, sv)
<1> DEFINE new == PlaceOf(p, c)
           hkNew == NextHeaderKey(c.rk)
<1>1. \A q \in Party : prs[q] \in Nat /\ prs2[q] \in Nat /\ prs[q] <= prs2[q]
  BY DEF PairsOK, DrawnBy
<1>2. CopiesOK(prs2, sent, st2, sv)
  <2>1. \A q \in Party : CopyOK(prs2, sent, q, st[q]) /\ CopyOK(prs2, sent, q, sv[q])
    BY <1>1, CopyStays DEF CopiesOK
  <2> QED BY <2>1 DEF CopiesOK, Ratcheting
<1>3. \A k \in items : ItemOK(prs2, k)
  BY <1>1, ItemStays DEF MessagesOK
<1>4. PlacesOK(prs2, Places(items, st2, sv))
  <2>1. Places(items, st2, sv) \subseteq Places(items, st, sv) \cup {new}
    BY DEF Places
  <2>2. new[1] = c.rk
    BY DEF PlaceOf
  <2>3. \A x \in Places(items, st, sv) : RootDrawn(prs, x[1]) /\ RootDrawn(prs2, x[1])
    BY <1>1, DrawnStays DEF MessagesOK, PlacesOK
  <2>4. ~RootDrawn(prs, new[1]) /\ RootDrawn(prs2, new[1])
    BY <2>2 DEF Ratcheting
  <2> HIDE DEF new
  <2> QED BY <2>1, <2>3, <2>4 DEF PlacesOK, MessagesOK
<1>5. HeaderKeysOK(prs2, items, st2, sv)
  <2>1. /\ HeaderKeysOf(p, items, st2, sv)
              \subseteq HeaderKeysOf(p, items, st, sv) \cup {hkNew}
        /\ HeaderKeysOf(Peer(p), items, st2, sv)
              \subseteq HeaderKeysOf(Peer(p), items, st, sv)
    BY RatchetKeepsHeaderKeys
  <2>2. HeaderKeyDrawn(prs2, hkNew) /\ ~HeaderKeyDrawn(prs, hkNew)
    BY DEF Ratcheting, HeaderKeyDrawn, NextHeaderKey
  <2>3. ASSUME NEW q \in Party, NEW hk \in HeaderKeysOf(q, items, st, sv) \ {None}
        PROVE  /\ HeaderKeyDrawn(prs2, hk) /\ hk # hkNew
               /\ hk \notin HeaderKeysOf(Peer(q), items, st, sv)
    <3>1. HeaderKeyDrawn(prs, hk) /\ hk \notin HeaderKeysOf(Peer(q), items, st, sv)
      BY DEF MessagesOK, HeaderKeysOK
    <3> QED BY <3>1, <2>2, <1>1, DrawnStays
  <2>4. /\ Peer(p) \in Party /\ Peer(p) # p /\ Peer(Peer(p)) = p
        /\ \A q \in Party : q = p \/ q = Peer(p)
    BY TwoParties
  <2> HIDE DEF hkNew
  <2>5. ASSUME NEW hk \in HeaderKeysOf(p, items, st2, sv) \ {None}
        PROVE  /\ HeaderKeyDrawn(prs2, hk)
               /\ hk \notin HeaderKeysOf(Peer(p), items, st2, sv)
    BY <2>1, <2>2, <2>3, <2>4
  <2>6. ASSUME NEW hk \in HeaderKeysOf(Peer(p), items, st2, sv) \ {None}
        PROVE  /\ HeaderKeyDrawn(prs2, hk)
               /\ hk \notin HeaderKeysOf(p, items, st2, sv)
    BY <2>1, <2>2, <2>3, <2>4
  <2> QED BY <2>4, <2>5, <2>6 DEF HeaderKeysOK
<1>6. PastsOK(items, st2, sv)
  <2>1. PastOK(items, p, c)
    <3>1. ASSUME NEW k \in items PROVE ~LeadsTo(c, k.mk[2])
      <4>1. RootDrawn(prs, k.mk[2])
        <5>1. Place(k) \in Places(items, st, sv) /\ Place(k)[1] = k.mk[2]
          BY DEF Places, Place
        <5> QED BY <5>1 DEF MessagesOK, PlacesOK
      <4>2. ~Drawn(prs, c.dh_pair)
        BY <1>1, NextPairIsNew DEF Ratcheting, Fresh
      <4> QED BY <4>1, <4>2 DEF LeadsTo, RootDrawn
    <3> QED BY <3>1 DEF PastOK
  <2> QED BY <2>1 DEF PastsOK
<1> QED BY <1>2, <1>3, <1>4, <1>5, <1>6 DEF MessagesOK

-----------------------------------------------------------------------------
(* The initial state.                                                      *)

(***************************************************************************)
(* The sessions X3DH leads to, each saved before the first message,        *)
(* satisfy the invariant.                                                  *)
(***************************************************************************)
LEMMA SavedInitOK == SavedInit => SInv
<1> SUFFICES ASSUME SavedInit PROVE SInv
  OBVIOUS
<1> DEFINE a == state[Alice]
           b == state[Bob]
           K == <<"okm", SharedSecret, {Key(Alice, 1), Key(Bob, 0)}>>
<1>1. /\ a = InitSenderState(SharedSecret, Key(Alice, 1), Key(Bob, 0))
      /\ b = InitReceiverState(SharedSecret, Key(Bob, 0))
      /\ DOMAIN state = Party
  BY PartyAssumption DEF SavedInit, Init, Party
<1>2. /\ Alice \in Party /\ Bob \in Party /\ Alice # Bob
      /\ Peer(Alice) = Bob /\ Peer(Bob) = Alice
      /\ \A p \in Party : p = Alice \/ p = Bob
  BY PartyAssumption DEF Party, Peer
<1>3. Sent = {} /\ Items = {}
  <2>1. handed = [m \in {} |-> 0] /\ outbox = [p \in Party |-> None]
    BY DEF SavedInit, Init
  <2>2. Sent = {} /\ \A q \in Party : outbox[q] = None
    BY <2>1 DEF Sent
  <2> QED BY <2>2 DEF Items, Encrypted
<1>4. KdfRkHe(SharedSecret, DH(Key(Alice, 1), Key(Bob, 0))) =
         [rk |-> K, ck |-> <<K, 0>>, nhk |-> NextHeaderKey(K)]
  BY DEF KdfRkHe, DH, NextHeaderKey
<1>5. /\ DOMAIN a = SessionFields /\ DOMAIN b = SessionFields
      /\ a.rk = K /\ a.dh_pair = Key(Alice, 1) /\ a.dh_remote = Key(Bob, 0)
      /\ a.ck_s = <<K, 0>> /\ a.ck_r = None /\ a.hk_r = None
      /\ a.hk_s = InitiatorHeaderKey(SharedSecret) /\ a.nhk_s = NextHeaderKey(K)
      /\ a.nhk_r = ResponderHeaderKey(SharedSecret) /\ a.is_sender = TRUE
      /\ a.ns = 0 /\ a.nr = 0 /\ a.pn = 0 /\ a.header_nonce_counter = 0
      /\ a.mkskipped = EmptyStore
      /\ b.rk = SharedSecret /\ b.dh_pair = Key(Bob, 0) /\ b.dh_remote = None
      /\ b.ck_s = None /\ b.ck_r = None /\ b.hk_r = None /\ b.hk_s = None
      /\ b.nhk_s = ResponderHeaderKey(SharedSecret)
      /\ b.nhk_r = InitiatorHeaderKey(SharedSecret) /\ b.is_sender = FALSE
      /\ b.ns = 0 /\ b.nr = 0 /\ b.pn = 0 /\ b.header_nonce_counter = 0
      /\ b.mkskipped = EmptyStore
  <2> HIDE DEF K
  <2> QED BY <1>1, <1>4 DEF InitSenderState, InitReceiverState, SessionFields
<1> HIDE DEF a, b
<1>6. /\ saved = [p \in Party |-> Serialized(state[p])]
      /\ pairs = [p \in Party |-> state[p].dh_pair[2]]
      /\ outbox = [p \in Party |-> None]
  BY DEF SavedInit
<1>7. pairs[Alice] = 1 /\ pairs[Bob] = 0 /\ PairsOK(pairs)
  <2>1. pairs[Alice] = 1 /\ pairs[Bob] = 0
    BY <1>2, <1>5, <1>6 DEF Key, a, b
  <2> QED BY <1>2, <1>6, <2>1 DEF PairsOK
<1>8. K # SharedSecret /\ K[3] = {Key(Alice, 1), Key(Bob, 0)} /\ K[2] = SharedSecret
  BY DEF SharedSecret
<1>9. Drawn(pairs, Key(Alice, 1)) /\ Drawn(pairs, Key(Bob, 0)) /\ RootDrawn(pairs, K)
  <2>1. 1 \in 0 .. pairs[Alice] /\ 0 \in 0 .. pairs[Bob]
    BY <1>7
  <2>2. Drawn(pairs, Key(Alice, 1)) /\ Drawn(pairs, Key(Bob, 0))
    BY <1>2, <2>1 DEF Drawn
  <2> QED BY <2>2, <1>8 DEF RootDrawn
<1>10. CopyOK(pairs, Sent, Alice, a)
  <2>1. ~LeadsTo(a, a.rk)
    <3>1. SharedSecret # K
      BY <1>8
    <3> HIDE DEF K
    <3> QED BY <1>5, <1>8, <3>1 DEF LeadsTo
  <2>2. Begun(a)
    BY <1>5, <1>8 DEF Begun
  <2>3. K = <<"okm", K[2], {a.dh_pair, a.dh_remote}>>
    BY <1>5
  <2> HIDE DEF K
  <2>4. /\ a.ck_s = <<a.rk, a.ck_s[2]>> /\ a.ck_s[2] \in Nat
        /\ a.dh_pair[2] = 1 /\ a.dh_remote[2] = 0
    BY <1>5 DEF Key
  <2>5. ChainOK(pairs, Alice, a)
    BY <2>1, <2>3, <2>4, <1>2, <1>5, <1>7 DEF ChainOK
  <2>6. a.is_sender \in BOOLEAN /\ (a.is_sender <=> Alice = Alice)
    BY <1>5
  <2>7. a.dh_pair[2] \in 0 .. pairs[Alice] /\ a.dh_pair = Key(Alice, a.dh_pair[2])
    BY <2>4, <1>5, <1>7
  <2>8. ~(a.hk_r # None \/ a.ck_r # None)
    BY <1>5
  <2>9. /\ DOMAIN a = SessionFields /\ a.header_nonce_counter \in Nat
        /\ a.ns \in Nat /\ a.nr \in Nat /\ a.pn \in Nat
    BY <1>5
  <2> QED BY <2>2, <2>5, <2>6, <2>7, <2>8, <2>9 DEF CopyOK
<1>11. CopyOK(pairs, Sent, Bob, b)
  <2>1. b.dh_pair[2] = 0
    BY <1>5 DEF Key
  <2>2. NotBegun(b) /\ ~Begun(b)
    BY <1>5, <2>1 DEF NotBegun, Begun
  <2>3. b.is_sender \in BOOLEAN /\ (b.is_sender <=> Bob = Alice)
    BY <1>2, <1>5
  <2>4. b.dh_pair[2] \in 0 .. pairs[Bob] /\ b.dh_pair = Key(Bob, b.dh_pair[2])
    BY <2>1, <1>5, <1>7
  <2>5. ~(b.hk_r # None \/ b.ck_r # None)
    BY <1>5
  <2>6. /\ DOMAIN b = SessionFields /\ b.header_nonce_counter \in Nat
        /\ b.ns \in Nat /\ b.nr \in Nat /\ b.pn \in Nat
    BY <1>5
  <2> QED BY <2>2, <2>3, <2>4, <2>5, <2>6 DEF CopyOK
<1> HIDE DEF K
<1>12. \A p \in Party : CopyOK(pairs, Sent, p, state[p])
  BY <1>2, <1>10, <1>11 DEF a, b
<1>13. ASSUME NEW p \in Party
       PROVE  /\ CopyOK(pairs, Sent, p, saved[p])
              /\ Begun(saved[p]) <=> Begun(state[p])
              /\ Begun(state[p]) => PlaceOf(p, saved[p]) = PlaceOf(p, state[p])
              /\ SendingHeaderKeys(saved[p]) = SendingHeaderKeys(state[p])
              /\ ReceivingHeaderKeys(saved[p]) = ReceivingHeaderKeys(state[p])
              /\ saved[p] = Serialized(state[p])
  <2>1. saved[p] = Serialized(state[p])
    BY <1>6
  <2>2. CopyOK(pairs, Sent, p, state[p])
    BY <1>12
  <2>3. Continues(Sent, p, state[p], saved[p])
    BY <2>1, <2>2, OperationsContinue
  <2> QED BY <2>1, <2>2, <2>3, ContinuesKeeps
<1>14. CopiesOK(pairs, Sent, state, saved)
  BY <1>1, <1>6, <1>12, <1>13 DEF CopiesOK
<1>15. KeptKeysOK(Sent, state, saved)
  <2>1. \A p \in Party : state[p].mkskipped = EmptyStore /\ DOMAIN state[p] = SessionFields
    BY <1>2, <1>5 DEF a, b
  <2>2. \A p \in Party : saved[p].mkskipped = {}
    <3>1. DOMAIN EmptyStore = {}
      BY DEF EmptyStore
    <3>2. ASSUME NEW p \in Party PROVE saved[p].mkskipped = {}
      <4>1. saved[p].mkskipped = {<<k, state[p].mkskipped[k]>> : k \in DOMAIN state[p].mkskipped}
        BY <1>13, <2>1 DEF Serialized, SessionFields
      <4> QED BY <4>1, <2>1, <3>1
    <3> QED BY <3>2
  <2> QED BY <2>1, <2>2, EmptyIsStore DEF KeptKeysOK, StoreOK, SavedStoreOK
<1>16. PlacesOK(pairs, Places(Items, state, saved))
  <2>1. \A x \in Places(Items, state, saved) : x = PlaceOf(Alice, a)
    <3>1. ~Begun(state[Bob])
      BY <1>5 DEF Begun, b
    <3> QED BY <3>1, <1>2, <1>3, <1>13 DEF Places, a
  <2>2. PlaceOf(Alice, a)[1] = K
    BY <1>5 DEF PlaceOf
  <2> QED BY <2>1, <2>2, <1>9 DEF PlacesOK
<1>17. HeaderKeysOK(pairs, Items, state, saved)
  <2>1. \A hk \in HeaderKeysOf(Alice, Items, state, saved) \ {None} :
           hk = InitiatorHeaderKey(SharedSecret) \/ hk = NextHeaderKey(K)
    <3>1. /\ SendingHeaderKeys(a) = {InitiatorHeaderKey(SharedSecret), NextHeaderKey(K)}
          /\ ReceivingHeaderKeys(b) = {None, InitiatorHeaderKey(SharedSecret)}
      BY <1>5 DEF SendingHeaderKeys, ReceivingHeaderKeys
    <3> QED BY <3>1, <1>2, <1>3, <1>13, HeaderKeyOwner DEF a, b
  <2>2. \A hk \in HeaderKeysOf(Bob, Items, state, saved) \ {None} :
           hk = ResponderHeaderKey(SharedSecret) \/ hk = NextHeaderKey(SharedSecret)
    <3>1. /\ SendingHeaderKeys(b) = {None, ResponderHeaderKey(SharedSecret),
                                     NextHeaderKey(SharedSecret)}
          /\ ReceivingHeaderKeys(a) = {None, ResponderHeaderKey(SharedSecret)}
      BY <1>5 DEF SendingHeaderKeys, ReceivingHeaderKeys
    <3> QED BY <3>1, <1>2, <1>3, <1>13, HeaderKeyOwner DEF a, b
  <2>3. /\ HeaderKeyDrawn(pairs, InitiatorHeaderKey(SharedSecret))
        /\ HeaderKeyDrawn(pairs, ResponderHeaderKey(SharedSecret))
        /\ HeaderKeyDrawn(pairs, NextHeaderKey(K))
        /\ HeaderKeyDrawn(pairs, NextHeaderKey(SharedSecret))
    <3>1. RootDrawn(pairs, SharedSecret)
      BY DEF RootDrawn
    <3> QED BY <3>1, <1>9
            DEF HeaderKeyDrawn, NextHeaderKey, InitiatorHeaderKey, ResponderHeaderKey
  <2>4. \A x \in {InitiatorHeaderKey(SharedSecret), NextHeaderKey(K)} :
           \A y \in {ResponderHeaderKey(SharedSecret), NextHeaderKey(SharedSecret)} : x # y
    BY <1>8 DEF NextHeaderKey, InitiatorHeaderKey, ResponderHeaderKey
  <2> QED BY <1>2, <2>1, <2>2, <2>3, <2>4 DEF HeaderKeysOK
<1>18. NoncesLieBelow(Sent, outbox, state, saved)
  <2>1. \A p \in Party : state[p].header_nonce_counter = 0
    BY <1>2, <1>5 DEF a, b
  <2>2. \A p \in Party : saved[p].header_nonce_counter = 0
    BY <2>1, <1>12, <1>13 DEF Serialized, CopyOK, SessionFields
  <2> QED BY <2>1, <2>2, <1>3, <1>6 DEF NoncesLieBelow, CountersOK
<1>19. PastsOK(Items, state, saved)
  BY <1>3 DEF PastsOK, PastOK
<1> QED BY <1>3, <1>6, <1>7, <1>14, <1>15, <1>16, <1>17, <1>18, <1>19 DEF SInv, MessagesOK

-----------------------------------------------------------------------------
(* The actions.                                                            *)

(***************************************************************************)
(* A session continues itself.                                             *)
(***************************************************************************)
LEMMA ContinuesSelf ==
    ASSUME NEW prs, NEW sent, NEW p, NEW s, CopyOK(prs, sent, p, s)
    PROVE  Continues(sent, p, s, s)
BY DEF Continues, CopyOK

(***************************************************************************)
(* What remains to be shown of an action that derives no root key.         *)
(***************************************************************************)
LEMMA QuietAction ==
    ASSUME SInv, pairs' = pairs, DOMAIN outbox' = Party, Sent \subseteq Sent',
           DOMAIN state' = Party, DOMAIN saved' = Party,
           NothingNew(Sent, Items, state, saved, Items', state', saved'),
           \A m \in Items' : ItemOK(pairs, m),
           KeptKeysOK(Sent', state', saved'),
           NoncesLieBelow(Sent', outbox', state', saved'),
           PastsOK(Items', state', saved')
    PROVE  SInv'
<1>1. /\ CopiesOK(pairs, Sent', state', saved')
      /\ MessagesOK(pairs, Items', state', saved')
  BY NothingNewKeeps DEF SInv
<1> QED BY <1>1 DEF SInv

(***************************************************************************)
(* Serializing the session and writing the copy keeps the invariant.       *)
(***************************************************************************)
LEMMA SaveStep ==
    ASSUME SInv, NEW p \in Party, Save(p)
    PROVE  SInv'
<1> DEFINE s == state[p]
           c == Serialized(state[p])
<1>1. /\ saved' = [saved EXCEPT ![p] = c]
      /\ state' = state /\ handed' = handed /\ outbox' = outbox /\ pairs' = pairs
  BY DEF Save, vars
<1>2. Sent' = Sent /\ Items' = Items
  BY <1>1 DEF Sent, Items, Encrypted
<1>3. /\ \A q \in Party : CopyOK(pairs, Sent, q, state[q]) /\ CopyOK(pairs, Sent, q, saved[q])
      /\ DOMAIN state = Party /\ DOMAIN saved = Party /\ DOMAIN outbox = Party
  BY DEF SInv, CopiesOK
<1>4. /\ saved'[p] = c /\ DOMAIN saved' = Party
      /\ \A q \in Party \ {p} : saved'[q] = saved[q]
  BY <1>1, <1>3
<1>5. Continues(Sent, p, s, c)
  BY <1>3, OperationsContinue
<1>6. /\ c.header_nonce_counter = s.header_nonce_counter
      /\ c.mkskipped = {<<k, s.mkskipped[k]>> : k \in DOMAIN s.mkskipped}
  BY <1>3 DEF Serialized, CopyOK, SessionFields
<1> HIDE DEF s, c
<1>7. NothingNew(Sent, Items, state, saved, Items', state', saved')
  BY <1>1, <1>2, <1>3, <1>4, <1>5, ContinuesSelf DEF NothingNew, s
<1>8. KeptKeysOK(Sent', state', saved')
  <2>1. SavedStoreOK(Sent, p, c)
    <3>1. \A k \in DOMAIN s.mkskipped : FromPeer(Sent, p, c, s.mkskipped[k].mk[2])
      <4>1. StoreOK(Sent, p, s) /\ CopyOK(pairs, Sent, p, s)
        BY <1>3 DEF SInv, KeptKeysOK, s
      <4>2. \A root : FromPeer(Sent, p, s, root) => FromPeer(Sent, p, c, root)
        BY <4>1, <1>5, ContinuesKeeps
      <4> QED BY <4>1, <4>2 DEF StoreOK
    <3> QED BY <3>1, <1>6 DEF SavedStoreOK
  <2> QED BY <2>1, <1>1, <1>2, <1>4 DEF SInv, KeptKeysOK
<1>9. NoncesLieBelow(Sent', outbox', state', saved')
  <2>1. CountersOK(Sent, outbox[p], p, state[p], c)
    <3>1. /\ CountersOK(Sent, outbox[p], p, s, saved[p])
          /\ s.header_nonce_counter \in Nat /\ saved[p].header_nonce_counter \in Nat
          /\ \A m \in Sent : m.nonce.counter \in Nat
      BY <1>3 DEF SInv, NoncesLieBelow, MessagesOK, ItemOK, Items, Encrypted, s, CopyOK
    <3> QED BY <3>1, <1>6 DEF CountersOK, s
  <2> QED BY <2>1, <1>1, <1>2, <1>4 DEF SInv, NoncesLieBelow
<1>10. PastsOK(Items', state', saved')
  <2>1. PastOK(Items, p, c)
    BY <1>3, <1>5, <1>6, PastStays DEF SInv, PastsOK, s
  <2> QED BY <2>1, <1>1, <1>2, <1>4 DEF SInv, PastsOK
<1>11. \A m \in Items' : ItemOK(pairs, m)
  BY <1>2 DEF SInv, MessagesOK
<1> QED BY <1>1, <1>2, <1>3, <1>4, <1>7, <1>8, <1>9, <1>10, <1>11, QuietAction

(***************************************************************************)
(* A crash, a restart from the copy, keeps the invariant: the copy is no   *)
(* newer than the session, and the outbox is lost with the memory.         *)
(***************************************************************************)
LEMMA RestartStep ==
    ASSUME SInv, NEW p \in Party, Restart(p)
    PROVE  SInv'
<1> DEFINE s == saved[p]
           c == Deserialized(saved[p])
<1>1. /\ state' = [state EXCEPT ![p] = c] /\ outbox' = [outbox EXCEPT ![p] = None]
      /\ saved' = saved /\ handed' = handed /\ pairs' = pairs
  BY DEF Restart
<1>2. /\ \A q \in Party : CopyOK(pairs, Sent, q, state[q]) /\ CopyOK(pairs, Sent, q, saved[q])
      /\ DOMAIN state = Party /\ DOMAIN saved = Party /\ DOMAIN outbox = Party
  BY DEF SInv, CopiesOK
<1>3. /\ state'[p] = c /\ DOMAIN state' = Party
      /\ \A q \in Party \ {p} : state'[q] = state[q]
      /\ outbox'[p] = None /\ DOMAIN outbox' = Party
      /\ \A q \in Party \ {p} : outbox'[q] = outbox[q]
  BY <1>1, <1>2
<1>4. Sent' = Sent /\ Items' \subseteq Items
  <2>1. Sent' = Sent
    BY <1>1 DEF Sent
  <2>2. \A q \in Party : outbox'[q] = None \/ outbox'[q] = outbox[q]
    BY <1>3
  <2> QED BY <2>1, <2>2 DEF Items, Encrypted
<1>5. Continues(Sent, p, s, c)
  BY <1>2, OperationsContinue
<1>6. /\ c.header_nonce_counter = s.header_nonce_counter
      /\ c.mkskipped = [k \in {e[1] : e \in s.mkskipped} |->
                           (CHOOSE e \in s.mkskipped : e[1] = k)[2]]
  BY <1>2 DEF Deserialized, CopyOK, SessionFields
<1> HIDE DEF s, c
<1>7. NothingNew(Sent, Items, state, saved, Items', state', saved')
  BY <1>1, <1>2, <1>3, <1>4, <1>5, ContinuesSelf DEF NothingNew, s
<1>8. KeptKeysOK(Sent', state', saved')
  <2>1. StoreOK(Sent, p, c)
    <3>1. \A e \in s.mkskipped : FromPeer(Sent, p, c, e[2].mk[2])
      <4>1. SavedStoreOK(Sent, p, s) /\ CopyOK(pairs, Sent, p, s)
        BY <1>2 DEF SInv, KeptKeysOK, s
      <4>2. \A root : FromPeer(Sent, p, s, root) => FromPeer(Sent, p, c, root)
        BY <4>1, <1>5, ContinuesKeeps
      <4> QED BY <4>1, <4>2 DEF SavedStoreOK
    <3>2. ASSUME NEW k \in DOMAIN c.mkskipped
          PROVE  FromPeer(Sent, p, c, c.mkskipped[k].mk[2])
      <4> DEFINE entry == CHOOSE e \in s.mkskipped : e[1] = k
      <4>1. \E e \in s.mkskipped : e[1] = k
        BY <1>6, <3>2
      <4>2. entry \in s.mkskipped
        BY <4>1
      <4>3. c.mkskipped[k] = entry[2]
        BY <1>6, <3>2
      <4> HIDE DEF entry
      <4> QED BY <3>1, <4>2, <4>3
    <3> QED BY <3>2 DEF StoreOK
  <2> QED BY <2>1, <1>1, <1>3, <1>4 DEF SInv, KeptKeysOK
<1>9. NoncesLieBelow(Sent', outbox', state', saved')
  <2>1. CountersOK(Sent, None, p, c, saved[p])
    <3>1. CountersOK(Sent, outbox[p], p, state[p], s) /\ s.header_nonce_counter \in Nat
      BY <1>2 DEF SInv, NoncesLieBelow, s, CopyOK
    <3> QED BY <3>1, <1>6 DEF CountersOK, s
  <2> QED BY <2>1, <1>1, <1>3, <1>4 DEF SInv, NoncesLieBelow
<1>10. PastsOK(Items', state', saved')
  <2>1. PastOK(Items', p, c)
    BY <1>2, <1>4, <1>5, <1>6, PastStays DEF SInv, PastsOK, s
  <2>2. \A q \in Party : PastOK(Items', q, state[q]) /\ PastOK(Items', q, saved[q])
    BY <1>4 DEF SInv, PastsOK, PastOK
  <2> QED BY <2>1, <2>2, <1>1, <1>3 DEF PastsOK
<1>11. \A m \in Items' : ItemOK(pairs, m)
  BY <1>4 DEF SInv, MessagesOK
<1> QED BY <1>1, <1>2, <1>3, <1>4, <1>7, <1>8, <1>9, <1>10, <1>11, QuietAction

(***************************************************************************)
(* Sending what waits in the outbox keeps the invariant: the copy has been *)
(* written since.                                                          *)
(***************************************************************************)
LEMMA SendStep ==
    ASSUME SInv, NEW p \in Party, Send(p)
    PROVE  SInv'
<1> DEFINE o == outbox[p]
<1>1. /\ o # None /\ saved[p].header_nonce_counter > o.nonce.counter
      /\ outbox' = [outbox EXCEPT ![p] = None]
      /\ state' = state /\ saved' = saved /\ pairs' = pairs
  BY DEF Send
<1>2. Sent' = Sent \cup {o}
  BY DEF Send, Sent
<1>3. /\ \A q \in Party : CopyOK(pairs, Sent, q, state[q]) /\ CopyOK(pairs, Sent, q, saved[q])
      /\ DOMAIN state = Party /\ DOMAIN saved = Party /\ DOMAIN outbox = Party
  BY DEF SInv, CopiesOK
<1>4. /\ outbox'[p] = None /\ DOMAIN outbox' = Party
      /\ \A q \in Party \ {p} : outbox'[q] = outbox[q]
  BY <1>1, <1>3
<1>5. o \in Items /\ Items' \subseteq Items
  <2>1. \A q \in Party : outbox'[q] = None \/ outbox'[q] = outbox[q]
    BY <1>4
  <2> QED BY <2>1, <1>1, <1>2 DEF Items, Encrypted
<1> HIDE DEF o
<1>6. NothingNew(Sent, Items, state, saved, Items', state', saved')
  BY <1>1, <1>3, <1>5, ContinuesSelf DEF NothingNew
<1>7. KeptKeysOK(Sent', state', saved')
  BY <1>1, <1>2, FromPeerStays DEF SInv, KeptKeysOK, StoreOK, SavedStoreOK
<1>8. NoncesLieBelow(Sent', outbox', state', saved')
  <2>1. /\ CountersOK(Sent, o, p, state[p], saved[p])
        /\ \A q \in Party : CountersOK(Sent, outbox[q], q, state[q], saved[q])
    BY DEF SInv, NoncesLieBelow, o
  <2>2. Sender(o) = p
    BY <2>1, <1>1 DEF CountersOK
  <2>3. /\ o.nonce.counter \in Nat
        /\ \A q \in Party : /\ saved[q].header_nonce_counter \in Nat
                            /\ state[q].header_nonce_counter \in Nat
    BY <1>3, <1>5 DEF SInv, MessagesOK, ItemOK, CopyOK
  <2>4. CountersOK(Sent', None, p, state[p], saved[p])
    BY <2>1, <2>3, <1>1, <1>2 DEF CountersOK
  <2>5. ASSUME NEW q \in Party \ {p}
        PROVE  CountersOK(Sent', outbox[q], q, state[q], saved[q])
    BY <2>1, <2>2, <1>2 DEF CountersOK
  <2> QED BY <2>4, <2>5, <1>1, <1>4 DEF NoncesLieBelow
<1>9. PastsOK(Items', state', saved')
  BY <1>1, <1>5 DEF SInv, PastsOK, PastOK
<1>10. \A m \in Items' : ItemOK(pairs, m)
  BY <1>5 DEF SInv, MessagesOK
<1> QED BY <1>1, <1>2, <1>3, <1>4, <1>6, <1>7, <1>8, <1>9, <1>10, QuietAction

(***************************************************************************)
(* The message that a session encrypts.                                    *)
(***************************************************************************)
LEMMA PacketFits ==
    ASSUME NEW prs, NEW sent, NEW p \in Party, NEW s, CopyOK(prs, sent, p, s),
           ValidForEncryption(s)
    PROVE  /\ Begun(s)
           /\ ItemOK(prs, Packet(s)) /\ EncryptedIn(p, s, Packet(s))
           /\ Packet(s).nonce.counter = s.header_nonce_counter
           /\ ~LeadsTo(s, Packet(s).mk[2])
<1> DEFINE k == Packet(s)
<1>1. Begun(s) /\ s.hk_s # None
  BY DEF ValidForEncryption, CopyOK, NotBegun
<1>2. /\ s.ck_s = <<s.rk, s.ck_s[2]>> /\ s.ck_s[2] \in Nat /\ ~LeadsTo(s, s.rk)
      /\ s.is_sender \in BOOLEAN /\ (s.is_sender <=> p = Alice)
      /\ s.header_nonce_counter \in Nat /\ s.ns \in Nat /\ s.pn \in Nat
      /\ s.dh_pair[2] \in 0 .. prs[p] /\ s.dh_pair = Key(p, s.dh_pair[2])
  BY <1>1 DEF CopyOK, ChainOK
<1>3. /\ k.hk = s.hk_s /\ k.dh_pub = s.dh_pair /\ k.pn = s.pn /\ k.n = s.ns
      /\ k.nonce = [is_sender |-> s.is_sender, counter |-> s.header_nonce_counter]
      /\ k.mk = <<"mk", s.ck_s[1], s.ck_s[2]>>
  BY DEF Packet, HeaderNonce, KdfCk
<1>4. k.mk[2] = s.rk /\ k.mk[3] = s.ck_s[2] /\ k.mk = <<"mk", k.mk[2], k.mk[3]>>
  <2>1. s.ck_s[1] = s.rk
    BY <1>2
  <2> HIDE DEF k
  <2> QED BY <2>1, <1>3
<1> HIDE DEF k
<1>5. k.nonce.is_sender = s.is_sender /\ k.nonce.counter = s.header_nonce_counter
  BY <1>3
<1>6. Sender(k) = p
  BY <1>2, <1>5, PartyAssumption DEF Sender, Party
<1>7. k.nonce = [is_sender |-> k.nonce.is_sender, counter |-> k.nonce.counter]
  BY <1>3, <1>5
<1>8. ItemOK(prs, k)
  BY <1>1, <1>2, <1>3, <1>4, <1>5, <1>6, <1>7 DEF ItemOK
<1>9. EncryptedIn(p, s, k)
  BY <1>1, <1>3, <1>4, <1>5, <1>6 DEF EncryptedIn, Place, PlaceOf
<1> QED BY <1>1, <1>2, <1>4, <1>5, <1>8, <1>9 DEF k

(***************************************************************************)
(* ratchet_encrypt, whose result the host keeps back, keeps the invariant. *)
(***************************************************************************)
LEMMA OutboxStep ==
    ASSUME SInv, NEW p \in Party, EncryptToOutbox(p)
    PROVE  SInv'
<1> DEFINE s == state[p]
           c == AfterEncrypt(s)
           k == Packet(s)
<1>1. /\ outbox[p] = None /\ ValidForEncryption(s)
      /\ outbox' = [outbox EXCEPT ![p] = k]
      /\ state' = [state EXCEPT ![p] = c]
      /\ handed' = handed /\ saved' = saved /\ pairs' = pairs
  BY ErrorAssumption DEF EncryptToOutbox, EncryptError, Errors
<1>2. /\ \A q \in Party : CopyOK(pairs, Sent, q, state[q]) /\ CopyOK(pairs, Sent, q, saved[q])
      /\ DOMAIN state = Party /\ DOMAIN saved = Party /\ DOMAIN outbox = Party
  BY DEF SInv, CopiesOK
<1>3. /\ state'[p] = c /\ DOMAIN state' = Party
      /\ \A q \in Party \ {p} : state'[q] = state[q]
      /\ outbox'[p] = k /\ DOMAIN outbox' = Party
      /\ \A q \in Party \ {p} : outbox'[q] = outbox[q]
  BY <1>1, <1>2
<1>4. Sent' = Sent /\ Items' \subseteq Items \cup {k}
  <2>1. Sent' = Sent
    BY <1>1 DEF Sent
  <2>2. \A q \in Party : outbox'[q] = k \/ outbox'[q] = outbox[q]
    BY <1>3
  <2> QED BY <2>1, <2>2 DEF Items, Encrypted
<1>5. /\ Begun(s) /\ ItemOK(pairs, k) /\ EncryptedIn(p, s, k)
      /\ k.nonce.counter = s.header_nonce_counter /\ ~LeadsTo(s, k.mk[2])
  BY <1>1, <1>2, PacketFits
<1>6. Continues(Sent, p, s, c)
  BY <1>2, <1>5, OperationsContinue
<1>7. /\ c.header_nonce_counter = s.header_nonce_counter + 1
      /\ c.mkskipped = s.mkskipped
      /\ s.header_nonce_counter \in Nat /\ saved[p].header_nonce_counter \in Nat
  BY <1>2 DEF AfterEncrypt, Numbered, ChainAdvanced, CopyOK, SessionFields
<1>8. CountersOK(Sent, None, p, s, saved[p])
  BY <1>1 DEF SInv, NoncesLieBelow, s
<1>9. Sender(k) = p
  BY <1>5 DEF EncryptedIn
<1>10. \A m \in Items : m.nonce.counter \in Nat
  BY DEF SInv, MessagesOK, ItemOK
<1> HIDE DEF s, c, k
<1>11. NothingNew(Sent, Items, state, saved, Items', state', saved')
  BY <1>1, <1>2, <1>3, <1>4, <1>5, <1>6, ContinuesSelf DEF NothingNew, s
<1>12. KeptKeysOK(Sent', state', saved')
  <2>1. StoreOK(Sent, p, c)
    <3>1. StoreOK(Sent, p, s) /\ CopyOK(pairs, Sent, p, s)
      BY <1>2 DEF SInv, KeptKeysOK, s
    <3>2. \A root : FromPeer(Sent, p, s, root) => FromPeer(Sent, p, c, root)
      BY <3>1, <1>6, ContinuesKeeps
    <3> QED BY <3>1, <3>2, <1>7 DEF StoreOK
  <2> QED BY <2>1, <1>1, <1>3, <1>4 DEF SInv, KeptKeysOK
<1>13. NoncesLieBelow(Sent', outbox', state', saved')
  <2>1. \A m \in Sent : Sender(m) = p => m.nonce.counter < s.header_nonce_counter
    <3>1. Sent \subseteq Items
      BY DEF Items, Encrypted
    <3> QED BY <3>1, <1>7, <1>8, <1>10 DEF CountersOK
  <2>2. CountersOK(Sent, k, p, c, saved[p])
    BY <2>1, <1>5, <1>7, <1>8, <1>9 DEF CountersOK
  <2> QED BY <2>2, <1>1, <1>3, <1>4 DEF SInv, NoncesLieBelow
<1>14. PastsOK(Items', state', saved')
  <2>1. ASSUME NEW m \in Items, Sender(m) = p
        PROVE  m.nonce.counter < s.header_nonce_counter
    <3>1. CASE m \in Sent
      BY <2>1, <3>1, <1>7, <1>8, <1>10 DEF CountersOK
    <3>2. CASE m \notin Sent
      <4>1. PICK q \in Party : m = outbox[q] /\ outbox[q] # None
        BY <3>2 DEF Items, Encrypted
      <4>2. CountersOK(Sent, outbox[q], q, state[q], saved[q])
        BY DEF SInv, NoncesLieBelow
      <4>3. q = p
        BY <2>1, <4>1, <4>2 DEF CountersOK
      <4> QED BY <4>1, <4>3, <1>1
    <3> QED BY <3>1, <3>2
  <2>2. PastOK(Items', p, c)
    <3>1. \A root : LeadsTo(c, root) <=> LeadsTo(s, root)
      BY <1>2, <1>6, ContinuesKeeps DEF s
    <3>2. \A m \in Items : Sender(m) = p => ~LeadsTo(s, m.mk[2])
      BY <2>1 DEF SInv, PastsOK, PastOK, s
    <3> QED BY <3>1, <3>2, <1>4, <1>5 DEF PastOK
  <2>3. PastOK(Items', p, saved[p])
    <3>1. ~(k.nonce.counter < saved[p].header_nonce_counter)
      BY <1>5, <1>7, <1>8 DEF CountersOK
    <3> QED BY <3>1, <1>4 DEF SInv, PastsOK, PastOK
  <2>4. ASSUME NEW q \in Party \ {p}
        PROVE  PastOK(Items', q, state[q]) /\ PastOK(Items', q, saved[q])
    BY <1>4, <1>9 DEF SInv, PastsOK, PastOK
  <2> QED BY <2>2, <2>3, <2>4, <1>1, <1>3 DEF PastsOK
<1>15. \A m \in Items' : ItemOK(pairs, m)
  BY <1>4, <1>5 DEF SInv, MessagesOK
<1> QED BY <1>1, <1>2, <1>3, <1>4, <1>11, <1>12, <1>13, <1>14, <1>15, QuietAction

(***************************************************************************)
(* The two ways of decrypt, and the two outcomes for the host, change the  *)
(* session in the same way.                                                *)
(***************************************************************************)
LEMMA DecryptState ==
    ASSUME SInv, NEW p \in Party, NEW m \in Sent,
           DecryptHanded(p, m) \/ DecryptedNull(p, m)
    PROVE  \E c : /\ state' = [state EXCEPT ![p] = c]
                  /\ \/ c = WithoutSkippedKey(state[p], m)
                     \/ /\ Admitted(state[p], m)
                        /\ Committing(state[p], m, Fresh(pairs, p), c)
                  /\ DrawsPair(p)
                  /\ Sent' = Sent /\ saved' = saved /\ outbox' = outbox
<1>1. NewKey(p) = Fresh(pairs, p)
  BY DEF NewKey, Fresh
<1>2. Hand(m) => Sent' = Sent
  BY DEF Hand, Sent
<1>3. handed' = handed => Sent' = Sent
  BY DEF Sent
<1>4. CASE DecryptHanded(p, m)
  <2>1. DrawsPair(p) /\ saved' = saved /\ outbox' = outbox
    BY <1>4 DEF DecryptHanded
  <2>2. CASE DecryptWithSkippedKey(p, m)
    BY <2>1, <2>2, <1>2 DEF DecryptWithSkippedKey
  <2>3. CASE DecryptOnChain(p, m, NewKey(p))
    BY <2>1, <2>3, <1>1, <1>2 DEF DecryptOnChain, Authentic, Admitted, Committing
  <2> QED BY <2>2, <2>3, <1>4 DEF DecryptHanded
<1>5. CASE DecryptedNull(p, m)
  <2>1. DrawsPair(p) /\ saved' = saved /\ outbox' = outbox /\ Sent' = Sent
    BY <1>3, <1>5 DEF DecryptedNull
  <2>2. CASE state' = [state EXCEPT ![p] = WithoutSkippedKey(@, m)]
    BY <2>1, <2>2
  <2> DEFINE next == Committed(state[p], m, NewKey(p))
             c == IF ReceivedFull(next) THEN next ELSE Tracked(next, m)
  <2>3. CASE /\ Authentic(p, m)
             /\ state' = [state EXCEPT ![p] = c]
    <3>1. Committing(state[p], m, Fresh(pairs, p), c)
      BY <1>1 DEF Committing
    <3> HIDE DEF c
    <3> QED BY <2>1, <2>3, <3>1 DEF Authentic, Admitted
  <2> QED BY <2>2, <2>3, <1>5 DEF DecryptedNull
<1> QED BY <1>4, <1>5

(***************************************************************************)
(* A decrypt that derives no root key.                                     *)
(***************************************************************************)
LEMMA DecryptQuiet ==
    ASSUME SInv, NEW p \in Party, NEW c,
           state' = [state EXCEPT ![p] = c], pairs' = pairs,
           Sent' = Sent, saved' = saved, outbox' = outbox,
           Continues(Sent, p, state[p], c), StoreOK(Sent, p, c),
           c.header_nonce_counter = state[p].header_nonce_counter
    PROVE  SInv'
<1>1. /\ \A q \in Party : CopyOK(pairs, Sent, q, state[q]) /\ CopyOK(pairs, Sent, q, saved[q])
      /\ DOMAIN state = Party /\ DOMAIN saved = Party /\ DOMAIN outbox = Party
  BY DEF SInv, CopiesOK
<1>2. /\ state'[p] = c /\ DOMAIN state' = Party
      /\ \A q \in Party \ {p} : state'[q] = state[q]
  BY <1>1
<1>3. Items' = Items
  BY DEF Items, Encrypted
<1>4. NothingNew(Sent, Items, state, saved, Items', state', saved')
  BY <1>1, <1>2, <1>3, ContinuesSelf DEF NothingNew
<1>5. KeptKeysOK(Sent', state', saved')
  BY <1>2 DEF SInv, KeptKeysOK
<1>6. NoncesLieBelow(Sent', outbox', state', saved')
  BY <1>2 DEF SInv, NoncesLieBelow, CountersOK
<1>7. PastsOK(Items', state', saved')
  <2>1. PastOK(Items, p, c)
    BY <1>1, PastStays DEF SInv, PastsOK
  <2> QED BY <2>1, <1>2, <1>3 DEF SInv, PastsOK
<1>8. \A m \in Items' : ItemOK(pairs, m)
  BY <1>3 DEF SInv, MessagesOK
<1> QED BY <1>1, <1>2, <1>4, <1>5, <1>6, <1>7, <1>8, QuietAction

(***************************************************************************)
(* ratchet_decrypt keeps the invariant, whether its result is handed to    *)
(* the host or lost to a null: a stored key, a chain that moves on, or a   *)
(* DH ratchet with a key pair drawn for it.                                *)
(***************************************************************************)
LEMMA DecryptSavedStep ==
    ASSUME SInv, NEW p \in Party, NEW m \in Sent,
           DecryptHanded(p, m) \/ DecryptedNull(p, m)
    PROVE  SInv'
<1> DEFINE s == state[p]
<1>1. PICK c : /\ state' = [state EXCEPT ![p] = c]
               /\ \/ c = WithoutSkippedKey(s, m)
                  \/ Admitted(s, m) /\ Committing(s, m, Fresh(pairs, p), c)
               /\ DrawsPair(p)
               /\ Sent' = Sent /\ saved' = saved /\ outbox' = outbox
  BY DecryptState
<1>2. /\ \A q \in Party : CopyOK(pairs, Sent, q, state[q]) /\ CopyOK(pairs, Sent, q, saved[q])
      /\ DOMAIN state = Party /\ DOMAIN saved = Party /\ DOMAIN outbox = Party
      /\ pairs \in [Party -> Nat] /\ StoreOK(Sent, p, s)
  BY DEF SInv, CopiesOK, PairsOK, KeptKeysOK
<1>3. /\ state'[p] = c /\ DOMAIN state' = Party
      /\ \A q \in Party \ {p} : state'[q] = state[q]
  BY <1>1, <1>2
<1>4. m \in Items /\ ItemOK(pairs, m)
  BY DEF SInv, MessagesOK, Items, Encrypted
<1>5. pairs' = [pairs EXCEPT ![p] = IF c.dh_pair = s.dh_pair THEN @ ELSE @ + 1]
  BY <1>1, <1>3 DEF DrawsPair
<1>6. c.dh_pair = s.dh_pair => pairs' = pairs
  BY <1>2, <1>5
<1>7. CopyOK(pairs, Sent, p, s)
  BY <1>2
<1>8. CASE c = WithoutSkippedKey(s, m)
  <2>1. Continues(Sent, p, s, c)
    BY <1>7, <1>8, OperationsContinue
  <2>2. c.dh_pair = s.dh_pair
    BY <2>1 DEF Continues
  <2>3. /\ c.header_nonce_counter = s.header_nonce_counter
        /\ c.mkskipped = Restrict(s.mkskipped, DOMAIN s.mkskipped \ {<<m.hk, m.n>>})
    BY <1>7, <1>8 DEF WithoutSkippedKey, CopyOK, SessionFields
  <2>4. StoreOK(Sent, p, c)
    <3>1. \A root : FromPeer(Sent, p, s, root) => FromPeer(Sent, p, c, root)
      BY <2>1, <1>7, ContinuesKeeps
    <3>2. \A k \in DOMAIN c.mkskipped : /\ k \in DOMAIN s.mkskipped
                                        /\ c.mkskipped[k] = s.mkskipped[k]
      BY <2>3 DEF Restrict
    <3> QED BY <3>1, <3>2, <1>2 DEF StoreOK
  <2> QED BY <2>1, <2>2, <2>3, <2>4, <1>1, <1>6, DecryptQuiet
<1>9. CASE Admitted(s, m) /\ Committing(s, m, Fresh(pairs, p), c)
  <2>1. Sender(m) = Peer(p)
    BY <1>4, <1>9, AuthenticSender DEF SInv, MessagesOK
  <2>2. CASE ~DhRatchetNeeded(s, m)
    <3>1. Continues(Sent, p, s, c) /\ StoreOK(Sent, p, c)
      BY <2>1, <2>2, <1>2, <1>4, <1>7, <1>9, CommitOnChainContinues
    <3>2. c.dh_pair = s.dh_pair
      BY <3>1 DEF Continues
    <3>3. c.header_nonce_counter = s.header_nonce_counter
      <4> DEFINE next == Committed(s, m, Fresh(pairs, p))
      <4>1. DOMAIN s = SessionFields
        BY <1>7 DEF CopyOK
      <4> HIDE DEF s
      <4>2. \A f \in SessionFields \ {"ck_r", "nr", "mkskipped"} : next[f] = s[f]
        BY <2>2, <4>1, CommittedOnChain
      <4>3. \A f \in SessionFields \ {"received_messages"} : c[f] = next[f]
        BY <4>1, <1>9, CommittingFields
      <4> HIDE DEF next
      <4> QED BY <4>2, <4>3 DEF SessionFields
    <3> QED BY <3>1, <3>2, <3>3, <1>1, <1>6, DecryptQuiet
  <2>3. CASE DhRatchetNeeded(s, m)
    <3> DEFINE prs2 == [pairs EXCEPT ![p] = @ + 1]
    <3>1. /\ DrawnBy(pairs, p, prs2) /\ PairsOK(prs2)
          /\ \A q \in Party : pairs[q] <= prs2[q]
      BY <1>2 DEF DrawnBy, PairsOK
    <3>2. RootDrawn(pairs, m.mk[2])
      <4>1. Place(m) \in Places(Items, state, saved) /\ Place(m)[1] = m.mk[2]
        BY <1>4 DEF Places, Place
      <4> QED BY <4>1 DEF SInv, MessagesOK, PlacesOK
    <3> HIDE DEF prs2
    <3>3. /\ CopyOK(prs2, Sent, p, c) /\ StoreOK(Sent, p, c) /\ Begun(c)
          /\ ~RootDrawn(pairs, c.rk) /\ RootDrawn(prs2, c.rk)
          /\ c.dh_pair = Fresh(pairs, p)
          /\ c.hk_s = s.nhk_s /\ c.nhk_s = NextHeaderKey(c.rk)
          /\ c.hk_r = s.nhk_r /\ c.nhk_r = NextHeaderKey(m.mk[2])
          /\ c.header_nonce_counter = s.header_nonce_counter
      <4> HIDE DEF s
      <4> QED BY <2>1, <2>3, <3>1, <3>2, <1>2, <1>4, <1>7, <1>9, CommitRatchets
    <3>4. Ratcheting(pairs, prs2, Sent, p, s, m, c)
      BY <3>3 DEF Ratcheting
    <3>5. pairs' = prs2
      <4>1. c.dh_pair # s.dh_pair
        BY <3>3, <1>2, <1>7 DEF Fresh, Key, CopyOK
      <4> QED BY <4>1, <1>5 DEF prs2
    <3>6. /\ CopiesOK(prs2, Sent, state', saved)
          /\ MessagesOK(prs2, Items, state', saved)
          /\ PastsOK(Items, state', saved)
      BY <2>1, <3>1, <3>4, <1>2, <1>3, <1>4, RatchetKeeps DEF SInv
    <3>7. Items' = Items
      BY <1>1 DEF Items, Encrypted
    <3>8. KeptKeysOK(Sent, state', saved)
      BY <3>3, <1>3 DEF SInv, KeptKeysOK
    <3>9. NoncesLieBelow(Sent, outbox, state', saved)
      BY <3>3, <1>3 DEF SInv, NoncesLieBelow, CountersOK
    <3> QED BY <3>1, <3>5, <3>6, <3>7, <3>8, <3>9, <1>1, <1>2 DEF SInv
  <2> QED BY <2>2, <2>3
<1> QED BY <1>1, <1>8, <1>9

(***************************************************************************)
(* So does every step.                                                     *)
(***************************************************************************)
LEMMA SavedNextOK == SInv /\ [SavedNext]_savedVars => SInv'
<1> SUFFICES ASSUME SInv, [SavedNext]_savedVars PROVE SInv'
  OBVIOUS
<1>1. CASE UNCHANGED savedVars
  <2>1. /\ state' = state /\ handed' = handed /\ saved' = saved
        /\ outbox' = outbox /\ pairs' = pairs
    BY <1>1 DEF savedVars, vars, hostVars
  <2>2. Sent' = Sent /\ Items' = Items
    BY <2>1 DEF Sent, Items, Encrypted
  <2> QED BY <2>1, <2>2 DEF SInv
<1>2. ASSUME NEW p \in Party, Save(p) PROVE SInv'
  BY <1>2, SaveStep
<1>3. ASSUME NEW p \in Party, EncryptToOutbox(p) PROVE SInv'
  BY <1>3, OutboxStep
<1>4. ASSUME NEW p \in Party, Send(p) PROVE SInv'
  BY <1>4, SendStep
<1>5. ASSUME NEW p \in Party, Restart(p) PROVE SInv'
  BY <1>5, RestartStep
<1>6. ASSUME NEW p \in Party, NEW m \in Sent, DecryptHanded(p, m) PROVE SInv'
  BY <1>6, DecryptSavedStep
<1>7. ASSUME NEW p \in Party, NEW m \in Sent, DecryptedNull(p, m) PROVE SInv'
  BY <1>7, DecryptSavedStep
<1> QED BY <1>1, <1>2, <1>3, <1>4, <1>5, <1>6, <1>7 DEF SavedNext

(***************************************************************************)
(* SInv is an inductive invariant of sessions that are saved and restored. *)
(***************************************************************************)
THEOREM SavedInvariance == SavedSpec => []SInv
BY SavedInitOK, SavedNextOK, PTL DEF SavedSpec

-----------------------------------------------------------------------------
(* The properties of SavedSession that follow.                             *)

(***************************************************************************)
(* No crash, null or old copy makes encrypt use a nonce or a message key   *)
(* of a message that has been sent.                                        *)
(***************************************************************************)
THEOREM NothingIsUsedTwice == SavedSpec => []NothingUsedTwice
<1>1. SInv => NothingUsedTwice
  <2> SUFFICES ASSUME SInv, NEW p \in Party, outbox[p] # None, NEW m \in Sent
               PROVE  m.nonce # outbox[p].nonce /\ m.mk # outbox[p].mk
    BY DEF NothingUsedTwice
  <2> DEFINE o == outbox[p]
  <2>1. m \in Items /\ o \in Items
    BY DEF Items, Encrypted
  <2>2. /\ m.nonce.counter \in Nat /\ o.nonce.counter \in Nat
        /\ m.mk[3] \in Nat /\ o.mk[3] \in Nat
    BY <2>1 DEF SInv, MessagesOK, ItemOK
  <2>3. /\ Sender(o) = p
        /\ Sender(m) = p => m.nonce.counter < o.nonce.counter
    BY DEF SInv, NoncesLieBelow, CountersOK
  <2> HIDE DEF o
  <2>4. m.nonce # o.nonce
    BY <2>2, <2>3 DEF Sender
  <2>5. ASSUME m.mk = o.mk PROVE FALSE
    <3>1. Place(m) = Place(o)
      <4>1. /\ Place(m) \in Places(Items, state, saved)
            /\ Place(o) \in Places(Items, state, saved)
        BY <2>1 DEF Places
      <4>2. Place(m)[1] = Place(o)[1]
        BY <2>5 DEF Place
      <4> QED BY <4>1, <4>2 DEF SInv, MessagesOK, PlacesOK
    <3>2. /\ Sender(m) = p
          /\ m.mk[3] - m.nonce.counter = o.mk[3] - o.nonce.counter
      BY <3>1, <2>3 DEF Place
    <3> QED BY <3>2, <2>2, <2>3, <2>5
  <2> QED BY <2>4, <2>5 DEF o
<1> QED BY <1>1, SavedInvariance, PTL

(***************************************************************************)
(* The roots that a copy leads to.                                         *)
(***************************************************************************)
LEMMA RootsFromLeads ==
    ASSUME NEW c, NEW root \in RootsFrom(c)
    PROVE  LeadsTo(c, root)
<1>1. ASSUME NEW roots, NEW r \in NextRoots(c, roots)
      PROVE  r # SharedSecret /\ c.dh_pair \in r[3] /\ r[2] \in roots
  <2>1. PICK rk \in roots, k \in PublicKeys : r = <<"okm", rk, {c.dh_pair, k}>>
    BY <1>1 DEF NextRoots, KdfRkHe, DH
  <2> QED BY <2>1 DEF SharedSecret
<1>2. root \in NextRoots(c, {c.rk}) \/ root \in NextRoots(c, NextRoots(c, {c.rk}))
  BY DEF RootsFrom
<1> QED BY <1>1, <1>2 DEF LeadsTo

(***************************************************************************)
(* The chains of p are none of the peer's.                                 *)
(***************************************************************************)
LEMMA ChainsOfOneParty ==
    ASSUME SInv, NEW p \in Party, NEW s, NEW root, FromPeer(Sent, p, s, root)
    PROVE  /\ \A m \in Items : m.mk[2] = root => Sender(m) # p
           /\ Begun(state[p]) => state[p].rk # root
           /\ Begun(saved[p]) => saved[p].rk # root
<1>1. PICK k \in Sent : Sender(k) = Peer(p) /\ k.mk[2] = root
  BY DEF FromPeer
<1>2. Place(k) \in Places(Items, state, saved) /\ Peer(p) # p
  BY TwoParties DEF Places, Items, Encrypted
<1>3. ASSUME NEW x \in Places(Items, state, saved), x[1] = root
      PROVE  x[2] # p
  BY <1>1, <1>2, <1>3 DEF SInv, MessagesOK, PlacesOK, Place
<1>4. ASSUME NEW m \in Items, m.mk[2] = root PROVE Sender(m) # p
  <2>1. Place(m) \in Places(Items, state, saved) /\ Place(m)[1] = root
    BY <1>4 DEF Places, Place
  <2> QED BY <2>1, <1>3 DEF Place
<1>5. ASSUME Begun(state[p]), state[p].rk = root PROVE FALSE
  <2>1. PlaceOf(p, state[p]) \in Places(Items, state, saved)
    BY <1>5 DEF Places
  <2> QED BY <2>1, <1>3, <1>5 DEF PlaceOf
<1>6. ASSUME Begun(saved[p]), saved[p].rk = root PROVE FALSE
  <2>1. PlaceOf(p, saved[p]) \in Places(Items, state, saved)
    BY <1>6 DEF Places
  <2> QED BY <2>1, <1>3, <1>6 DEF PlaceOf
<1> QED BY <1>4, <1>5, <1>6

(***************************************************************************)
(* What a copy has to reveal.                                              *)
(***************************************************************************)
LEMMA RevealedFrom ==
    ASSUME NEW p \in Party, NEW c, NEW mk,
           CopyOK(pairs, Sent, p, c), SavedStoreOK(Sent, p, c), Reveals(c, mk)
    PROVE  \/ FromPeer(Sent, p, c, mk[2])
           \/ LeadsTo(c, mk[2])
           \/ Begun(c) /\ mk[2] = c.rk /\ c.ck_s[2] <= mk[3]
<1>2. CASE \E e \in c.mkskipped : e[2].mk = mk
  BY <1>2 DEF SavedStoreOK
<1>3. CASE mk[2] \in RootsFrom(c)
  BY <1>3, RootsFromLeads
<1>4. ASSUME c.ck_s # None, c.ck_s[1] = mk[2], c.ck_s[2] <= mk[3]
      PROVE  Begun(c) /\ mk[2] = c.rk /\ c.ck_s[2] <= mk[3]
  <2>1. Begun(c)
    BY <1>4 DEF CopyOK, NotBegun
  <2>2. c.ck_s = <<c.rk, c.ck_s[2]>>
    BY <2>1 DEF CopyOK, ChainOK
  <2>3. c.ck_s[1] = c.rk
    BY <2>2
  <2> QED BY <2>1, <2>3, <1>4
<1>5. ASSUME c.ck_r # None, c.ck_r[1] = mk[2]
      PROVE  FromPeer(Sent, p, c, mk[2])
  BY <1>5 DEF CopyOK
<1>6. \/ \E e \in c.mkskipped : e[2].mk = mk
      \/ mk[2] \in RootsFrom(c)
      \/ c.ck_s # None /\ c.ck_s[1] = mk[2] /\ c.ck_s[2] <= mk[3]
      \/ c.ck_r # None /\ c.ck_r[1] = mk[2]
  BY DEF Reveals
<1> QED BY <1>2, <1>3, <1>4, <1>5, <1>6

(***************************************************************************)
(* A copy leads to no key of a message that had been encrypted when it was *)
(* made, whatever DH ratchets came in between.                             *)
(***************************************************************************)
THEOREM CopiesKeepTheSecret == SavedSpec => []SentStaySecret
<1>1. SInv => SentStaySecret
  <2> SUFFICES ASSUME SInv, NEW p \in Party, NEW m \in Sent, Sender(m) = p,
                      m.nonce.counter < saved[p].header_nonce_counter,
                      Reveals(saved[p], m.mk)
               PROVE  FALSE
    BY DEF SentStaySecret
  <2> DEFINE c == saved[p]
  <2>1. m \in Items
    BY DEF Items, Encrypted
  <2>2. ~FromPeer(Sent, p, c, m.mk[2])
    BY <2>1, ChainsOfOneParty
  <2>3. ~LeadsTo(c, m.mk[2])
    BY <2>1 DEF SInv, PastsOK, PastOK
  <2>4. Begun(c) /\ m.mk[2] = c.rk /\ c.ck_s[2] <= m.mk[3]
    <3>1. CopyOK(pairs, Sent, p, c) /\ SavedStoreOK(Sent, p, c)
      BY DEF SInv, CopiesOK, KeptKeysOK
    <3>2. Reveals(c, m.mk)
      OBVIOUS
    <3> HIDE DEF c
    <3> QED BY <2>2, <2>3, <3>1, <3>2, RevealedFrom
  <2>5. /\ c.header_nonce_counter \in Nat /\ m.nonce.counter \in Nat
        /\ m.mk[3] \in Nat /\ c.ck_s[2] \in Nat
    BY <2>1, <2>4 DEF SInv, MessagesOK, ItemOK, CopiesOK, CopyOK, ChainOK
  <2> HIDE DEF c
  <2>6. Place(m) = PlaceOf(p, c)
    <3>1. /\ Place(m) \in Places(Items, state, saved)
          /\ PlaceOf(p, c) \in Places(Items, state, saved)
      BY <2>1, <2>4 DEF Places, c
    <3>2. Place(m)[1] = PlaceOf(p, c)[1]
      BY <2>4 DEF Place, PlaceOf
    <3> QED BY <3>1, <3>2 DEF SInv, MessagesOK, PlacesOK
  <2>7. m.mk[3] - m.nonce.counter = c.ck_s[2] - c.header_nonce_counter
    BY <2>6 DEF Place, PlaceOf
  <2>8. m.nonce.counter < c.header_nonce_counter
    BY DEF c
  <2> QED BY <2>4, <2>5, <2>7, <2>8
<1> QED BY <1>1, SavedInvariance, PTL

-----------------------------------------------------------------------------
(* Copies that are kept while the parties go on: CopiedSession.            *)

(***************************************************************************)
(* What is said of saved sessions holds of their copies.                   *)
(***************************************************************************)
KeptCopiesOK(prs, sent, cp) ==
    /\ DOMAIN cp = Party
    /\ \A p \in Party : cp[p] # None =>
          CopyOK(prs, sent, p, cp[p]) /\ SavedStoreOK(sent, p, cp[p])

CInv == SInv /\ KeptCopiesOK(pairs, Sent, copied)

(***************************************************************************)
(* Messages that were sent stay sent, and key pairs that were drawn stay   *)
(* drawn.                                                                  *)
(***************************************************************************)
LEMMA SentAndDrawnGrow ==
    ASSUME SInv, [SavedNext]_savedVars
    PROVE  /\ Sent \subseteq Sent'
           /\ \A q \in Party : pairs[q] \in Nat /\ pairs'[q] \in Nat /\ pairs[q] <= pairs'[q]
<1>1. pairs \in [Party -> Nat]
  BY DEF SInv, PairsOK
<1>2. ASSUME handed' = handed, pairs' = pairs
      PROVE  /\ Sent \subseteq Sent'
             /\ \A q \in Party : pairs'[q] \in Nat /\ pairs[q] <= pairs'[q]
  BY <1>1, <1>2 DEF Sent
<1>3. CASE UNCHANGED savedVars
  BY <1>1, <1>2, <1>3 DEF savedVars, vars, hostVars
<1>4. ASSUME NEW p \in Party, Save(p) \/ EncryptToOutbox(p) \/ Restart(p)
      PROVE  handed' = handed /\ pairs' = pairs
  BY <1>4 DEF Save, EncryptToOutbox, Restart, vars
<1>5. ASSUME NEW p \in Party, Send(p)
      PROVE  Sent \subseteq Sent' /\ pairs' = pairs
  BY <1>5 DEF Send, Sent
<1>6. ASSUME NEW p \in Party, NEW m \in Sent, DecryptHanded(p, m) \/ DecryptedNull(p, m)
      PROVE  /\ Sent \subseteq Sent'
             /\ \A q \in Party : pairs'[q] \in Nat /\ pairs[q] <= pairs'[q]
  <2>1. DrawsPair(p) /\ Sent' = Sent
    BY <1>6, DecryptState
  <2>2. pairs' = pairs \/ pairs' = [pairs EXCEPT ![p] = @ + 1]
    BY <1>1, <2>1 DEF DrawsPair
  <2> QED BY <1>1, <2>1, <2>2
<1> QED BY <1>1, <1>2, <1>3, <1>4, <1>5, <1>6 DEF SavedNext

(***************************************************************************)
(* CInv is an inductive invariant of sessions some of whose copies are     *)
(* kept.                                                                   *)
(***************************************************************************)
THEOREM CopiedInvariance == CopiedSpec => []CInv
<1>1. CopiedInit => CInv
  BY SavedInitOK DEF CopiedInit, CInv, KeptCopiesOK
<1>2. CInv /\ [CopiedNext]_copiedVars => CInv'
  <2> SUFFICES ASSUME CInv, [CopiedNext]_copiedVars PROVE CInv'
    OBVIOUS
  <2>1. SInv /\ DOMAIN copied = Party
    BY DEF CInv, KeptCopiesOK
  <2>2. CASE [SavedNext]_savedVars /\ copied' = copied
    <3>1. SInv'
      BY <2>1, <2>2, SavedNextOK
    <3>2. /\ Sent \subseteq Sent'
          /\ \A q \in Party : pairs[q] \in Nat /\ pairs'[q] \in Nat /\ pairs[q] <= pairs'[q]
      BY <2>1, <2>2, SentAndDrawnGrow
    <3>3. ASSUME NEW p \in Party, copied[p] # None
          PROVE  /\ CopyOK(pairs', Sent', p, copied[p])
                 /\ SavedStoreOK(Sent', p, copied[p])
      <4>1. CopyOK(pairs, Sent, p, copied[p]) /\ SavedStoreOK(Sent, p, copied[p])
        BY <3>3 DEF CInv, KeptCopiesOK
      <4>2. CopyOK(pairs', Sent', p, copied[p])
        BY <3>2, <4>1, CopyStays
      <4>3. SavedStoreOK(Sent', p, copied[p])
        BY <3>2, <4>1, FromPeerStays DEF SavedStoreOK
      <4> QED BY <4>2, <4>3
    <3> QED BY <2>1, <2>2, <3>1, <3>3 DEF CInv, KeptCopiesOK
  <2>3. ASSUME NEW p \in Party, CopyDisk(p) PROVE CInv'
    <3>1. /\ state' = state /\ handed' = handed /\ saved' = saved
          /\ outbox' = outbox /\ pairs' = pairs
          /\ copied' = [copied EXCEPT ![p] = saved[p]]
      BY <2>3 DEF CopyDisk, savedVars, vars, hostVars
    <3>2. Sent' = Sent /\ Items' = Items
      BY <3>1 DEF Sent, Items, Encrypted
    <3>3. SInv'
      BY <2>1, <3>1, <3>2 DEF SInv
    <3>4. CopyOK(pairs, Sent, p, saved[p]) /\ SavedStoreOK(Sent, p, saved[p])
      BY <2>1 DEF SInv, CopiesOK, KeptKeysOK
    <3>5. KeptCopiesOK(pairs, Sent, copied')
      BY <2>1, <3>1, <3>4 DEF CInv, KeptCopiesOK
    <3> QED BY <3>1, <3>2, <3>3, <3>5 DEF CInv
  <2>4. UNCHANGED copiedVars => [SavedNext]_savedVars /\ copied' = copied
    BY DEF copiedVars
  <2> QED BY <2>2, <2>3, <2>4 DEF CopiedNext
<1> QED BY <1>1, <1>2, PTL DEF CopiedSpec

(***************************************************************************)
(* A copy does not lead to a chain under a root that was derived from key  *)
(* pairs which it does not have.                                           *)
(***************************************************************************)
LEMMA NotLedOn ==
    ASSUME NEW p \in Party, NEW c, NEW mk,
           CopyOK(pairs, Sent, p, c), SavedStoreOK(Sent, p, c),
           ~FromPeer(Sent, p, c, mk[2]), c.dh_pair \notin mk[2][3]
    PROVE  ~LeadsOn(c, mk)
<1>1. ~LeadsTo(c, mk[2])
  BY DEF LeadsTo
<1>2. ASSUME Begun(c), mk[2] = c.rk PROVE FALSE
  <2>1. c.rk = <<"okm", c.rk[2], {c.dh_pair, c.dh_remote}>>
    BY <1>2 DEF CopyOK, ChainOK
  <2>2. c.dh_pair \in c.rk[3]
    BY <2>1
  <2> QED BY <2>2, <1>2
<1>3. ASSUME NEW roots, mk[2] \in NextRoots(c, roots) PROVE FALSE
  <2>1. PICK rk \in roots, k \in PublicKeys : mk[2] = <<"okm", rk, {c.dh_pair, k}>>
    BY <1>3 DEF NextRoots, KdfRkHe, DH
  <2>2. c.dh_pair \in mk[2][3]
    BY <2>1
  <2> QED BY <2>2
<1> QED BY <1>1, <1>2, <1>3, RevealedFrom DEF LeadsOn

(***************************************************************************)
(* Once a party has ratcheted with a key pair that a copy does not have,   *)
(* the copy does not lead to what the party encrypts.                      *)
(***************************************************************************)
THEOREM CopiesHeal == CopiedSpec => []CopyHeals
<1>1. CInv => CopyHeals
  <2> SUFFICES ASSUME CInv, NEW p \in Party, copied[p] # None,
                      state[p].dh_pair[2] > copied[p].dh_pair[2]
               PROVE  ~LeadsOn(copied[p], KdfCk(state[p].ck_s).mk)
    BY DEF CopyHeals
  <2> DEFINE c == copied[p]
             s == state[p]
  <2>1. /\ SInv /\ CopyOK(pairs, Sent, p, c) /\ SavedStoreOK(Sent, p, c)
        /\ CopyOK(pairs, Sent, p, s) /\ Peer(p) # p
    BY TwoParties DEF CInv, KeptCopiesOK, SInv, CopiesOK
  <2>2. /\ c.dh_pair = <<p, c.dh_pair[2]>> /\ c.dh_pair[2] \in Nat
        /\ s.dh_pair = <<p, s.dh_pair[2]>> /\ s.dh_pair[2] \in Nat
    BY <2>1 DEF CopyOK, Key
  <2>3. Begun(s)
    BY <2>1, <2>2 DEF CopyOK, NotBegun
  <2>4. ChainOK(pairs, p, s)
    BY <2>1, <2>3 DEF CopyOK
  <2>5. ~FromPeer(Sent, p, c, s.rk)
    BY <2>1, <2>3, ChainsOfOneParty
  <2>6. s.dh_pair[2] > c.dh_pair[2]
    OBVIOUS
  <2> HIDE DEF s, c
  <2>7. KdfCk(s.ck_s).mk[2] = s.rk
    <3>1. s.ck_s[1] = s.rk
      BY <2>4 DEF ChainOK
    <3> QED BY <3>1 DEF KdfCk
  <2>8. c.dh_pair \notin s.rk[3]
    <3>1. s.rk[3] = {s.dh_pair, s.dh_remote} /\ s.dh_remote = <<Peer(p), s.dh_remote[2]>>
      BY <2>4 DEF ChainOK, Key
    <3> QED BY <3>1, <2>1, <2>2, <2>6
  <2>9. ~LeadsOn(c, KdfCk(s.ck_s).mk)
    BY <2>1, <2>5, <2>7, <2>8, NotLedOn
  <2> QED BY <2>9 DEF c, s
<1> QED BY <1>1, CopiedInvariance, PTL

(***************************************************************************)
(* Once the peer has ratcheted on such a key pair, the copy does not lead  *)
(* to what the peer encrypts.                                              *)
(***************************************************************************)
THEOREM CopiesHealForThePeer == CopiedSpec => []PeerHeals
<1>1. CInv => PeerHeals
  <2> SUFFICES ASSUME CInv, NEW p \in Party, copied[p] # None,
                      state[Peer(p)].dh_remote # None,
                      state[Peer(p)].dh_remote[2] > copied[p].dh_pair[2]
               PROVE  ~LeadsOn(copied[p], KdfCk(state[Peer(p)].ck_s).mk)
    BY DEF PeerHeals
  <2> DEFINE c == copied[p]
             o == state[Peer(p)]
  <2>1. Peer(p) \in Party /\ Peer(p) # p /\ Peer(Peer(p)) = p
    BY TwoParties
  <2>2. /\ CopyOK(pairs, Sent, p, c) /\ SavedStoreOK(Sent, p, c)
        /\ CopyOK(pairs, Sent, Peer(p), o)
    BY <2>1 DEF CInv, KeptCopiesOK, SInv, CopiesOK
  <2>3. /\ c.dh_pair = <<p, c.dh_pair[2]>> /\ c.dh_pair[2] \in Nat
        /\ o.dh_pair = <<Peer(p), o.dh_pair[2]>>
    BY <2>1, <2>2 DEF CopyOK, Key
  <2>4. Begun(o)
    BY <2>2 DEF CopyOK, NotBegun
  <2>5. ChainOK(pairs, Peer(p), o)
    BY <2>2, <2>4 DEF CopyOK
  <2>6. o.dh_remote[2] > c.dh_pair[2]
    OBVIOUS
  <2> HIDE DEF o, c
  <2>7. KdfCk(o.ck_s).mk[2] = o.rk
    <3>1. o.ck_s[1] = o.rk
      BY <2>5 DEF ChainOK
    <3> QED BY <3>1 DEF KdfCk
  <2>8. /\ o.rk[3] = {o.dh_pair, o.dh_remote}
        /\ o.dh_remote = <<p, o.dh_remote[2]>>
    BY <2>5, <2>1 DEF ChainOK, Key
  <2>9. ~FromPeer(Sent, p, c, o.rk)
    <3>1. o.dh_remote \in o.rk[3] /\ o.dh_remote[1] = p
      BY <2>8
    <3>2. o.dh_remote[2] \notin 0 .. c.dh_pair[2]
      BY <2>3, <2>6
    <3> QED BY <3>1, <3>2 DEF FromPeer
  <2>10. c.dh_pair \notin o.rk[3]
    BY <2>8, <2>1, <2>3, <2>6
  <2>11. ~LeadsOn(c, KdfCk(o.ck_s).mk)
    BY <2>2, <2>7, <2>9, <2>10, NotLedOn
  <2> QED BY <2>11 DEF c, o
<1> QED BY <1>1, CopiedInvariance, PTL

-----------------------------------------------------------------------------
(* Both parties at once, wherever each of them would start from.           *)

(***************************************************************************)
(* A message number and the position of the chain key move together.       *)
(***************************************************************************)
InNumber(s) ==
    /\ DOMAIN s = SessionFields
    /\ s.ns \in Nat /\ s.nr \in Nat /\ s.pn \in Nat
    /\ s.ck_s # None => s.ck_s[2] = s.ns
    /\ s.ck_r # None => s.ck_r[2] = s.nr

(***************************************************************************)
(* Two sessions, st, that agree with each other and with the messages      *)
(* msgs, as those of AInv do.                                              *)
(***************************************************************************)
KeptFit(msgs, st, p) ==
    /\ \A k \in DOMAIN st[p].mkskipped : EntryOK(st, k)
    /\ Genuine(st[p].mkskipped, p, msgs)

Plain(m) == m.hk # None /\ m.n \in Nat /\ m.pn \in Nat

Aligned(msgs, st) ==
    /\ KeysOK(st)
    /\ \A m \in msgs : Plain(m) /\ MessageOK(st, m)
    /\ \E l \in Party : Turn(st, l) /\ \A m \in msgs : PreviousOK(st, l, m)

Agree(msgs, st) ==
    /\ \A p \in Party : InNumber(st[p]) /\ KeptFit(msgs, st, p)
    /\ Aligned(msgs, st)

(***************************************************************************)
(* The sessions in memory, but for the parties of d those that they would  *)
(* start from after a crash; and what the sessions st have encrypted.      *)
(***************************************************************************)
View(d) == [p \in Party |-> IF p \in d THEN Deserialized(saved[p]) ELSE state[p]]

EncryptedBy(items, st) ==
    {m \in items : m.nonce.counter < st[Sender(m)].header_nonce_counter}

ViewsAgree == \A d \in SUBSET Party : Agree(EncryptedBy(Items, View(d)), View(d))

(***************************************************************************)
(* No two messages share their key or their id, sent or not.               *)
(***************************************************************************)
ItemsDistinct ==
    \A m1, m2 \in Items : m1.mk = m2.mk \/ MessageId(m1) = MessageId(m2) => m1 = m2

(***************************************************************************)
(* The inductive invariant of InStep.                                      *)
(***************************************************************************)
ViewsInv ==
    /\ SInv
    /\ ViewsAgree
    /\ ItemsDistinct

-----------------------------------------------------------------------------
(* One party moves, in whatever view of the two.                           *)

(***************************************************************************)
(* In st2 the session of p has become c.                                   *)
(***************************************************************************)
Moves(st, p, c, st2) ==
    /\ st2[p] = c
    /\ \A q \in Party \ {p} : st2[q] = st[q]

(***************************************************************************)
(* Sessions agree with fewer messages all the more.                        *)
(***************************************************************************)
LEMMA FewerMessages ==
    ASSUME NEW msgs, NEW st, Agree(msgs, st), NEW fewer \in SUBSET msgs
    PROVE  Agree(fewer, st)
<1>1. Aligned(fewer, st)
  BY DEF Agree, Aligned
<1>2. \A p \in Party : KeptFit(fewer, st, p)
  BY DEF Agree, KeptFit, Genuine
<1> QED BY <1>1, <1>2 DEF Agree

(***************************************************************************)
(* A step that derives no root key.                                        *)
(***************************************************************************)
LEMMA QuietAligned ==
    ASSUME NoneIsNoKey, NEW msgs, NEW st, NEW st2, Aligned(msgs, st),
           \A p \in Party : Quiet(st[p], st2[p]),
           \A l \in Party : Turn(st, l) /\ (\A m \in msgs : PreviousOK(st, l, m))
               => Leads(st2[l], st2[Peer(l)])
    PROVE  /\ Aligned(msgs, st2)
           /\ \A k : EntryOK(st, k) => EntryOK(st2, k)
<1>1. PICK l \in Party : Turn(st, l) /\ \A m \in msgs : PreviousOK(st, l, m)
  BY DEF Aligned
<1>2. /\ KeysOK(st2)
      /\ Turn(st2, l)
      /\ \A m : MessageOK(st, m) /\ m.n \in Nat => MessageOK(st2, m)
      /\ \A m : m.hk # None /\ PreviousOK(st, l, m) => PreviousOK(st2, l, m)
      /\ \A k : EntryOK(st, k) => EntryOK(st2, k)
  BY <1>1, QuietStep DEF Aligned
<1> QED BY <1>1, <1>2 DEF Aligned, Plain

(***************************************************************************)
(* A key leaves the store.                                                 *)
(***************************************************************************)
LEMMA StoreShrinksInView ==
    ASSUME NoneIsNoKey, NEW msgs, NEW st, NEW st2, Agree(msgs, st),
           NEW p \in Party, NEW c, Moves(st, p, c, st2),
           StoreShrinks(st[p], c), DOMAIN c = SessionFields
    PROVE  Agree(msgs, st2)
<1>1. \A q \in Party : StoreShrinks(st[q], st2[q])
  BY DEF StoreShrinks, Moves
<1>2. \A q \in Party :
         /\ st2[q].dh_pair = st[q].dh_pair
         /\ st2[q].dh_remote = st[q].dh_remote
         /\ st2[q].rk = st[q].rk /\ st2[q].pn = st[q].pn
         /\ st2[q].hk_s = st[q].hk_s /\ st2[q].hk_r = st[q].hk_r
         /\ st2[q].nhk_s = st[q].nhk_s /\ st2[q].nhk_r = st[q].nhk_r
         /\ st2[q].ns = st[q].ns /\ st2[q].nr = st[q].nr
         /\ st2[q].ck_s = st[q].ck_s /\ st2[q].ck_r = st[q].ck_r
  BY <1>1 DEF StoreShrinks, SessionFields
<1>3. \A q \in Party : InNumber(st2[q])
  BY <1>2 DEF Agree, InNumber, Moves
<1>4. \A q \in Party : Quiet(st[q], st2[q])
  BY <1>2 DEF Quiet, MovesOn, Agree, InNumber
<1>5. \A l \in Party : Turn(st, l) => Leads(st2[l], st2[Peer(l)])
  BY <1>2, TwoParties DEF Turn, Leads
<1>6. Aligned(msgs, st2) /\ \A k : EntryOK(st, k) => EntryOK(st2, k)
  BY <1>4, <1>5, QuietAligned DEF Agree
<1>7. ASSUME NEW q \in Party PROVE KeptFit(msgs, st2, q)
  <2>1. /\ DOMAIN st2[q].mkskipped \subseteq DOMAIN st[q].mkskipped
        /\ \A k \in DOMAIN st2[q].mkskipped : st2[q].mkskipped[k] = st[q].mkskipped[k]
    BY <1>1 DEF StoreShrinks
  <2>2. KeptFit(msgs, st, q)
    BY DEF Agree
  <2> QED BY <2>1, <2>2, <1>6 DEF KeptFit, Genuine
<1> QED BY <1>3, <1>6, <1>7 DEF Agree

(***************************************************************************)
(* The chain a party receives on, as in ReceivingChain.                    *)
(***************************************************************************)
LEMMA ReceivingChainInView ==
    ASSUME NEW st, KeysOK(st), NEW l \in Party, Turn(st, l),
           NEW p \in Party, NEW m, Plain(m), MessageOK(st, m), PreviousOK(st, l, m),
           m.hk = st[p].hk_r
    PROVE  /\ Sender(m) = Peer(p)
           /\ st[p].ck_r # None
           /\ m.mk[2] = st[p].ck_r[1]
           /\ m.n < IF p = l THEN st[Peer(l)].ns ELSE st[l].pn
<1>1. st[p].ck_r # None
  BY DEF Plain, KeysOK, OwnKeysOK
<1>2. CASE p = l
  <2> DEFINE b == st[Peer(l)]
  <2>1. m.hk = b.hk_s
    BY <1>2 DEF Turn, Leads
  <2>2. SentOn(m, Peer(l), b)
    BY <2>1, TwoParties DEF MessageOK, Current
  <2>3. st[l].ck_r[1] = b.ck_s[1]
    BY <1>1, <1>2 DEF Turn, Leads
  <2> QED BY <1>1, <1>2, <2>2, <2>3 DEF SentOn
<1>3. CASE p # l
  BY <1>1, <1>3, TwoParties DEF PreviousOK
<1> QED BY <1>2, <1>3

(***************************************************************************)
(* A message that is authentic on the current chain does not lie below nr, *)
(* since the key at nr would not be its own.                               *)
(***************************************************************************)
LEMMA NumberIsAhead ==
    ASSUME NEW s, InNumber(s), s.ck_r # None,
           NEW m, m.n \in Nat, m.mk = <<"mk", m.mk[2], m.n>>,
           Admitted(s, m), ~DhRatchetNeeded(s, m)
    PROVE  s.nr <= m.n
<1> DEFINE steps == IF m.n > s.nr THEN m.n - s.nr ELSE 0
<1>1. s.ck_r[2] = s.nr /\ s.nr \in Nat
  BY DEF InNumber
<1>2. ComputeMessageKey(s, m) = m.mk
  BY AdmittedGuards
<1>3. ComputeMessageKey(s, m) = <<"mk", s.ck_r[1], s.ck_r[2] + steps>>
  BY DEF ComputeMessageKey, ReceivingFrom, KdfCk, KdfCkIter
<1> HIDE DEF steps
<1>4. m.n = s.ck_r[2] + steps
  BY <1>2, <1>3
<1> QED BY <1>1, <1>4 DEF steps

(***************************************************************************)
(* After a commit at most the message is tracked in addition.              *)
(***************************************************************************)
LEMMA CommittingTracks ==
    ASSUME NEW s, NEW m, NEW fresh, NEW c, Committing(s, m, fresh, c),
           DOMAIN s = SessionFields
    PROVE  c.received_messages
              \subseteq Committed(s, m, fresh).received_messages \cup {MessageId(m)}
<1> DEFINE next == Committed(s, m, fresh)
<1>1. CASE c = next
  BY <1>1
<1>2. CASE c = Tracked(next, m)
  <2>1. DOMAIN c = SessionFields
    BY CommittingFields
  <2> HIDE DEF next
  <2>2. "received_messages" \in DOMAIN next
    BY <1>2, <2>1 DEF Tracked, SessionFields
  <2>3. c.received_messages = next.received_messages \cup {MessageId(m)}
    BY <1>2, <2>2 DEF Tracked
  <2> QED BY <2>3 DEF next
<1> QED BY <1>1, <1>2 DEF Committing

(***************************************************************************)
(* What a commit without a DH ratchet makes of the session.                *)
(***************************************************************************)
LEMMA CommittingOnChain ==
    ASSUME NEW s, InNumber(s), s.ck_r # None, NEW m, m.n \in Nat,
           NEW fresh, NEW c, Committing(s, m, fresh, c), ~DhRatchetNeeded(s, m)
    PROVE  /\ InNumber(c)
           /\ c.ck_r = <<s.ck_r[1], s.nr + 1>>
           /\ c.nr = s.nr + 1
           /\ c.mkskipped = SkipMessageKeys(s.mkskipped, s.ck_r, s.hk_r, s.nr, m.n)
           /\ \A f \in SessionFields \ {"ck_r", "nr", "mkskipped", "received_messages"} :
                 c[f] = s[f]
           /\ c.received_messages \subseteq s.received_messages \cup {MessageId(m)}
<1> DEFINE next == Committed(s, m, fresh)
           store == SkipMessageKeys(s.mkskipped, s.ck_r, s.hk_r, s.nr, m.n)
<1>1. DOMAIN s = SessionFields /\ s.ck_r[2] = s.nr /\ s.nr \in Nat
  BY DEF InNumber
<1>2. /\ next.ck_r = <<s.ck_r[1], s.ck_r[2] + 1>>
      /\ next.nr = s.nr + 1
      /\ next.mkskipped = store
      /\ \A f \in SessionFields \ {"ck_r", "nr", "mkskipped"} : next[f] = s[f]
  BY <1>1, CommittedOnChain
<1>3. /\ DOMAIN c = SessionFields
      /\ \A f \in SessionFields \ {"received_messages"} : c[f] = next[f]
  BY <1>1, CommittingFields
<1>4. c.received_messages \subseteq next.received_messages \cup {MessageId(m)}
  BY <1>1, CommittingTracks
<1> HIDE DEF next, store
<1>5. /\ c.ck_r = <<s.ck_r[1], s.nr + 1>> /\ c.nr = s.nr + 1 /\ c.mkskipped = store
      /\ \A f \in SessionFields \ {"ck_r", "nr", "mkskipped", "received_messages"} :
            c[f] = s[f]
      /\ next.received_messages = s.received_messages
  BY <1>1, <1>2, <1>3 DEF SessionFields
<1>6. InNumber(c)
  BY <1>1, <1>3, <1>5 DEF InNumber, SessionFields
<1> QED BY <1>4, <1>5, <1>6 DEF store

(***************************************************************************)
(* A commit without a DH ratchet.                                          *)
(***************************************************************************)
LEMMA OnChainInView ==
    ASSUME NoneIsNoKey, NEW msgs, NEW st, NEW st2, Agree(msgs, st),
           NEW p \in Party, NEW m \in msgs, NEW c, NEW fresh,
           Admitted(st[p], m), ~DhRatchetNeeded(st[p], m),
           Committing(st[p], m, fresh, c), Moves(st, p, c, st2)
    PROVE  Agree(msgs, st2)
<1> DEFINE s == st[p]
           store == SkipMessageKeys(s.mkskipped, s.ck_r, s.hk_r, s.nr, m.n)
<1>1. PICK l \in Party : Turn(st, l) /\ \A k \in msgs : PreviousOK(st, l, k)
  BY DEF Agree, Aligned
<1>2. /\ InNumber(s) /\ KeysOK(st) /\ OwnKeysOK(st, p)
      /\ \A k \in msgs : Plain(k) /\ MessageOK(st, k)
  BY DEF Agree, Aligned, KeysOK
<1>3. /\ m.hk = s.hk_r /\ m.n \in Nat /\ m.hk # None /\ s.nr \in Nat
      /\ m.mk = <<"mk", m.mk[2], m.n>>
  BY <1>2 DEF DhRatchetNeeded, Plain, MessageOK, InNumber
<1>4. s.ck_r # None /\ s.ck_r[2] = s.nr
  BY <1>2, <1>3 DEF OwnKeysOK, InNumber
<1>5. s.nr <= m.n
  BY <1>2, <1>3, <1>4, NumberIsAhead
<1>6. /\ InNumber(c)
      /\ c.ck_r = <<s.ck_r[1], s.nr + 1>>
      /\ c.nr = s.nr + 1
      /\ c.mkskipped = store
      /\ \A f \in SessionFields \ {"ck_r", "nr", "mkskipped", "received_messages"} :
            c[f] = s[f]
  <2> HIDE DEF s
  <2>1. Committing(s, m, fresh, c) /\ ~DhRatchetNeeded(s, m)
    BY DEF s
  <2> QED BY <1>2, <1>3, <1>4, <2>1, CommittingOnChain
<1> HIDE DEF store
<1>7. \A q \in Party : InNumber(st2[q])
  BY <1>6 DEF Agree, Moves
<1>8. \A q \in Party : Quiet(st[q], st2[q])
  <2>1. Quiet(s, c)
    BY <1>2, <1>4, <1>6 DEF Quiet, MovesOn, SessionFields, InNumber
  <2>2. \A q \in Party : Quiet(st[q], st[q])
    BY DEF Quiet, MovesOn, Agree, InNumber
  <2> QED BY <2>1, <2>2 DEF Moves
<1>9. ASSUME NEW k \in Party, Turn(st, k), \A j \in msgs : PreviousOK(st, k, j)
      PROVE  Leads(st2[k], st2[Peer(k)])
  <2> DEFINE a == st[k]
             b == st[Peer(k)]
             a2 == st2[k]
             b2 == st2[Peer(k)]
  <2>1. /\ a.ns \in Nat /\ b.ns \in Nat /\ a.nr \in Nat /\ b.nr \in Nat
        /\ a.pn \in Nat
        /\ Leads(a, b) /\ a.ck_s[2] >= a.ns /\ a.nr <= b.ns /\ b.nr <= a.pn
        /\ a.ck_r # None => a.ck_r[2] = a.nr
    BY <1>9, TwoParties DEF Turn, Leads, Agree, InNumber
  <2>2. /\ a2.ck_s = a.ck_s /\ a2.ns = a.ns /\ a2.pn = a.pn
        /\ b2.ns = b.ns
    BY <1>6, TwoParties DEF SessionFields, Moves
  <2>3. Quiet(a, a2) /\ Quiet(b, b2)
    BY <1>8, TwoParties
  <2>4. m.n < IF p = k THEN b.ns ELSE a.pn
    BY <1>2, <1>3, <1>9, ReceivingChainInView
  <2>5. /\ a2.nr <= b2.ns
        /\ b2.nr <= a2.pn
        /\ a2.ck_r # None => a2.ck_r[2] = a2.nr
    <3>1. CASE p = k
      <4>1. a2 = c /\ a = s /\ b2 = b /\ m.n < b.ns
        BY <3>1, <2>4, TwoParties DEF Moves
      <4> HIDE DEF a, b, a2, b2, s
      <4> QED BY <4>1, <1>3, <1>5, <1>6, <2>1, <2>2
    <3>2. CASE p # k
      <4>1. b2 = c /\ b = s /\ a2 = a /\ m.n < a.pn
        BY <3>2, <2>4, TwoParties DEF Moves
      <4> HIDE DEF a, b, a2, b2, s
      <4> QED BY <4>1, <1>3, <1>5, <1>6, <2>1, <2>2
    <3> QED BY <3>1, <3>2
  <2> HIDE DEF a, b, a2, b2
  <2>6. Leads(a2, b2)
    BY <2>1, <2>2, <2>3, <2>5, QuietLeads
  <2> QED BY <2>6 DEF a2, b2
<1>10. Aligned(msgs, st2) /\ \A k : EntryOK(st, k) => EntryOK(st2, k)
  BY <1>8, <1>9, QuietAligned DEF Agree
<1>11. /\ Genuine(store, p, msgs)
       /\ \A k \in DOMAIN store : EntryOK(st, k)
  <2>1. \A k \in msgs : /\ k.mk = <<"mk", k.mk[2], k.n>>
                        /\ k.hk = s.hk_r => k.mk[2] = s.ck_r[1] /\ Sender(k) = Peer(p)
    BY <1>1, <1>2, ReceivingChainInView DEF MessageOK
  <2>2. Genuine(s.mkskipped, p, msgs) /\ \A k \in DOMAIN s.mkskipped : EntryOK(st, k)
    BY DEF Agree, KeptFit
  <2>3. /\ Genuine(store, p, msgs)
        /\ \A k \in DOMAIN store : \/ k \in DOMAIN s.mkskipped
                                   \/ k = <<s.hk_r, k[2]>> /\ k[2] \in s.nr .. m.n - 1
    <3> HIDE DEF s
    <3>1. Genuine(store, p, msgs)
      BY <1>3, <1>4, <2>1, <2>2, SkipKeepsGenuine DEF store
    <3>2. HoldsSkipped(store, s.mkskipped, s.ck_r, s.hk_r, s.nr, m.n)
      BY <1>3, SkipMessageKeysEntries DEF store
    <3> QED BY <3>1, <3>2 DEF HoldsSkipped
  <2>4. ASSUME NEW n \in s.nr .. m.n - 1 PROVE EntryOK(st, <<m.hk, n>>)
    <3>1. n \in Nat /\ n <= m.n
      BY <1>3
    <3>2. \A q \in Party : st[q].ns \in Nat
      BY DEF Agree, InNumber
    <3> QED BY <3>1, <3>2, <1>2, <1>3, NumberMayBeStored
  <2>5. ASSUME NEW k \in DOMAIN store PROVE EntryOK(st, k)
    <3>1. CASE k \in DOMAIN s.mkskipped
      BY <3>1, <2>2
    <3>2. CASE k = <<s.hk_r, k[2]>> /\ k[2] \in s.nr .. m.n - 1
      BY <3>2, <2>4, <1>3, Zenon
    <3> QED BY <3>1, <3>2, <2>3
  <2> QED BY <2>3, <2>5
<1>12. ASSUME NEW q \in Party PROVE KeptFit(msgs, st2, q)
  <2>1. CASE q = p
    BY <2>1, <1>6, <1>10, <1>11 DEF KeptFit, Moves
  <2>2. CASE q # p
    BY <2>2, <1>10 DEF KeptFit, Agree, Moves
  <2> QED BY <2>1, <2>2
<1> QED BY <1>7, <1>10, <1>12 DEF Agree

(***************************************************************************)
(* A message under the next header key, as in RatchetIsTheOthers.          *)
(***************************************************************************)
LEMMA RatchetIsTheOthersInView ==
    ASSUME NEW st, NEW l \in Party, Turn(st, l),
           NEW p \in Party, NEW m, MessageOK(st, m),
           Admitted(st[p], m), DhRatchetNeeded(st[p], m)
    PROVE  /\ p = Peer(l)
           /\ m.hk = st[p].nhk_r /\ m.hk = st[l].hk_s
           /\ SentOn(m, l, st[l])
<1>1. m.hk = st[p].nhk_r
  BY AdmittedGuards DEF DhRatchetNeeded
<1>2. st[l].nhk_r = st[Peer(l)].nhk_s /\ st[l].hk_s = st[Peer(l)].nhk_r
  BY DEF Turn, Leads
<1>3. p # l
  BY <1>1, <1>2, TwoParties DEF MessageOK
<1>4. p = Peer(l)
  BY <1>3, TwoParties
<1>5. m.hk = st[l].hk_s
  BY <1>1, <1>2, <1>4
<1>6. SentOn(m, l, st[l])
  BY <1>5 DEF MessageOK, Current
<1> QED BY <1>1, <1>4, <1>5, <1>6

(***************************************************************************)
(* What a commit with a DH ratchet makes of the session.                   *)
(***************************************************************************)
LEMMA CommittingTakesTheLead ==
    ASSUME NoneIsNoKey, NEW a, NEW b, Leads(a, b), InNumber(b),
           NEW m, m.dh_pub = a.dh_pair, DhRatchetNeeded(b, m),
           NEW fresh, NEW c, Committing(b, m, fresh, c)
    PROVE  /\ InNumber(c)
           /\ TakesTheLead(a, b, c, fresh)
           /\ c.mkskipped = SkipMessageKeys(PreviousChainStored(b, m),
                                            <<a.rk, 0>>, b.nhk_r, 0, m.n)
           /\ c.received_messages \subseteq {MessageId(m)}
<1> DEFINE next == Committed(b, m, fresh)
           store == SkipMessageKeys(PreviousChainStored(b, m), <<a.rk, 0>>, b.nhk_r, 0, m.n)
<1>1. DOMAIN b = SessionFields /\ b.ns \in Nat
  BY DEF InNumber
<1>2. /\ TakesTheLead(a, b, next, fresh)
      /\ next.mkskipped = store
      /\ next.received_messages = {}
  BY <1>1, CommittedTakesTheLead
<1>3. /\ DOMAIN c = SessionFields
      /\ \A f \in SessionFields \ {"received_messages"} : c[f] = next[f]
      /\ c.received_messages \subseteq next.received_messages \cup {MessageId(m)}
  BY <1>1, CommittingFields, CommittingTracks
<1> HIDE DEF next, store
<1>4. TakesTheLead(a, b, c, fresh) /\ c.mkskipped = store
  BY <1>2, <1>3 DEF TakesTheLead, SessionFields
<1>5. InNumber(c)
  <2>1. /\ c.pn = b.ns /\ c.ns = 0 /\ c.nr = 1
        /\ c.ck_s[2] = 0 /\ c.ck_r[2] = 1
    BY <1>4 DEF TakesTheLead
  <2> QED BY <2>1, <1>1, <1>3, <1>4 DEF InNumber
<1> QED BY <1>2, <1>3, <1>4, <1>5 DEF store

(***************************************************************************)
(* The keys stored by a commit with a DH ratchet, as in RatchetStores.     *)
(***************************************************************************)
LEMMA RatchetStoresInView ==
    ASSUME NoneIsNoKey, NEW msgs, NEW st, Agree(msgs, st),
           NEW l \in Party, Turn(st, l), \A k \in msgs : PreviousOK(st, l, k),
           NEW p \in Party, NEW m \in msgs,
           Admitted(st[p], m), DhRatchetNeeded(st[p], m)
    PROVE  LET store == SkipMessageKeys(PreviousChainStored(st[p], m),
                                        <<st[l].rk, 0>>, st[p].nhk_r, 0, m.n)
           IN  /\ Genuine(store, p, msgs)
               /\ \A k \in DOMAIN store : EntryOK(st, k)
<1> DEFINE a == st[l]
           b == st[p]
           previous == PreviousChainStored(b, m)
           store == SkipMessageKeys(previous, <<a.rk, 0>>, b.nhk_r, 0, m.n)
<1>1. \A k \in msgs : Plain(k) /\ MessageOK(st, k) /\ k.mk = <<"mk", k.mk[2], k.n>>
  BY DEF Agree, Aligned, MessageOK
<1>2. /\ p = Peer(l) /\ l = Peer(p) /\ \A q \in Party : q = l \/ q = p
      /\ m.hk = b.nhk_r /\ m.hk = a.hk_s /\ SentOn(m, l, a)
  BY <1>1, RatchetIsTheOthersInView, TwoParties
<1>3. /\ InNumber(b) /\ OwnKeysOK(st, p) /\ OwnKeysOK(st, l) /\ KeysOK(st)
      /\ b.nr \in Nat /\ a.ns \in Nat /\ b.ns \in Nat
      /\ m.n \in Nat /\ m.pn \in Nat /\ m.hk # None
  BY <1>1 DEF Agree, Aligned, InNumber, KeysOK, Plain
<1>4. \A k \in msgs : k.hk = b.nhk_r => k.mk[2] = a.rk /\ Sender(k) = Peer(p)
  <2> SUFFICES ASSUME NEW k \in msgs, k.hk = b.nhk_r
               PROVE  k.mk[2] = a.rk /\ Sender(k) = l
    BY <1>2
  <2>1. SentOn(k, l, a)
    BY <1>1, <1>2 DEF MessageOK, Current
  <2>2. a.ck_s # None /\ k.mk[2] = a.ck_s[1] /\ Sender(k) = l
    BY <2>1 DEF SentOn
  <2>3. a.ck_s = <<a.rk, a.ck_s[2]>>
    BY <1>3, <2>2 DEF OwnKeysOK
  <2> HIDE DEF a
  <2>4. a.ck_s[1] = a.rk
    BY <2>3
  <2> QED BY <2>2, <2>4
<1>5. /\ Genuine(b.mkskipped, p, msgs)
      /\ \A k \in DOMAIN b.mkskipped : EntryOK(st, k)
  BY DEF Agree, KeptFit
<1>6. /\ Genuine(previous, p, msgs)
      /\ \A k \in DOMAIN previous : EntryOK(st, k)
  <2>1. CASE b.ck_r = None
    BY <1>5, <2>1 DEF PreviousChainStored
  <2>2. CASE b.ck_r # None
    <3>1. previous = SkipMessageKeys(b.mkskipped, b.ck_r, b.hk_r, b.nr, m.pn)
      BY <2>2 DEF PreviousChainStored
    <3>2. b.hk_r # None /\ b.ck_r[2] = b.nr
      BY <2>2, <1>3 DEF OwnKeysOK, InNumber
    <3>3. \A k \in msgs : k.hk = b.hk_r => k.mk[2] = b.ck_r[1] /\ Sender(k) = Peer(p)
      BY <1>1, <1>3, ReceivingChainInView
    <3>4. ASSUME NEW n \in Nat PROVE EntryOK(st, <<b.hk_r, n>>)
      <4>1. KnownHeaderKey(st, b.hk_r)
        BY <1>3, <3>2 DEF OwnKeysOK
      <4>2. /\ b.hk_r # a.nhk_s /\ b.hk_r # b.nhk_s
            /\ b.hk_r # a.hk_s /\ b.hk_r # b.hk_s
        BY <1>2, <3>2 DEF Turn
      <4> QED BY <1>2, <3>2, <4>1, <4>2 DEF EntryOK
    <3> HIDE DEF b, previous
    <3>5. Genuine(previous, p, msgs)
      BY <3>1, <3>2, <3>3, <1>1, <1>3, <1>5, SkipKeepsGenuine
    <3>6. HoldsSkipped(previous, b.mkskipped, b.ck_r, b.hk_r, b.nr, m.pn)
      BY <3>1, <1>3, SkipMessageKeysEntries
    <3>7. ASSUME NEW k \in DOMAIN previous PROVE EntryOK(st, k)
      <4>1. \/ k \in DOMAIN b.mkskipped
            \/ k = <<b.hk_r, k[2]>> /\ k[2] \in b.nr .. m.pn - 1
        BY <3>6 DEF HoldsSkipped
      <4>2. k[2] \in b.nr .. m.pn - 1 => k[2] \in Nat
        BY <1>3
      <4> QED BY <4>1, <4>2, <3>4, <1>5, Zenon
    <3> QED BY <3>5, <3>7
  <2> QED BY <2>1, <2>2
<1> HIDE DEF previous
<1>7. Genuine(store, p, msgs)
  <2>1. <<a.rk, 0>>[2] = 0 /\ <<a.rk, 0>>[1] = a.rk /\ 0 \in Nat
    OBVIOUS
  <2> HIDE DEF a, b
  <2> QED BY <2>1, <1>1, <1>3, <1>4, <1>6, SkipKeepsGenuine
<1>8. ASSUME NEW k \in DOMAIN store PROVE EntryOK(st, k)
  <2>1. HoldsSkipped(store, previous, <<a.rk, 0>>, b.nhk_r, 0, m.n)
    BY <1>3, SkipMessageKeysEntries
  <2> HIDE DEF store
  <2>2. \/ k \in DOMAIN previous
        \/ k = <<b.nhk_r, k[2]>> /\ k[2] \in 0 .. m.n - 1
    BY <2>1 DEF HoldsSkipped
  <2>3. ASSUME NEW n \in 0 .. m.n - 1 PROVE EntryOK(st, <<m.hk, n>>)
    <3>1. n \in Nat /\ n <= m.n
      BY <1>3
    <3>2. \A q \in Party : st[q].ns \in Nat
      BY DEF Agree, InNumber
    <3> QED BY <3>1, <3>2, <1>1, <1>3, NumberMayBeStored
  <2> QED BY <2>2, <2>3, <1>2, <1>6, Zenon
<1> QED BY <1>7, <1>8 DEF previous

(***************************************************************************)
(* A commit with a DH ratchet: the lead changes hands.                     *)
(***************************************************************************)
LEMMA RatchetInView ==
    ASSUME NoneIsNoKey, NEW msgs, NEW st, NEW st2, Agree(msgs, st),
           NEW p \in Party, NEW m \in msgs, NEW c, NEW i \in Nat, st[p].dh_pair[2] < i,
           Admitted(st[p], m), DhRatchetNeeded(st[p], m),
           Committing(st[p], m, Key(p, i), c), Moves(st, p, c, st2)
    PROVE  Agree(msgs, st2)
<1>1. PICK l \in Party : Turn(st, l) /\ \A k \in msgs : PreviousOK(st, l, k)
  BY DEF Agree, Aligned
<1> DEFINE a == st[l]
           b == st[p]
           store == SkipMessageKeys(PreviousChainStored(b, m), <<a.rk, 0>>, b.nhk_r, 0, m.n)
<1>2. \A k \in msgs : Plain(k) /\ MessageOK(st, k)
  BY DEF Agree, Aligned
<1>3. /\ p = Peer(l) /\ l = Peer(p) /\ l # p /\ \A q \in Party : q = l \/ q = p
      /\ SentOn(m, l, a)
  BY <1>1, <1>2, RatchetIsTheOthersInView, TwoParties
<1>4. /\ InNumber(b) /\ a.ns \in Nat /\ m.n \in Nat /\ m.n < a.ns /\ KeysOK(st)
      /\ m.dh_pub = a.dh_pair /\ Leads(a, b) /\ a.nr <= b.ns
  BY <1>1, <1>2, <1>3 DEF Agree, Aligned, InNumber, Plain, SentOn, Turn, Leads
<1>5. /\ InNumber(c)
      /\ TakesTheLead(a, b, c, Key(p, i))
      /\ c.mkskipped = store
  <2>1. Committing(b, m, Key(p, i), c) /\ DhRatchetNeeded(b, m)
    OBVIOUS
  <2> HIDE DEF a, b
  <2> QED BY <2>1, <1>4, CommittingTakesTheLead
<1> HIDE DEF store
<1>6. \A q \in Party : InNumber(st2[q])
  BY <1>5 DEF Agree, Moves
<1>7. /\ KeysOK(st2)
      /\ Turn(st2, p)
      /\ \A k : MessageOK(st, k) => MessageOK(st2, k)
      /\ \A k : EntryOK(st, k) => EntryOK(st2, k)
  <2>1. st2[l] = st[l] /\ st2[p] = c /\ a.ns > 0
    BY <1>3, <1>4 DEF Moves
  <2>2. Led(st, st2, p)
    BY <1>1, <1>3, <1>4, <1>5, <2>1, LeadChangesHands
  <2> QED BY <2>2 DEF Led
<1>8. \A k \in msgs : PreviousOK(st2, p, k)
  <2> SUFFICES ASSUME NEW k \in msgs, k.hk = a.hk_r
               PROVE  Sender(k) = p /\ k.mk[2] = a.ck_r[1] /\ k.n < c.pn
    BY <1>3 DEF PreviousOK, Moves
  <2>1. Sender(k) = p /\ k.mk[2] = a.ck_r[1] /\ k.n < b.ns
    BY <1>1, <1>2, <1>3, <1>4, ReceivingChainInView
  <2>2. c.pn = b.ns
    BY <1>5 DEF TakesTheLead
  <2> QED BY <2>1, <2>2
<1>9. Aligned(msgs, st2)
  BY <1>2, <1>7, <1>8 DEF Aligned
<1>10. ASSUME NEW q \in Party PROVE KeptFit(msgs, st2, q)
  <2>1. Genuine(store, p, msgs) /\ \A k \in DOMAIN store : EntryOK(st, k)
    BY <1>1, RatchetStoresInView DEF store
  <2>2. CASE q = p
    BY <2>1, <2>2, <1>5, <1>7 DEF KeptFit, Moves
  <2>3. CASE q # p
    BY <2>3, <1>7 DEF KeptFit, Agree, Moves
  <2> QED BY <2>2, <2>3
<1> QED BY <1>6, <1>9, <1>10 DEF Agree

(***************************************************************************)
(* A successful encrypt, as in EncryptAgrees: the new message continues    *)
(* the current chain of its sender.                                        *)
(***************************************************************************)
LEMMA EncryptInView ==
    ASSUME NoneIsNoKey, NEW msgs, NEW st, NEW st2, Agree(msgs, st),
           NEW p \in Party, ValidForEncryption(st[p]),
           Sender(Packet(st[p])) = p, Moves(st, p, AfterEncrypt(st[p]), st2)
    PROVE  /\ Agree(msgs \cup {Packet(st[p])}, st2)
           /\ \A m \in msgs : /\ m.mk # Packet(st[p]).mk
                              /\ MessageId(m) # MessageId(Packet(st[p]))
<1> DEFINE s == st[p]
           c == AfterEncrypt(s)
           new == Packet(s)
<1>1. PICK l \in Party : Turn(st, l) /\ \A m \in msgs : PreviousOK(st, l, m)
  BY DEF Agree, Aligned
<1>2. /\ \A q \in Party : InNumber(st[q])
      /\ KeysOK(st) /\ OwnKeysOK(st, p)
      /\ \A m \in msgs : Plain(m) /\ MessageOK(st, m)
  BY DEF Agree, Aligned, KeysOK
<1>3. /\ s.ck_s # None /\ s.hk_s # None /\ s.ck_s = <<s.rk, s.ns>>
      /\ s.ns \in Nat /\ s.pn \in Nat
      /\ s.dh_pair = Key(p, s.dh_pair[2]) /\ s.dh_pair[2] \in Nat
      /\ Known(st, s.rk) /\ KnownHeaderKey(st, s.hk_s)
  <2>1. s.ck_s # None /\ s.hk_s # None
    BY DEF ValidForEncryption
  <2>2. InNumber(s)
    BY <1>2
  <2> QED BY <2>1, <2>2, <1>2 DEF OwnKeysOK, InNumber
<1>4. /\ c.ck_s = <<s.rk, s.ns + 1>> /\ c.ns = s.ns + 1
      /\ DOMAIN c = SessionFields
      /\ \A f \in SessionFields \ {"ck_s", "ns", "header_nonce_counter"} : c[f] = s[f]
  <2>1. DOMAIN s = SessionFields
    BY <1>2 DEF InNumber
  <2> HIDE DEF s
  <2>2. /\ c.ck_s = <<s.ck_s[1], s.ck_s[2] + 1>> /\ c.ns = s.ns + 1
        /\ DOMAIN c = SessionFields
        /\ \A f \in SessionFields \ {"ck_s", "ns", "header_nonce_counter"} : c[f] = s[f]
    BY <2>1 DEF AfterEncrypt, Numbered, ChainAdvanced, KdfCk, SessionFields
  <2>3. s.ck_s[1] = s.rk /\ s.ck_s[2] = s.ns
    BY <1>3
  <2> QED BY <2>2, <2>3
<1>5. /\ new.hk = s.hk_s /\ new.dh_pub = s.dh_pair /\ new.pn = s.pn /\ new.n = s.ns
      /\ new.mk = <<"mk", s.rk, s.ns>>
      /\ Sender(new) = p
  BY <1>3 DEF Packet, KdfCk, HeaderNonce
<1> HIDE DEF new, c, s
<1>6. /\ st2[p] = c /\ \A q \in Party \ {p} : st2[q] = st[q]
      /\ st[p] = s /\ Moves(st, p, c, st2)
  BY DEF Moves, c, s
<1>7. /\ c.ck_s[2] = s.ns + 1 /\ c.rk = s.rk /\ c.hk_s = s.hk_s
      /\ c.dh_pair = s.dh_pair /\ c.pn = s.pn /\ c.nr = s.nr
      /\ c.ck_r = s.ck_r /\ c.mkskipped = s.mkskipped
  BY <1>4 DEF SessionFields
<1>8. \A q \in Party : InNumber(st2[q])
  <2>1. InNumber(c)
    <3>1. InNumber(s)
      BY <1>2, <1>6
    <3> QED BY <3>1, <1>3, <1>4, <1>7 DEF InNumber
  <2> QED BY <2>1, <1>2, <1>6
<1>9. \A q \in Party : Quiet(st[q], st2[q])
  <2>1. Quiet(s, c)
    BY <1>3, <1>4, <1>7 DEF Quiet, MovesOn, SessionFields
  <2>2. \A q \in Party : Quiet(st[q], st[q])
    BY <1>2 DEF Quiet, MovesOn, InNumber
  <2> QED BY <2>1, <2>2, <1>6
<1>10. ASSUME NEW k \in Party, Turn(st, k) PROVE Leads(st2[k], st2[Peer(k)])
  <2> DEFINE a == st[k]
             b == st[Peer(k)]
             a2 == st2[k]
             b2 == st2[Peer(k)]
  <2>1. /\ a.ns \in Nat /\ b.ns \in Nat /\ a.nr \in Nat /\ b.nr \in Nat
        /\ Leads(a, b) /\ a.ck_s[2] >= a.ns /\ a.nr <= b.ns /\ b.nr <= a.pn
        /\ a.ck_r # None => a.ck_r[2] = a.nr
    BY <1>2, <1>10, TwoParties DEF Turn, Leads, InNumber
  <2>2. /\ a2.nr = a.nr /\ b2.nr = b.nr /\ a2.ck_r = a.ck_r /\ a2.pn = a.pn
        /\ b2.ns \in {b.ns, b.ns + 1}
        /\ a2.ck_s[2] >= a2.ns
    <3>1. CASE p = k
      <4>1. a2 = c /\ a = s /\ b2 = b
        BY <3>1, <1>6, TwoParties
      <4> HIDE DEF a, b, a2, b2
      <4> QED BY <4>1, <1>3, <1>4, <1>7
    <3>2. CASE p # k
      <4>1. b2 = c /\ b = s /\ a2 = a
        BY <3>2, <1>6, TwoParties
      <4> HIDE DEF a, b, a2, b2
      <4> QED BY <4>1, <1>4, <1>7, <2>1
    <3> QED BY <3>1, <3>2
  <2>3. Quiet(a, a2) /\ Quiet(b, b2)
    BY <1>9, TwoParties
  <2> HIDE DEF a, b, a2, b2
  <2>4. Leads(a2, b2)
    BY <2>1, <2>2, <2>3, QuietLeads
  <2> QED BY <2>4 DEF a2, b2
<1>11. /\ KeysOK(st2) /\ Turn(st2, l)
       /\ \A m \in msgs : MessageOK(st2, m) /\ PreviousOK(st2, l, m)
       /\ \A k : EntryOK(st, k) => EntryOK(st2, k)
  BY <1>1, <1>2, <1>9, <1>10, QuietStep DEF Plain
<1>12. MessageOK(st2, new)
  <2>1. OwnKeysOK(st2, p)
    BY <1>11 DEF KeysOK
  <2>2. /\ Known(st2, s.rk) /\ KnownHeaderKey(st2, s.hk_s)
        /\ Generated(st2, s.dh_pair)
    <3>1. Known(st2, s.rk)
      <4>1. c.ck_s # None
        BY <1>4 DEF NoneIsNoKey
      <4> QED BY <4>1, <2>1, <1>6, <1>7 DEF OwnKeysOK
    <3>2. KnownHeaderKey(st2, s.hk_s)
      BY <2>1, <1>3, <1>6, <1>7 DEF OwnKeysOK
    <3>3. Generated(st2, s.dh_pair)
      <4>1. s.dh_pair[2] \in 0 .. st2[p].dh_pair[2]
        BY <1>3, <1>6, <1>7
      <4> QED BY <4>1, <1>3 DEF Generated
    <3> QED BY <3>1, <3>2, <3>3
  <2>3. ASSUME NEW q \in Party PROVE new.hk # st2[q].nhk_s
    BY <1>5, <1>6, <1>7, <1>11, TwoParties DEF Turn
  <2>4. SentOn(new, p, c)
    BY <1>3, <1>4, <1>5, <1>7 DEF SentOn, NoneIsNoKey
  <2>5. ~Current(new, st2[Peer(p)])
    <3> DEFINE o == st2[Peer(p)]
    <3>1. new.hk # o.hk_s
      BY <1>3, <1>5, <1>6, <1>7, <1>11, TwoParties DEF Turn
    <3>2. o.ck_s # None => o.ck_s[1] # s.rk
      <4>1. o.ck_s # None => o.ck_s = <<o.rk, o.ck_s[2]>>
        BY <1>11, TwoParties DEF KeysOK, OwnKeysOK
      <4>2. o.rk # st2[p].rk /\ st2[p].rk = s.rk
        BY <1>6, <1>7, <1>11, TwoParties DEF Turn
      <4> HIDE DEF o
      <4> QED BY <4>1, <4>2
    <3>3. o.dh_pair # s.dh_pair
      <4>1. o.dh_pair = Key(Peer(p), o.dh_pair[2])
        BY <1>11, TwoParties DEF KeysOK, OwnKeysOK
      <4> QED BY <4>1, <1>3, TwoParties DEF Key
    <3> HIDE DEF o
    <3>4. ~Current(new, o)
      BY <3>1, <3>2, <3>3, <1>5 DEF Current
    <3> QED BY <3>4 DEF o
  <2> QED BY <2>2, <2>3, <2>4, <2>5, <1>5, <1>6, TwoParties DEF MessageOK
<1>13. PreviousOK(st2, l, new)
  BY <1>3, <1>5, <1>6, <1>7, <1>11, TwoParties DEF PreviousOK, Turn
<1>14. Plain(new)
  BY <1>3, <1>5 DEF Plain
<1>15. Aligned(msgs \cup {new}, st2)
  BY <1>2, <1>11, <1>12, <1>13, <1>14 DEF Aligned
<1>16. ASSUME NEW q \in Party PROVE KeptFit(msgs \cup {new}, st2, q)
  <2>1. st2[q].mkskipped = st[q].mkskipped /\ KeptFit(msgs, st, q)
    BY <1>6, <1>7 DEF Agree
  <2>2. ASSUME NEW k \in DOMAIN st[q].mkskipped PROVE k # <<new.hk, new.n>>
    <3>1. EntryOK(st, k)
      BY <2>1 DEF KeptFit
    <3>2. k[1] = s.hk_s => k[2] < s.ns /\ k[2] \in Nat
      BY <3>1, <1>6 DEF EntryOK
    <3> QED BY <3>2, <1>3, <1>5
  <2> QED BY <2>1, <2>2, <1>11 DEF KeptFit, Genuine
<1>17. \A m \in msgs : m.mk # new.mk /\ MessageId(m) # MessageId(new)
  <2> SUFFICES ASSUME NEW m \in msgs,
                      m.mk = new.mk \/ MessageId(m) = MessageId(new)
               PROVE  FALSE
    OBVIOUS
  <2>1. /\ m.mk = <<"mk", m.mk[2], m.n>> /\ m.n \in Nat
        /\ Current(m, s) => m.n < s.ns
    BY <1>2, <1>6 DEF MessageOK, SentOn, Plain
  <2>2. CASE m.mk = new.mk
    <3>1. m.mk[2] = s.rk /\ m.n = s.ns
      BY <2>1, <2>2, <1>5
    <3>2. Current(m, s)
      <4>1. s.ck_s[1] = s.rk
        BY <1>3
      <4> QED BY <3>1, <4>1, <1>3 DEF Current
    <3> QED BY <2>1, <3>1, <3>2, <1>3
  <2>3. CASE MessageId(m) = MessageId(new)
    <3>1. m.dh_pub = s.dh_pair /\ m.n = s.ns
      BY <2>3, <1>5 DEF MessageId
    <3>2. Current(m, s)
      BY <3>1 DEF Current
    <3> QED BY <2>1, <3>1, <3>2, <1>3
  <2> QED BY <2>2, <2>3
<1> QED BY <1>8, <1>15, <1>16, <1>17 DEF Agree, new, s

-----------------------------------------------------------------------------
(* The steps of SavedSession, in all views at once.                        *)

(***************************************************************************)
(* The sessions of a view, and that only the store takes another form on   *)
(* its way to the disk and back.                                           *)
(***************************************************************************)
LEMMA ViewParts ==
    ASSUME NEW d \in SUBSET Party, NEW p \in Party
    PROVE  /\ View(d)[p] = IF p \in d THEN Deserialized(saved[p]) ELSE state[p]
           /\ View(d)'[p] = IF p \in d THEN Deserialized(saved'[p]) ELSE state'[p]
BY DEF View

LEMMA SerializedFields ==
    ASSUME NEW s, DOMAIN s = SessionFields
    PROVE  /\ DOMAIN Serialized(s) = SessionFields
           /\ DOMAIN Deserialized(s) = SessionFields
           /\ \A f \in SessionFields \ {"mkskipped"} :
                 Serialized(s)[f] = s[f] /\ Deserialized(s)[f] = s[f]
           /\ StoreShrinks(s, Deserialized(Serialized(s)))
<1>1. /\ DOMAIN Serialized(s) = SessionFields
      /\ DOMAIN Deserialized(s) = SessionFields
      /\ \A f \in SessionFields \ {"mkskipped"} :
            Serialized(s)[f] = s[f] /\ Deserialized(s)[f] = s[f]
  BY DEF Serialized, Deserialized, SessionFields
<1> DEFINE f == s.mkskipped
           e == {<<k, f[k]>> : k \in DOMAIN f}
           j == Serialized(s)
           c == Deserialized(j)
<1>2. j.mkskipped = e
  BY DEF Serialized, SessionFields
<1>3. /\ c.mkskipped = [k \in {x[1] : x \in j.mkskipped} |->
                          (CHOOSE x \in j.mkskipped : x[1] = k)[2]]
      /\ \A g \in SessionFields \ {"mkskipped"} : c[g] = j[g]
  BY <1>1 DEF Deserialized, SessionFields
<1> HIDE DEF f, j, c
<1>4. ASSUME NEW k \in DOMAIN c.mkskipped
      PROVE  k \in DOMAIN f /\ c.mkskipped[k] = f[k]
  <2>1. k \in {x[1] : x \in e} /\ c.mkskipped[k] = (CHOOSE x \in e : x[1] = k)[2]
    BY <1>2, <1>3, <1>4
  <2>2. \E x \in e : x[1] = k
    BY <2>1
  <2>3. PICK x : x = (CHOOSE y \in e : y[1] = k)
    OBVIOUS
  <2>4. x \in e /\ x[1] = k
    BY <2>2, <2>3
  <2>5. PICK i \in DOMAIN f : x = <<i, f[i]>>
    BY <2>4
  <2> QED BY <2>1, <2>3, <2>4, <2>5
<1>5. StoreShrinks(s, c)
  BY <1>1, <1>3, <1>4 DEF StoreShrinks, f, j
<1> QED BY <1>1, <1>5 DEF c, j

(***************************************************************************)
(* All that was sent had been encrypted in every view.                     *)
(***************************************************************************)
LEMMA SentIsSeen ==
    ASSUME SInv, NEW d \in SUBSET Party
    PROVE  /\ Sent \subseteq EncryptedBy(Items, View(d))
           /\ \A p \in Party :
                 /\ DOMAIN state[p] = SessionFields /\ DOMAIN saved[p] = SessionFields
                 /\ state[p].header_nonce_counter \in Nat
                 /\ saved[p].header_nonce_counter \in Nat
                 /\ saved[p].header_nonce_counter <= state[p].header_nonce_counter
                 /\ Deserialized(saved[p]).header_nonce_counter
                       = saved[p].header_nonce_counter
<1>1. ASSUME NEW p \in Party
      PROVE  /\ DOMAIN state[p] = SessionFields /\ DOMAIN saved[p] = SessionFields
             /\ state[p].header_nonce_counter \in Nat
             /\ saved[p].header_nonce_counter \in Nat
             /\ CountersOK(Sent, outbox[p], p, state[p], saved[p])
             /\ Deserialized(saved[p]).header_nonce_counter
                   = saved[p].header_nonce_counter
  <2>1. /\ DOMAIN state[p] = SessionFields /\ DOMAIN saved[p] = SessionFields
        /\ state[p].header_nonce_counter \in Nat
        /\ saved[p].header_nonce_counter \in Nat
        /\ CountersOK(Sent, outbox[p], p, state[p], saved[p])
    BY DEF SInv, CopiesOK, CopyOK, NoncesLieBelow
  <2> QED BY <2>1, SerializedFields DEF SessionFields
<1>2. ASSUME NEW m \in Sent PROVE m \in EncryptedBy(Items, View(d))
  <2>1. m \in Items /\ m.nonce.counter \in Nat /\ Sender(m) \in Party
    BY TwoParties DEF SInv, MessagesOK, ItemOK, Items, Encrypted, Sender, Party
  <2>2. m.nonce.counter < View(d)[Sender(m)].header_nonce_counter
    BY <1>1, <2>1, ViewParts DEF CountersOK
  <2> QED BY <2>1, <2>2 DEF EncryptedBy
<1> QED BY <1>1, <1>2 DEF CountersOK

(***************************************************************************)
(* A save: the copy is the session, so that no view is new.                *)
(***************************************************************************)
LEMMA SaveViews ==
    ASSUME NoneIsNoKey, ViewsInv, NEW p \in Party, Save(p)
    PROVE  ViewsAgree'
<1>1. /\ saved' = [saved EXCEPT ![p] = Serialized(state[p])]
      /\ state' = state /\ Items' = Items
  BY DEF Save, vars, Items, Encrypted, Sent
<1>2. \A q \in Party : saved'[q] = IF q = p THEN Serialized(state[p]) ELSE saved[q]
  BY <1>1 DEF ViewsInv, SInv, CopiesOK
<1> SUFFICES ASSUME NEW d \in SUBSET Party
             PROVE  Agree(EncryptedBy(Items, View(d)'), View(d)')
  BY <1>1 DEF ViewsAgree, EncryptedBy, Sender
<1>3. CASE p \notin d
  <2>1. \A q \in Party : (q \in d => saved'[q] = saved[q]) /\ state'[q] = state[q]
    BY <1>1, <1>2, <1>3
  <2>2. View(d)' = View(d)
    BY <2>1 DEF View
  <2> QED BY <2>2 DEF ViewsInv, ViewsAgree
<1>4. CASE p \in d
  <2> DEFINE d0 == d \ {p}
             c == Deserialized(Serialized(state[p]))
  <2>1. /\ View(d)'[p] = c /\ View(d0)[p] = state[p]
        /\ \A q \in Party \ {p} : View(d)'[q] = View(d0)[q]
    BY <1>1, <1>2, <1>4, ViewParts
  <2>2. Moves(View(d0), p, c, View(d)')
    BY <2>1 DEF Moves
  <2>3. DOMAIN state[p] = SessionFields
    BY SentIsSeen DEF ViewsInv
  <2>4. StoreShrinks(View(d0)[p], c) /\ DOMAIN c = SessionFields
    BY <2>1, <2>3, SerializedFields
  <2>5. Agree(EncryptedBy(Items, View(d0)), View(d0))
    BY DEF ViewsInv, ViewsAgree
  <2> HIDE DEF d0, c
  <2>6. Agree(EncryptedBy(Items, View(d0)), View(d)')
    BY <2>2, <2>4, <2>5, StoreShrinksInView
  <2>7. EncryptedBy(Items, View(d)') = EncryptedBy(Items, View(d0))
    <3>1. \A q \in Party : View(d)'[q].header_nonce_counter
                              = View(d0)[q].header_nonce_counter
      BY <2>1, <2>4 DEF StoreShrinks, SessionFields
    <3>2. \A m : Sender(m) \in Party
      BY DEF Sender, Party
    <3> QED BY <3>1, <3>2 DEF EncryptedBy
  <2> QED BY <2>6, <2>7
<1> QED BY <1>3, <1>4

(***************************************************************************)
(* A start from the copy: the views that remain are those in which it had  *)
(* happened already.                                                       *)
(***************************************************************************)
LEMMA RestartViews ==
    ASSUME ViewsInv, NEW p \in Party, Restart(p)
    PROVE  ViewsAgree'
<1>1. /\ state' = [state EXCEPT ![p] = Deserialized(saved[p])]
      /\ outbox' = [outbox EXCEPT ![p] = None]
      /\ saved' = saved /\ Sent' = Sent
  BY DEF Restart, Sent
<1>2. \A q \in Party : state'[q] = IF q = p THEN Deserialized(saved[p]) ELSE state[q]
  BY <1>1 DEF ViewsInv, SInv, CopiesOK
<1>3. Items' \subseteq Items
  <2>1. \A q \in Party : outbox'[q] \in {None, outbox[q]}
    BY <1>1 DEF ViewsInv, SInv
  <2> QED BY <2>1, <1>1 DEF Items, Encrypted
<1> SUFFICES ASSUME NEW d \in SUBSET Party
             PROVE  Agree(EncryptedBy(Items', View(d)'), View(d)')
  BY DEF ViewsAgree, EncryptedBy, Sender
<1>4. View(d)' = View(d \cup {p})
  BY <1>1, <1>2 DEF View
<1>5. EncryptedBy(Items', View(d)') \in SUBSET EncryptedBy(Items, View(d \cup {p}))
  BY <1>3, <1>4 DEF EncryptedBy
<1>6. Agree(EncryptedBy(Items, View(d \cup {p})), View(d \cup {p}))
  BY DEF ViewsInv, ViewsAgree
<1> QED BY <1>4, <1>5, <1>6, FewerMessages

(***************************************************************************)
(* A message that leaves its outbox changes no session.                    *)
(***************************************************************************)
LEMMA SendViews ==
    ASSUME ViewsInv, NEW p \in Party, Send(p)
    PROVE  ViewsAgree' /\ Items' \subseteq Items
<1>1. /\ handed' = [m \in Sent \cup {outbox[p]} |-> IF m \in Sent THEN handed[m] ELSE 0]
      /\ outbox' = [outbox EXCEPT ![p] = None]
      /\ outbox[p] # None
      /\ state' = state /\ saved' = saved
  BY DEF Send
<1>2. Items' \subseteq Items
  <2>1. \A q \in Party : outbox'[q] \in {None, outbox[q]}
    BY <1>1 DEF ViewsInv, SInv
  <2>2. Sent' = Sent \cup {outbox[p]}
    BY <1>1 DEF Sent
  <2> QED BY <2>1, <2>2, <1>1 DEF Items, Encrypted
<1> SUFFICES ASSUME NEW d \in SUBSET Party
             PROVE  Agree(EncryptedBy(Items', View(d)'), View(d)')
  BY <1>2 DEF ViewsAgree, EncryptedBy, Sender
<1>3. View(d)' = View(d)
  BY <1>1 DEF View
<1>4. EncryptedBy(Items', View(d)') \in SUBSET EncryptedBy(Items, View(d))
  BY <1>2, <1>3 DEF EncryptedBy
<1>5. Agree(EncryptedBy(Items, View(d)), View(d))
  BY DEF ViewsInv, ViewsAgree
<1> QED BY <1>3, <1>4, <1>5, FewerMessages

(***************************************************************************)
(* The session in memory has encrypted all that its party sent or has in   *)
(* its outbox.                                                             *)
(***************************************************************************)
LEMMA ItemsLieBelow ==
    ASSUME SInv, NEW m \in Items
    PROVE  /\ Sender(m) \in Party
           /\ m.nonce.counter < state[Sender(m)].header_nonce_counter
           /\ m \in EncryptedBy(Items, View({}))
<1>1. Sender(m) \in Party /\ m.nonce.counter \in Nat
  BY DEF Sender, Party, SInv, MessagesOK, ItemOK
<1>2. m.nonce.counter < state[Sender(m)].header_nonce_counter
  <2>1. CASE m \in Sent
    <3>1. CountersOK(Sent, outbox[Sender(m)], Sender(m), state[Sender(m)], saved[Sender(m)])
      BY <1>1 DEF SInv, NoncesLieBelow
    <3>2. {} \in SUBSET Party
      OBVIOUS
    <3>3. /\ state[Sender(m)].header_nonce_counter \in Nat
          /\ saved[Sender(m)].header_nonce_counter \in Nat
          /\ saved[Sender(m)].header_nonce_counter <= state[Sender(m)].header_nonce_counter
      BY <1>1, <3>2, SentIsSeen
    <3>4. m.nonce.counter < saved[Sender(m)].header_nonce_counter
      BY <2>1, <3>1 DEF CountersOK
    <3> QED BY <1>1, <3>3, <3>4
  <2>2. CASE m \notin Sent
    <3>1. PICK q \in Party : m = outbox[q] /\ outbox[q] # None
      BY <2>2 DEF Items, Encrypted
    <3>2. CountersOK(Sent, outbox[q], q, state[q], saved[q])
      BY DEF SInv, NoncesLieBelow
    <3> QED BY <3>1, <3>2 DEF CountersOK
  <2> QED BY <2>1, <2>2
<1>3. View({})[Sender(m)] = state[Sender(m)]
  BY <1>1 DEF View
<1> QED BY <1>1, <1>2, <1>3 DEF EncryptedBy

(***************************************************************************)
(* A successful encrypt: a view with the copy does not know of it.         *)
(***************************************************************************)
LEMMA OutboxViews ==
    ASSUME NoneIsNoKey, ViewsInv, NEW p \in Party, EncryptToOutbox(p)
    PROVE  ViewsAgree' /\ ItemsDistinct'
<1> DEFINE s == state[p]
           c == AfterEncrypt(s)
           new == Packet(s)
<1>1. /\ ValidForEncryption(s)
      /\ outbox' = [outbox EXCEPT ![p] = new]
      /\ state' = [state EXCEPT ![p] = c]
      /\ Sent' = Sent /\ saved' = saved
  BY ErrorAssumption DEF EncryptToOutbox, EncryptError, Errors, Sent
<1>2. /\ \A q \in Party : state'[q] = IF q = p THEN c ELSE state[q]
      /\ Items' \subseteq Items \cup {new}
  <2>1. \A q \in Party : outbox'[q] \in {new, outbox[q]}
    BY <1>1 DEF ViewsInv, SInv
  <2> QED BY <2>1, <1>1 DEF Items, Encrypted, ViewsInv, SInv, CopiesOK
<1>3. /\ Sender(new) = p /\ new.nonce.counter = s.header_nonce_counter
      /\ s.header_nonce_counter \in Nat
  <2>1. CopyOK(pairs, Sent, p, s)
    BY DEF ViewsInv, SInv, CopiesOK
  <2> HIDE DEF s
  <2>2. s.header_nonce_counter \in Nat
    BY <2>1 DEF CopyOK
  <2>3. /\ EncryptedIn(p, s, new)
        /\ new.nonce.counter = s.header_nonce_counter
    BY <2>1, <1>1, PacketFits
  <2> HIDE DEF new
  <2>4. Sender(new) = p
    BY <2>3 DEF EncryptedIn
  <2> QED BY <2>2, <2>3, <2>4
<1>4. \A d \in SUBSET Party : Agree(EncryptedBy(Items, View(d)), View(d))
  BY DEF ViewsInv, ViewsAgree
<1>5. ASSUME NEW d \in SUBSET Party
      PROVE  Agree(EncryptedBy(Items', View(d)'), View(d)')
  <2>1. CASE p \in d
    <3>1. View(d)' = View(d)
      <4>1. \A q \in Party : q \notin d => state'[q] = state[q]
        BY <1>2, <2>1
      <4> QED BY <1>1, <4>1 DEF View
    <3>2. ~(new.nonce.counter < View(d)[p].header_nonce_counter)
      BY <1>3, <2>1, SentIsSeen, ViewParts DEF ViewsInv
    <3>3. EncryptedBy(Items', View(d)') \in SUBSET EncryptedBy(Items, View(d))
      BY <1>2, <1>3, <3>1, <3>2 DEF EncryptedBy
    <3> QED BY <1>4, <3>1, <3>3, FewerMessages
  <2>2. CASE p \notin d
    <3>1. /\ View(d)[p] = s /\ View(d)'[p] = c
          /\ \A q \in Party \ {p} : View(d)'[q] = View(d)[q]
      BY <1>1, <1>2, <2>2, ViewParts
    <3>2. Moves(View(d), p, AfterEncrypt(View(d)[p]), View(d)')
      BY <3>1 DEF Moves
    <3> HIDE DEF s, c, new
    <3>3. Packet(View(d)[p]) = new /\ ValidForEncryption(View(d)[p])
      BY <1>1, <3>1 DEF new, s
    <3>4. Agree(EncryptedBy(Items, View(d)) \cup {new}, View(d)')
      BY <1>3, <1>4, <3>2, <3>3, EncryptInView
    <3>5. EncryptedBy(Items', View(d)') \in SUBSET (EncryptedBy(Items, View(d)) \cup {new})
      <4> SUFFICES ASSUME NEW m \in Items,
                          m.nonce.counter < View(d)'[Sender(m)].header_nonce_counter
                   PROVE  m \in EncryptedBy(Items, View(d))
        BY <1>2 DEF EncryptedBy
      <4>1. CASE Sender(m) = p
        <5>1. m.nonce.counter < s.header_nonce_counter
          BY <4>1, ItemsLieBelow DEF ViewsInv, s
        <5> QED BY <4>1, <5>1, <3>1 DEF EncryptedBy
      <4>2. CASE Sender(m) # p
        <5>1. Sender(m) \in Party \ {p}
          BY <4>2, ItemsLieBelow DEF ViewsInv
        <5> QED BY <3>1, <5>1 DEF EncryptedBy
      <4> QED BY <4>1, <4>2
    <3> QED BY <3>4, <3>5, FewerMessages
  <2> QED BY <2>1, <2>2
<1>6. ViewsAgree'
  BY <1>5 DEF ViewsAgree, EncryptedBy, Sender
<1>7. ItemsDistinct'
  <2>1. Moves(View({}), p, c, [View({}) EXCEPT ![p] = c])
    BY DEF Moves, View
  <2>2. View({})[p] = s
    BY DEF View
  <2>3. Agree(EncryptedBy(Items, View({})), View({}))
    BY <1>4
  <2> HIDE DEF s
  <2>4. \A m \in EncryptedBy(Items, View({})) :
           m.mk # new.mk /\ MessageId(m) # MessageId(new)
    BY <1>1, <1>3, <2>1, <2>2, <2>3, EncryptInView
  <2> HIDE DEF new
  <2>5. \A m \in Items : m.mk # new.mk /\ MessageId(m) # MessageId(new)
    BY <2>4, ItemsLieBelow DEF ViewsInv
  <2>6. ItemsDistinct
    BY DEF ViewsInv
  <2> QED BY <2>5, <2>6, <1>2 DEF ItemsDistinct, MessageId
<1> QED BY <1>6, <1>7

(***************************************************************************)
(* decrypt, in a view with the session in memory.                          *)
(***************************************************************************)
LEMMA DecryptInView ==
    ASSUME NoneIsNoKey, NEW msgs, NEW st, NEW st2, Agree(msgs, st),
           NEW p \in Party, NEW m \in msgs, NEW c, NEW i \in Nat, st[p].dh_pair[2] < i,
           Moves(st, p, c, st2),
           \/ c = WithoutSkippedKey(st[p], m)
           \/ Admitted(st[p], m) /\ Committing(st[p], m, Key(p, i), c)
    PROVE  Agree(msgs, st2)
<1>1. CASE c = WithoutSkippedKey(st[p], m)
  <2>1. DOMAIN st[p] = SessionFields
    BY DEF Agree, InNumber
  <2>2. StoreShrinks(st[p], c) /\ DOMAIN c = SessionFields
    BY <1>1, <2>1, StoreShrinksSteps DEF WithoutSkippedKey
  <2> QED BY <2>2, StoreShrinksInView
<1>2. CASE Admitted(st[p], m) /\ Committing(st[p], m, Key(p, i), c)
  <2>1. CASE DhRatchetNeeded(st[p], m)
    BY <1>2, <2>1, RatchetInView
  <2>2. CASE ~DhRatchetNeeded(st[p], m)
    <3> DEFINE fresh == Key(p, i)
    <3>1. Committing(st[p], m, fresh, c)
      BY <1>2
    <3> HIDE DEF fresh
    <3> QED BY <1>2, <2>2, <3>1, OnChainInView
  <2> QED BY <2>1, <2>2
<1> QED BY <1>1, <1>2

LEMMA DecryptViews ==
    ASSUME NoneIsNoKey, ViewsInv, NEW p \in Party, NEW m \in Sent,
           DecryptHanded(p, m) \/ DecryptedNull(p, m)
    PROVE  ViewsAgree' /\ Items' = Items
<1> DEFINE s == state[p]
<1>1. PICK c : /\ state' = [state EXCEPT ![p] = c]
               /\ \/ c = WithoutSkippedKey(s, m)
                  \/ Admitted(s, m) /\ Committing(s, m, Fresh(pairs, p), c)
               /\ Sent' = Sent /\ saved' = saved /\ outbox' = outbox
  BY DecryptState DEF ViewsInv
<1>2. \A q \in Party : state'[q] = IF q = p THEN c ELSE state[q]
  BY <1>1 DEF ViewsInv, SInv, CopiesOK
<1>3. Items' = Items
  BY <1>1 DEF Items, Encrypted
<1>4. PICK i \in Nat : s.dh_pair[2] < i /\ Fresh(pairs, p) = Key(p, i)
  <2>1. pairs[p] \in Nat /\ s.dh_pair[2] \in 0 .. pairs[p]
    BY DEF ViewsInv, SInv, PairsOK, CopiesOK, CopyOK
  <2>2. pairs[p] + 1 \in Nat /\ s.dh_pair[2] < pairs[p] + 1
    BY <2>1
  <2> QED BY <2>2 DEF Fresh
<1>5. c.header_nonce_counter = s.header_nonce_counter
  <2>1. DOMAIN s = SessionFields
    BY DEF ViewsInv, SInv, CopiesOK, CopyOK
  <2> HIDE DEF s
  <2>2. CASE c = WithoutSkippedKey(s, m)
    BY <2>1, <2>2, StoreShrinksSteps DEF StoreShrinks, SessionFields
  <2>3. CASE Committing(s, m, Fresh(pairs, p), c)
    <3>1. c.header_nonce_counter = Committed(s, m, Fresh(pairs, p)).header_nonce_counter
      BY <2>1, <2>3, CommittingFields DEF SessionFields
    <3>2. Committed(s, m, Fresh(pairs, p)).header_nonce_counter = s.header_nonce_counter
      BY <2>1, CommittedOnChain, CommittedRatchet DEF SessionFields
    <3> QED BY <3>1, <3>2
  <2> QED BY <1>1, <2>2, <2>3
<1>6. ASSUME NEW d \in SUBSET Party
      PROVE  Agree(EncryptedBy(Items, View(d)'), View(d)')
  <2>1. Agree(EncryptedBy(Items, View(d)), View(d))
    BY DEF ViewsInv, ViewsAgree
  <2>2. CASE p \in d
    <3>1. View(d)' = View(d)
      <4>1. \A q \in Party : q \notin d => state'[q] = state[q]
        BY <1>2, <2>2
      <4> QED BY <1>1, <4>1 DEF View
    <3> QED BY <2>1, <3>1
  <2>3. CASE p \notin d
    <3>1. /\ View(d)[p] = s /\ View(d)'[p] = c
          /\ \A q \in Party \ {p} : View(d)'[q] = View(d)[q]
      BY <1>1, <1>2, <2>3, ViewParts
    <3>2. Moves(View(d), p, c, View(d)') /\ m \in EncryptedBy(Items, View(d))
      BY <3>1, SentIsSeen DEF Moves, ViewsInv
    <3> HIDE DEF s
    <3>3. Agree(EncryptedBy(Items, View(d)), View(d)')
      BY <1>1, <1>4, <2>1, <3>1, <3>2, DecryptInView
    <3>4. EncryptedBy(Items, View(d)') = EncryptedBy(Items, View(d))
      <4>1. \A q \in Party : View(d)'[q].header_nonce_counter
                                = View(d)[q].header_nonce_counter
        BY <1>5, <3>1
      <4>2. \A k : Sender(k) \in Party
        BY DEF Sender, Party
      <4> QED BY <4>1, <4>2 DEF EncryptedBy
    <3> QED BY <3>3, <3>4
  <2> QED BY <2>2, <2>3
<1>7. ViewsAgree'
  BY <1>3, <1>6 DEF ViewsAgree, EncryptedBy, Sender
<1> QED BY <1>3, <1>7

-----------------------------------------------------------------------------
(* Both parties at once: ViewsInv is inductive.                            *)

(***************************************************************************)
(* What is saved first is the session itself, so that all views begin      *)
(* alike.                                                                  *)
(***************************************************************************)
LEMMA ViewsBegin == NoneIsNoKey /\ SavedInit => ViewsInv
<1> SUFFICES ASSUME NoneIsNoKey, SavedInit PROVE ViewsInv
  OBVIOUS
<1>1. SInv /\ AInv
  BY SavedInitOK, InitAgrees DEF SavedInit
<1>2. Items = {}
  <2>1. handed = [m \in {} |-> 0] /\ outbox = [p \in Party |-> None]
    BY DEF SavedInit, Init
  <2>2. Sent = {} /\ \A q \in Party : outbox[q] = None
    BY <2>1 DEF Sent
  <2> QED BY <2>2 DEF Items, Encrypted
<1>3. ASSUME NEW p \in Party
      PROVE  /\ DOMAIN state[p] = SessionFields
             /\ state[p].mkskipped = EmptyStore
             /\ state[p].ns = 0 /\ state[p].nr = 0 /\ state[p].pn = 0
             /\ state[p].ck_s # None => state[p].ck_s[2] = 0
             /\ state[p].ck_r = None
             /\ saved[p] = Serialized(state[p])
             /\ state[p] = [f \in SessionFields |-> state[p][f]]
  <2>1. \/ state[p] = InitSenderState(SharedSecret, Key(Alice, 1), Key(Bob, 0))
        \/ state[p] = InitReceiverState(SharedSecret, Key(Bob, 0))
    BY DEF SavedInit, Init
  <2>2. saved[p] = Serialized(state[p])
    BY DEF SavedInit
  <2> DEFINE s == state[p]
             kdf == KdfRkHe(SharedSecret, DH(Key(Alice, 1), Key(Bob, 0)))
  <2>3. kdf.ck[2] = 0
    BY DEF KdfRkHe
  <2> HIDE DEF s, kdf
  <2>4. DOMAIN s = SessionFields
    BY <2>1 DEF InitSenderState, InitReceiverState, SessionFields, s
  <2>5. /\ s.mkskipped = EmptyStore
        /\ s.ns = 0 /\ s.nr = 0 /\ s.pn = 0
        /\ s.ck_s \in {None, kdf.ck} /\ s.ck_r = None
    BY <2>1 DEF InitSenderState, InitReceiverState, s, kdf
  <2>6. s = [f \in DOMAIN s |-> s[f]]
    BY <2>1 DEF InitSenderState, InitReceiverState, s
  <2> QED BY <2>2, <2>3, <2>4, <2>5, <2>6 DEF s
<1>4. ASSUME NEW p \in Party PROVE Deserialized(saved[p]) = state[p]
  <2> DEFINE s == state[p]
             c == Deserialized(saved[p])
  <2>1. /\ DOMAIN c = SessionFields
        /\ \A f \in SessionFields \ {"mkskipped"} : c[f] = s[f]
    <3>1. DOMAIN s = SessionFields /\ saved[p] = Serialized(s)
      BY <1>3
    <3> HIDE DEF s
    <3> QED BY <3>1, SerializedFields
  <2>2. c.mkskipped = EmptyStore
    <3>1. /\ DOMAIN s.mkskipped = {}
          /\ "mkskipped" \in SessionFields
      BY <1>3 DEF EmptyStore, SessionFields
    <3>2. saved[p].mkskipped = {}
      <4>1. saved[p] = Serialized(s) /\ DOMAIN s = SessionFields
        BY <1>3
      <4> HIDE DEF s
      <4> QED BY <3>1, <4>1 DEF Serialized
    <3>3. DOMAIN saved[p] = SessionFields
      BY <1>3, SerializedFields
    <3> QED BY <3>1, <3>2, <3>3 DEF Deserialized, EmptyStore
  <2>3. c = [f \in SessionFields |-> c[f]]
    BY <1>3, <2>1 DEF Deserialized, Serialized
  <2> QED BY <1>3, <2>1, <2>2, <2>3
<1>5. Agree({}, state)
  <2>1. ASSUME NEW p \in Party PROVE InNumber(state[p])
    <3> DEFINE s == state[p]
    <3>1. /\ DOMAIN s = SessionFields
          /\ s.ns = 0 /\ s.nr = 0 /\ s.pn = 0
          /\ s.ck_s # None => s.ck_s[2] = 0
          /\ s.ck_r = None
      BY <1>3
    <3> HIDE DEF s
    <3>2. InNumber(s)
      BY <3>1 DEF InNumber
    <3> QED BY <3>2 DEF s
  <2>2. \A p \in Party : KeptFit({}, state, p)
    BY <1>3 DEF KeptFit, EmptyStore, Genuine
  <2> QED BY <1>1, <2>1, <2>2 DEF AInv, Agree, Aligned
<1>6. ASSUME NEW d \in SUBSET Party PROVE View(d) = state
  <2>1. state = [p \in Party |-> state[p]]
    BY DEF SavedInit, Init
  <2>2. View(d) = [p \in Party |-> state[p]]
    BY <1>4 DEF View
  <2> QED BY <2>1, <2>2
<1>7. ViewsAgree
  BY <1>2, <1>5, <1>6 DEF ViewsAgree, EncryptedBy
<1> QED BY <1>1, <1>2, <1>7 DEF ViewsInv, ItemsDistinct

LEMMA SavedNextAgrees == NoneIsNoKey /\ ViewsInv /\ [SavedNext]_savedVars => ViewsInv'
<1> SUFFICES ASSUME NoneIsNoKey, ViewsInv, [SavedNext]_savedVars PROVE ViewsInv'
  OBVIOUS
<1>1. SInv'
  BY SavedNextOK DEF ViewsInv
<1>2. Items' \subseteq Items => ItemsDistinct'
  BY DEF ViewsInv, ItemsDistinct, MessageId
<1>3. CASE UNCHANGED savedVars
  <2>1. /\ state' = state /\ handed' = handed /\ saved' = saved
        /\ outbox' = outbox
    BY <1>3 DEF savedVars, vars, hostVars
  <2>2. Sent' = Sent /\ Items' = Items
    BY <2>1 DEF Sent, Items, Encrypted
  <2>3. \A d \in SUBSET Party : View(d)' = View(d)
    BY <2>1 DEF View
  <2>4. ViewsAgree'
    BY <2>2, <2>3 DEF ViewsInv, ViewsAgree, EncryptedBy, Sender
  <2> QED BY <1>1, <1>2, <2>2, <2>4 DEF ViewsInv
<1>4. ASSUME NEW p \in Party, Save(p) PROVE ViewsInv'
  <2>1. Items' = Items
    BY <1>4 DEF Save, vars, Items, Encrypted, Sent
  <2> QED BY <1>1, <1>2, <1>4, <2>1, SaveViews DEF ViewsInv
<1>5. ASSUME NEW p \in Party, EncryptToOutbox(p) PROVE ViewsInv'
  BY <1>1, <1>5, OutboxViews DEF ViewsInv
<1>6. ASSUME NEW p \in Party, Send(p) PROVE ViewsInv'
  BY <1>1, <1>2, <1>6, SendViews DEF ViewsInv
<1>7. ASSUME NEW p \in Party, Restart(p) PROVE ViewsInv'
  <2>1. Items' \subseteq Items
    <3>1. /\ outbox' = [outbox EXCEPT ![p] = None] /\ Sent' = Sent
      BY <1>7 DEF Restart, Sent
    <3>2. \A q \in Party : outbox'[q] \in {None, outbox[q]}
      BY <3>1 DEF ViewsInv, SInv
    <3> QED BY <3>1, <3>2 DEF Items, Encrypted
  <2> QED BY <1>1, <1>2, <1>7, <2>1, RestartViews DEF ViewsInv
<1>8. ASSUME NEW p \in Party, NEW m \in Sent, DecryptHanded(p, m) \/ DecryptedNull(p, m)
      PROVE  ViewsInv'
  <2>1. ViewsAgree' /\ Items' = Items
    BY <1>8, DecryptViews
  <2> QED BY <1>1, <1>2, <2>1 DEF ViewsInv
<1> QED BY <1>3, <1>4, <1>5, <1>6, <1>7, <1>8 DEF SavedNext

(***************************************************************************)
(* ViewsInv is an inductive invariant: wherever each party stands or would *)
(* start from again, the two agree with each other and with all messages   *)
(* that both of them know of.                                              *)
(***************************************************************************)
THEOREM SavedAgreement == NoneIsNoKey => (SavedSpec => []ViewsInv)
<1>1. NoneIsNoKey /\ SavedInit => ViewsInv
  BY ViewsBegin
<1>2. NoneIsNoKey /\ ViewsInv /\ [SavedNext]_savedVars => ViewsInv'
  BY SavedNextAgrees
<1> SUFFICES ASSUME NoneIsNoKey PROVE SavedSpec => []ViewsInv
  OBVIOUS
<1>3. SavedInit => ViewsInv
  BY <1>1
<1>4. ViewsInv /\ [SavedNext]_savedVars => ViewsInv'
  BY <1>2
<1> QED BY <1>3, <1>4, PTL DEF SavedSpec

(***************************************************************************)
(* A crash, a null or a start from an old copy never leaves the two ends   *)
(* of a session with root keys, header keys, chains or message numbers     *)
(* that do not fit each other.                                             *)
(***************************************************************************)
THEOREM CopiesStayInStep == NoneIsNoKey => (SavedSpec => []InStep)
<1>1. ViewsInv => InStep
  <2> SUFFICES ASSUME ViewsInv PROVE InStep
    OBVIOUS
  <2>1. {} \in SUBSET Party
    OBVIOUS
  <2>2. Aligned(EncryptedBy(Items, View({})), View({}))
    BY <2>1 DEF ViewsInv, ViewsAgree, Agree
  <2>3. PICK l \in Party : Turn(View({}), l)
    BY <2>2 DEF Aligned
  <2>4. View({})[l] = state[l] /\ View({})[Peer(l)] = state[Peer(l)]
    BY TwoParties DEF View
  <2>5. Leads(View({})[l], View({})[Peer(l)])
    BY <2>3 DEF Turn
  <2> QED BY <2>4, <2>5 DEF InStep
<1> QED BY <1>1, SavedAgreement, PTL

-----------------------------------------------------------------------------
(* The hypotheses and the invariant of SavedCopyRecovers.                  *)

(***************************************************************************)
(* An empty outbox is not a message.                                       *)
(***************************************************************************)
NoneIsNoMessage == \A s : None # Packet(s)

(***************************************************************************)
(* What a party encrypts in all its lives, counted by the nonce counter:   *)
(* what it sends, and what a crash or a null took back.                    *)
(***************************************************************************)
Encrypts(p) == MaxSends[p] + MaxMishaps

(***************************************************************************)
(* No party encrypts as much as would exhaust a limit of the other one.    *)
(* The list of received messages may be full: that is an error of decrypt  *)
(* only after the commit.                                                  *)
(***************************************************************************)
SavedWithinLimits ==
    \A p \in Party : /\ Encrypts(p) <= MaxSkip
                     /\ Encrypts(p) < MaxSkippedKeys
                     /\ Encrypts(p) + MaxSkip <= MaxCounter

(***************************************************************************)
(* A nonce counter is at what the party has sent, with the message in the  *)
(* outbox and what mishaps have taken back.  A null counts before the      *)
(* restart that it leads to.                                               *)
(***************************************************************************)
Pending(p) == IF outbox[p] = None THEN 0 ELSE 1

Lost(p) == IF lost[p] THEN 1 ELSE 0

EncryptsOK ==
    /\ \A m \in Sent : handed[m] \in Nat
    /\ mishaps \in 0 .. MaxMishaps
    /\ DOMAIN lost = Party
    /\ \A p \in Party :
          LET sends == Cardinality(SentBy(p)) + Pending(p)
          IN  /\ IsFiniteSet(SentBy(p))
              /\ sends <= MaxSends[p]
              /\ state[p].header_nonce_counter + Lost(p) <= sends + mishaps

(***************************************************************************)
(* The session that p would start from.                                    *)
(***************************************************************************)
Copy(p) == Deserialized(saved[p])

NumbersFit(s) ==
    s.ns <= s.header_nonce_counter /\ s.pn <= s.header_nonce_counter

NumbersOK ==
    /\ \A p \in Party : NumbersFit(state[p]) /\ NumbersFit(Copy(p))
    /\ \A m \in Items : m.n <= m.nonce.counter

(***************************************************************************)
(* The names, header key and number, that messages of party q have had     *)
(* until its session was o, those lost in a crash among them: no more than *)
(* o has used nonces, and each chain from its beginning.  The chain that c *)
(* of the other party receives on may be the one before that of o.         *)
(***************************************************************************)
Spells(items, n, q, o, c) ==
    /\ IsFiniteSet(n) /\ Cardinality(n) <= o.header_nonce_counter
    /\ NoHoles(n, o.hk_s, o.ns)
    /\ \A m \in items :
          Sender(m) = q /\ m.nonce.counter < o.header_nonce_counter => NoHoles(n, m.hk, m.n)
    /\ c.ck_r # None /\ c.hk_r # o.hk_s => NoHoles(n, c.hk_r, o.pn)

(***************************************************************************)
(* The names until the copy of q was made, which are all that the other    *)
(* party has seen, and until now.                                          *)
(***************************************************************************)
Named(q, before, now) ==
    /\ before \subseteq now
    /\ \A c \in {state[Peer(q)], Copy(Peer(q))} :
          /\ Spells(Items, before, q, Copy(q), c)
          /\ Spells(Items, now, q, state[q], c)
          /\ DOMAIN c.mkskipped \subseteq before

NamesOK == \A q \in Party : \E before, now : Named(q, before, now)

(***************************************************************************)
(* The messages of the other party that p has not been handed, and those   *)
(* that somebody has.  A session s awaits the ones and refuses only some   *)
(* of the others.                                                          *)
(***************************************************************************)
Unread(p) == {m \in Items : Sender(m) = Peer(p) /\ (m \in Sent => handed[m] = 0)}

Read == {m \in Sent : handed[m] > 0}

Awaits(unread, read, s) ==
    /\ \A m \in unread : Awaited(s, m)
    /\ s.received_messages \subseteq {MessageId(m) : m \in read}

(***************************************************************************)
(* A copy awaits all that it may have to recover, and so does the session  *)
(* in memory, unless it has moved for a plaintext that was lost.           *)
(***************************************************************************)
AwaitsOK ==
    \A p \in Party : /\ Awaits(Unread(p), Read, Copy(p))
                     /\ ~lost[p] => Awaits(Unread(p), Read, state[p])

(***************************************************************************)
(* The inductive invariant.                                                *)
(***************************************************************************)
RecoveryInv ==
    /\ ViewsInv
    /\ EncryptsOK
    /\ NumbersOK
    /\ NamesOK
    /\ AwaitsOK

-----------------------------------------------------------------------------
(* What the limits leave room for.                                         *)

(***************************************************************************)
(* A copy has the fields of the serialized session, and a copy just made   *)
(* is the session, but for how its store is written down.                  *)
(***************************************************************************)
LEMMA CopyFields ==
    ASSUME SInv, NEW p \in Party
    PROVE  /\ DOMAIN Copy(p) = SessionFields
           /\ \A f \in SessionFields \ {"mkskipped"} : Copy(p)[f] = saved[p][f]
<1>1. DOMAIN saved[p] = SessionFields
  BY DEF SInv, CopiesOK, CopyOK
<1>2. /\ DOMAIN Deserialized(saved[p]) = DOMAIN saved[p]
      /\ \A f \in DOMAIN saved[p] \ {"mkskipped"} : Deserialized(saved[p])[f] = saved[p][f]
  BY DEF Deserialized
<1> QED BY <1>1, <1>2 DEF Copy

LEMMA CopyJustMade ==
    ASSUME NEW s, DOMAIN s = SessionFields
    PROVE  LET c == Deserialized(Serialized(s))
           IN  /\ DOMAIN c = SessionFields
               /\ \A f \in SessionFields \ {"mkskipped"} : c[f] = s[f]
               /\ DOMAIN c.mkskipped = DOMAIN s.mkskipped
<1> DEFINE f == s.mkskipped
           e == {<<k, f[k]>> : k \in DOMAIN f}
           j == Serialized(s)
           c == Deserialized(j)
<1>1. /\ DOMAIN j = SessionFields
      /\ DOMAIN c = SessionFields
      /\ \A g \in SessionFields \ {"mkskipped"} : c[g] = s[g]
  BY SerializedFields
<1>2. j.mkskipped = e
  BY DEF Serialized, SessionFields
<1>3. c.mkskipped = [k \in {x[1] : x \in j.mkskipped} |->
                        (CHOOSE x \in j.mkskipped : x[1] = k)[2]]
  <2> HIDE DEF j
  <2> QED BY <1>1 DEF Deserialized, SessionFields
<1> HIDE DEF j, c
<1>4. {x[1] : x \in e} = DOMAIN f
  <2>1. \A k \in DOMAIN f : <<k, f[k]>> \in e /\ <<k, f[k]>>[1] = k
    OBVIOUS
  <2>2. \A x \in e : x[1] \in DOMAIN f
    OBVIOUS
  <2> HIDE DEF e
  <2> QED BY <2>1, <2>2
<1> QED BY <1>1, <1>2, <1>3, <1>4 DEF c, j

(***************************************************************************)
(* No session has used more nonces than its party encrypts.                *)
(***************************************************************************)
LEMMA Room ==
    ASSUME SavedWithinLimits, SInv, EncryptsOK, NEW p \in Party
    PROVE  /\ Encrypts(p) \in Nat /\ MaxSkip \in Nat /\ MaxSkippedKeys \in Nat
           /\ Encrypts(p) <= MaxSkip /\ Encrypts(p) < MaxSkippedKeys
           /\ Encrypts(p) + MaxSkip <= MaxCounter
           /\ state[p].header_nonce_counter \in 0 .. Encrypts(p)
           /\ Copy(p).header_nonce_counter \in 0 .. state[p].header_nonce_counter
<1>1. /\ MaxSends[p] \in Nat /\ MaxMishaps \in Nat /\ MaxSkip \in Nat
      /\ MaxSkippedKeys \in Nat
  BY PartyAssumption, MishapAssumption, SkipAssumption DEF Party
<1>2. Encrypts(p) \in Nat
  BY <1>1 DEF Encrypts
<1>3. /\ state[p].header_nonce_counter \in Nat /\ saved[p].header_nonce_counter \in Nat
      /\ saved[p].header_nonce_counter <= state[p].header_nonce_counter
  BY DEF SInv, CopiesOK, CopyOK, NoncesLieBelow, CountersOK
<1>4. Copy(p).header_nonce_counter = saved[p].header_nonce_counter
  BY CopyFields DEF SessionFields
<1>5. state[p].header_nonce_counter <= Encrypts(p)
  <2> DEFINE sends == Cardinality(SentBy(p)) + Pending(p)
  <2>1. Cardinality(SentBy(p)) \in Nat /\ Pending(p) \in Nat /\ Lost(p) \in Nat
    BY FS_CardinalityType DEF EncryptsOK, Pending, Lost
  <2>2. /\ sends <= MaxSends[p] /\ mishaps \in 0 .. MaxMishaps
        /\ state[p].header_nonce_counter + Lost(p) <= sends + mishaps
    BY DEF EncryptsOK
  <2> QED BY <2>1, <2>2, <1>1, <1>3 DEF Encrypts
<1> QED BY <1>1, <1>2, <1>3, <1>4, <1>5 DEF SavedWithinLimits

(***************************************************************************)
(* The names that the other party has seen all fit into its store, and     *)
(* skip_message_keys adds to them without an eviction.                     *)
(***************************************************************************)
LEMMA SeenNamesFit ==
    ASSUME SavedWithinLimits, SInv, EncryptsOK, NEW q \in Party, NEW n, NEW c,
           NEW items, Spells(items, n, q, Copy(q), c)
    PROVE  IsFiniteSet(n) /\ Cardinality(n) < MaxSkippedKeys
<1>1. /\ IsFiniteSet(n) /\ Cardinality(n) \in Nat
      /\ Cardinality(n) <= Copy(q).header_nonce_counter
  BY FS_CardinalityType DEF Spells
<1> QED BY <1>1, Room

LEMMA SkipAddsSeen ==
    ASSUME NEW n, IsFiniteSet(n), Cardinality(n) < MaxSkippedKeys,
           NEW store, DOMAIN store \subseteq n,
           NEW ck, NEW hk, NEW from \in Nat, NEW to \in Nat, NoHoles(n, hk, to)
    PROVE  LET new == SkipMessageKeys(store, ck, hk, from, to)
           IN  /\ DOMAIN store \subseteq DOMAIN new
               /\ \A i \in from .. to - 1 : <<hk, i>> \in DOMAIN new
               /\ DOMAIN new \subseteq n
<1>1. {hk} \X (from .. to - 1) \subseteq n
  BY DEF NoHoles
<1>2. HasNames(SkipMessageKeys(store, ck, hk, from, to), store, hk, from, to)
  <2>1. DOMAIN store \cup ({hk} \X (from .. to - 1)) \in SUBSET n
    BY <1>1
  <2> QED BY <2>1, NothingEvicted
<1>3. \A i \in from .. to - 1 : <<hk, i>> \in {hk} \X (from .. to - 1)
  OBVIOUS
<1> QED BY <1>1, <1>2, <1>3 DEF HasNames

(***************************************************************************)
(* The views that the lemmas below look at, with what they say of all the  *)
(* messages that were sent, and of the outbox of a party in memory.        *)
(***************************************************************************)
LEMMA ViewLooksAt ==
    ASSUME ViewsInv, NEW d \in SUBSET Party
    PROVE  /\ Agree(EncryptedBy(Items, View(d)), View(d))
           /\ Sent \subseteq EncryptedBy(Items, View(d))
           /\ \A p \in Party : View(d)[p] = IF p \in d THEN Copy(p) ELSE state[p]
           /\ \A m \in Items : Sender(m) \notin d => m \in EncryptedBy(Items, View(d))
<1>1. Agree(EncryptedBy(Items, View(d)), View(d))
  BY DEF ViewsInv, ViewsAgree
<1>2. \A p \in Party : View(d)[p] = IF p \in d THEN Copy(p) ELSE state[p]
  BY DEF View, Copy
<1>3. \A m \in Items : Sender(m) \notin d => m \in EncryptedBy(Items, View(d))
  BY <1>2, ItemsLieBelow DEF ViewsInv, EncryptedBy
<1> QED BY <1>1, <1>2, <1>3, SentIsSeen DEF ViewsInv

-----------------------------------------------------------------------------
(* The counts.                                                             *)

(***************************************************************************)
(* decrypt for the host: the message counts as handed over, no other does. *)
(***************************************************************************)
LEMMA HandOne ==
    ASSUME EncryptsOK, NEW m \in Sent, Hand(m)
    PROVE  /\ Sent' = Sent /\ handed'[m] > 0
           /\ \A k \in Sent : /\ handed'[k] \in Nat
                              /\ k # m => handed'[k] = handed[k]
                              /\ handed[k] > 0 => handed'[k] > 0
<1>1. \A k \in Sent : handed[k] \in Nat
  BY DEF EncryptsOK
<1>2. /\ handed' = [handed EXCEPT ![m] = @ + 1] /\ Sent = DOMAIN handed
      /\ Sent' = DOMAIN handed'
  BY DEF Hand, Sent
<1> QED BY <1>1, <1>2

(***************************************************************************)
(* What a step does to the counts.                                         *)
(***************************************************************************)
LEMMA DecryptCounts ==
    ASSUME ViewsInv, EncryptsOK, NEW p \in Party, NEW m \in Sent,
           DecryptHanded(p, m) \/ DecryptedNull(p, m)
    PROVE  /\ \A q \in Party : state'[q].header_nonce_counter = state[q].header_nonce_counter
           /\ Sent' = Sent /\ Items' = Items /\ saved' = saved /\ outbox' = outbox
           /\ EncryptsOK'
<1> DEFINE s == state[p]
<1>1. PICK c : /\ state' = [state EXCEPT ![p] = c]
               /\ \/ c = WithoutSkippedKey(s, m)
                  \/ Admitted(s, m) /\ Committing(s, m, Fresh(pairs, p), c)
               /\ Sent' = Sent /\ saved' = saved /\ outbox' = outbox
  BY DecryptState DEF ViewsInv
<1>2. DOMAIN s = SessionFields
  BY DEF ViewsInv, SInv, CopiesOK, CopyOK
<1>3. c.header_nonce_counter = s.header_nonce_counter
  <2> HIDE DEF s
  <2>1. CASE c = WithoutSkippedKey(s, m)
    BY <1>2, <2>1, StoreShrinksSteps DEF StoreShrinks, SessionFields
  <2>2. CASE Committing(s, m, Fresh(pairs, p), c)
    <3>1. c.header_nonce_counter = Committed(s, m, Fresh(pairs, p)).header_nonce_counter
      BY <1>2, <2>2, CommittingFields DEF SessionFields
    <3>2. Committed(s, m, Fresh(pairs, p)).header_nonce_counter = s.header_nonce_counter
      BY <1>2, CommittedOnChain, CommittedRatchet DEF SessionFields
    <3> QED BY <3>1, <3>2
  <2> QED BY <1>1, <2>1, <2>2
<1>4. \A q \in Party : state'[q].header_nonce_counter = state[q].header_nonce_counter
  BY <1>1, <1>3 DEF ViewsInv, SInv, CopiesOK
<1>5. Items' = Items
  BY <1>1 DEF Items, Encrypted
<1>6. \A q \in Party : SentBy(q)' = SentBy(q) /\ Pending(q)' = Pending(q)
  BY <1>1 DEF SentBy, Sender, Pending
<1>7. /\ \A k \in Sent : handed'[k] \in Nat
      /\ mishaps' \in 0 .. MaxMishaps
      /\ DOMAIN lost' = Party
      /\ \A q \in Party :
            \/ mishaps' = mishaps /\ Lost(q)' = Lost(q)
            \/ mishaps' = mishaps + 1 /\ Lost(q)' <= Lost(q) + 1
  <2>1. CASE DecryptHanded(p, m)
    <3>1. lost' = lost /\ mishaps' = mishaps /\ Hand(m)
      BY <2>1 DEF DecryptHanded, DecryptWithSkippedKey, DecryptOnChain
    <3> QED BY <3>1, HandOne DEF EncryptsOK, Lost
  <2>2. CASE DecryptedNull(p, m)
    <3>1. /\ lost' = [lost EXCEPT ![p] = TRUE] /\ handed' = handed
          /\ mishaps < MaxMishaps /\ mishaps' = mishaps + 1
      BY <2>2 DEF DecryptedNull
    <3>2. \A q \in Party : Lost(q)' <= Lost(q) + 1
      BY DEF Lost
    <3> QED BY <3>1, <3>2, MishapAssumption DEF EncryptsOK
  <2> QED BY <2>1, <2>2
<1>8. ASSUME NEW q \in Party
      PROVE  LET sends == Cardinality(SentBy(q)) + Pending(q)
             IN  state[q].header_nonce_counter + Lost(q)' <= sends + mishaps'
  <2> DEFINE sends == Cardinality(SentBy(q)) + Pending(q)
  <2>1. /\ Cardinality(SentBy(q)) \in Nat /\ Pending(q) \in Nat
        /\ Lost(q) \in Nat /\ Lost(q)' \in Nat
    BY FS_CardinalityType DEF EncryptsOK, Pending, Lost
  <2>2. /\ state[q].header_nonce_counter + Lost(q) <= sends + mishaps
        /\ state[q].header_nonce_counter \in Nat /\ mishaps \in Nat
    BY DEF EncryptsOK, ViewsInv, SInv, CopiesOK, CopyOK
  <2> QED BY <1>7, <2>1, <2>2
<1>9. EncryptsOK'
  BY <1>1, <1>4, <1>6, <1>7, <1>8 DEF EncryptsOK
<1> QED BY <1>1, <1>4, <1>5, <1>9

(***************************************************************************)
(* A message in the outbox has not been sent.                              *)
(***************************************************************************)
LEMMA OutboxIsUnsent ==
    ASSUME SInv, NEW p \in Party, outbox[p] # None
    PROVE  /\ Sender(outbox[p]) = p /\ outbox[p] \notin Sent
           /\ outbox[p] \in Items /\ outbox[p].nonce.counter \in Nat
<1>1. CountersOK(Sent, outbox[p], p, state[p], saved[p])
  BY DEF SInv, NoncesLieBelow
<1>2. outbox[p] \in Items
  BY DEF Items, Encrypted
<1>3. outbox[p].nonce.counter \in Nat
  BY <1>2 DEF SInv, MessagesOK, ItemOK
<1> QED BY <1>1, <1>2, <1>3 DEF CountersOK

LEMMA SaveCounts ==
    ASSUME EncryptsOK, NEW p \in Party, Save(p)
    PROVE  EncryptsOK'
<1>1. /\ state' = state /\ handed' = handed /\ outbox' = outbox
      /\ lost' = lost /\ mishaps' = mishaps
  BY DEF Save, vars
<1>2. Sent' = Sent /\ \A q : SentBy(q)' = SentBy(q)
  BY <1>1 DEF Sent, SentBy, Sender
<1> QED BY <1>1, <1>2 DEF EncryptsOK, Pending, Lost

LEMMA OutboxCounts ==
    ASSUME NoneIsNoMessage, ViewsInv, EncryptsOK, NEW p \in Party, EncryptToOutbox(p)
    PROVE  /\ EncryptsOK'
           /\ state'[p].header_nonce_counter = state[p].header_nonce_counter + 1
<1> DEFINE s == state[p]
           new == Packet(s)
<1>1. /\ state' = [state EXCEPT ![p] = AfterEncrypt(s)]
      /\ outbox' = [outbox EXCEPT ![p] = new]
      /\ handed' = handed /\ lost' = lost /\ mishaps' = mishaps
      /\ Cardinality(SentBy(p)) < MaxSends[p] /\ outbox[p] = None
  BY DEF EncryptToOutbox, MaySend
<1>2. Sent' = Sent /\ \A q : SentBy(q)' = SentBy(q)
  BY <1>1 DEF Sent, SentBy, Sender
<1>3. AfterEncrypt(s).header_nonce_counter = s.header_nonce_counter + 1
  <2>1. DOMAIN s = SessionFields
    BY DEF ViewsInv, SInv, CopiesOK, CopyOK
  <2> HIDE DEF s
  <2> QED BY <2>1 DEF AfterEncrypt, Numbered, ChainAdvanced, SessionFields
<1> HIDE DEF new
<1>4. /\ state'[p].header_nonce_counter = state[p].header_nonce_counter + 1
      /\ \A q \in Party \ {p} : state'[q] = state[q] /\ outbox'[q] = outbox[q]
  BY <1>1, <1>3 DEF ViewsInv, SInv, CopiesOK
<1>5. \A q \in Party : Lost(q)' = Lost(q)
  BY <1>1 DEF Lost
<1>6. /\ \A q \in Party \ {p} : Pending(q)' = Pending(q)
      /\ Pending(p) = 0 /\ Pending(p)' \in {0, 1}
  BY <1>1, <1>4 DEF Pending
<1>7. Pending(p)' = 1
  <2>1. new # None
    BY DEF NoneIsNoMessage, new
  <2> QED BY <2>1, <1>1 DEF Pending, ViewsInv, SInv
<1>8. ASSUME NEW q \in Party
      PROVE  LET sends == Cardinality(SentBy(q)) + Pending(q)'
             IN  /\ sends <= MaxSends[q]
                 /\ state'[q].header_nonce_counter + Lost(q) <= sends + mishaps
  <2>1. /\ Cardinality(SentBy(q)) \in Nat /\ Pending(q) \in Nat /\ Lost(q) \in Nat
        /\ MaxSends[q] \in Nat
    BY FS_CardinalityType, PartyAssumption DEF EncryptsOK, Pending, Lost, Party
  <2>2. /\ state[q].header_nonce_counter + Lost(q) <= Cardinality(SentBy(q)) + Pending(q) + mishaps
        /\ state[q].header_nonce_counter \in Nat /\ mishaps \in Nat
        /\ Cardinality(SentBy(q)) + Pending(q) <= MaxSends[q]
    BY DEF EncryptsOK, ViewsInv, SInv, CopiesOK, CopyOK
  <2>3. CASE q = p
    BY <2>1, <2>2, <2>3, <1>1, <1>4, <1>6, <1>7
  <2>4. CASE q # p
    BY <2>1, <2>2, <2>4, <1>4, <1>6
  <2> QED BY <2>3, <2>4
<1> QED BY <1>1, <1>2, <1>4, <1>5, <1>8 DEF EncryptsOK

LEMMA SendCounts ==
    ASSUME ViewsInv, EncryptsOK, NEW p \in Party, Send(p)
    PROVE  /\ EncryptsOK'
           /\ Sent' = Sent \cup {outbox[p]} /\ Items' \subseteq Items
           /\ \A m \in Sent : handed'[m] = handed[m]
           /\ handed'[outbox[p]] = 0
           /\ Read \subseteq Read' /\ \A q : Unread(q)' \subseteq Unread(q)
<1> DEFINE out == outbox[p]
<1>1. /\ handed' = [m \in Sent \cup {out} |-> IF m \in Sent THEN handed[m] ELSE 0]
      /\ outbox' = [outbox EXCEPT ![p] = None] /\ out # None
      /\ state' = state /\ lost' = lost /\ mishaps' = mishaps
  BY DEF Send
<1>2. Sender(out) = p /\ out \notin Sent
  BY <1>1, OutboxIsUnsent DEF ViewsInv
<1>3. /\ Sent' = Sent \cup {out}
      /\ \A m \in Sent : handed'[m] = handed[m]
      /\ handed'[out] = 0
  BY <1>1, <1>2 DEF Sent
<1>4. Items' \subseteq Items
  BY SendViews
<1>5. Read \subseteq Read' /\ \A q : Unread(q)' \subseteq Unread(q)
  BY <1>3, <1>4 DEF Unread, Read, Sender
<1> HIDE DEF out
<1>6. SentBy(p)' = SentBy(p) \cup {out} /\ \A q \in Party \ {p} : SentBy(q)' = SentBy(q)
  BY <1>2, <1>3 DEF SentBy, Sender
<1>7. /\ IsFiniteSet(SentBy(p)') /\ Cardinality(SentBy(p)') = Cardinality(SentBy(p)) + 1
  <2>1. IsFiniteSet(SentBy(p)) /\ out \notin SentBy(p)
    BY <1>2 DEF EncryptsOK, SentBy
  <2> QED BY <2>1, <1>6, FS_AddElement
<1>8. /\ Pending(p) = 1 /\ Pending(p)' = 0
      /\ \A q \in Party \ {p} : Pending(q)' = Pending(q)
      /\ \A q \in Party : Lost(q)' = Lost(q)
  BY <1>1 DEF Pending, Lost, out, ViewsInv, SInv
<1>9. ASSUME NEW q \in Party
      PROVE  LET sends == Cardinality(SentBy(q)') + Pending(q)'
             IN  /\ IsFiniteSet(SentBy(q)')
                 /\ sends <= MaxSends[q]
                 /\ state[q].header_nonce_counter + Lost(q) <= sends + mishaps
  <2>1. /\ IsFiniteSet(SentBy(q)) /\ Cardinality(SentBy(q)) \in Nat
        /\ LET sends == Cardinality(SentBy(q)) + Pending(q)
           IN  /\ sends <= MaxSends[q]
               /\ state[q].header_nonce_counter + Lost(q) <= sends + mishaps
    BY FS_CardinalityType DEF EncryptsOK
  <2>2. CASE q = p
    <3>1. Cardinality(SentBy(q)') + Pending(q)' = Cardinality(SentBy(q)) + Pending(q)
      BY <2>1, <2>2, <1>7, <1>8
    <3> QED BY <2>1, <2>2, <3>1, <1>7
  <2>3. CASE q # p
    BY <2>1, <2>3, <1>6, <1>8
  <2> QED BY <2>2, <2>3
<1>10. \A k \in Sent' : handed'[k] \in Nat
  BY <1>3 DEF EncryptsOK
<1>11. EncryptsOK'
  BY <1>1, <1>8, <1>9, <1>10 DEF EncryptsOK
<1> QED BY <1>3, <1>4, <1>5, <1>11 DEF out

LEMMA RestartCounts ==
    ASSUME ViewsInv, EncryptsOK, NEW p \in Party, Restart(p)
    PROVE  EncryptsOK'
<1>1. /\ state' = [state EXCEPT ![p] = Copy(p)]
      /\ outbox' = [outbox EXCEPT ![p] = None]
      /\ lost' = [lost EXCEPT ![p] = FALSE]
      /\ mishaps' = IF lost[p] THEN mishaps ELSE mishaps + 1
      /\ lost[p] \/ mishaps < MaxMishaps
      /\ handed' = handed
  BY DEF Restart, Copy
<1>2. Sent' = Sent /\ \A q : SentBy(q)' = SentBy(q)
  BY <1>1 DEF Sent, SentBy, Sender
<1>3. /\ state'[p] = Copy(p) /\ \A q \in Party \ {p} : state'[q] = state[q]
      /\ Pending(p)' = 0 /\ \A q \in Party \ {p} : Pending(q)' = Pending(q)
      /\ Lost(p)' = 0 /\ \A q \in Party \ {p} : Lost(q)' = Lost(q)
      /\ DOMAIN lost' = Party
  BY <1>1 DEF ViewsInv, SInv, CopiesOK, EncryptsOK, Pending, Lost
<1>4. /\ Copy(p).header_nonce_counter \in Nat /\ state[p].header_nonce_counter \in Nat
      /\ Copy(p).header_nonce_counter <= state[p].header_nonce_counter
  <2>1. {} \in SUBSET Party
    OBVIOUS
  <2> QED BY <2>1, SentIsSeen DEF ViewsInv, Copy
<1>5. /\ mishaps \in 0 .. MaxMishaps /\ mishaps' \in 0 .. MaxMishaps
      /\ mishaps' + Lost(p) = mishaps + 1
  BY <1>1, MishapAssumption DEF EncryptsOK, Lost
<1>6. ASSUME NEW q \in Party
      PROVE  LET sends == Cardinality(SentBy(q)) + Pending(q)'
             IN  /\ sends <= MaxSends[q]
                 /\ state'[q].header_nonce_counter + Lost(q)' <= sends + mishaps'
  <2>1. /\ Cardinality(SentBy(q)) \in Nat /\ Pending(q) \in {0, 1} /\ Lost(q) \in {0, 1}
        /\ MaxSends[q] \in Nat /\ state[q].header_nonce_counter \in Nat
    BY FS_CardinalityType, PartyAssumption
       DEF EncryptsOK, Pending, Lost, Party, ViewsInv, SInv, CopiesOK, CopyOK
  <2>2. /\ state[q].header_nonce_counter + Lost(q) <= Cardinality(SentBy(q)) + Pending(q) + mishaps
        /\ Cardinality(SentBy(q)) + Pending(q) <= MaxSends[q]
    BY DEF EncryptsOK
  <2>3. CASE q = p
    BY <2>1, <2>2, <2>3, <1>3, <1>4, <1>5
  <2>4. CASE q # p
    <3>1. mishaps' >= mishaps
      BY <1>1, <1>5
    <3> QED BY <2>1, <2>2, <2>4, <3>1, <1>3, <1>5
  <2> QED BY <2>3, <2>4
<1> QED BY <1>1, <1>2, <1>3, <1>5, <1>6 DEF EncryptsOK

-----------------------------------------------------------------------------
(* What a decrypt makes of the session, in the words of RecoveryInv.       *)

(***************************************************************************)
(* A key of the store is used.                                             *)
(***************************************************************************)
Uses(s, m, c) ==
    /\ \A f \in SessionFields \ {"mkskipped"} : c[f] = s[f]
    /\ DOMAIN c.mkskipped = DOMAIN s.mkskipped \ {<<m.hk, m.n>>}

(***************************************************************************)
(* The receiving chain moves by one key, past those it stores.             *)
(***************************************************************************)
Passes(s, m, c) ==
    /\ m.hk = s.hk_r /\ s.ck_r # None /\ s.nr \in Nat /\ s.nr <= m.n
    /\ c.mkskipped = SkipMessageKeys(s.mkskipped, s.ck_r, s.hk_r, s.nr, m.n)
    /\ c.nr = s.nr + 1
    /\ \A f \in SessionFields \ {"ck_r", "nr", "mkskipped", "received_messages"} :
          c[f] = s[f]
    /\ c.received_messages \subseteq s.received_messages \cup {MessageId(m)}

(***************************************************************************)
(* The session takes the lead from o, a session of the other party.        *)
(***************************************************************************)
Overtakes(s, m, o, c) ==
    /\ m.hk = s.nhk_r /\ m.hk = o.hk_s /\ s.hk_r # o.hk_s /\ o.hk_r = s.hk_s
    /\ m.pn = o.pn /\ s.nr \in Nat /\ s.nr <= m.pn /\ m.mk[2] = o.ck_s[1]
    /\ c.mkskipped = SkipMessageKeys(PreviousChainStored(s, m),
                                     <<o.rk, 0>>, s.nhk_r, 0, m.n)
    /\ c.pn = s.ns /\ c.ns = 0 /\ c.nr = 1
    /\ c.hk_s = s.nhk_s /\ c.hk_r = s.nhk_r
    /\ c.received_messages \subseteq {MessageId(m)}

(***************************************************************************)
(* Where the other party stands makes no difference, in memory or on disk. *)
(***************************************************************************)
LEMMA CommitPasses ==
    ASSUME ViewsInv, NEW p \in Party, NEW m \in Sent, Admitted(state[p], m),
           NEW fresh, NEW c, Committing(state[p], m, fresh, c),
           ~DhRatchetNeeded(state[p], m)
    PROVE  Passes(state[p], m, c)
<1> DEFINE s == state[p]
           st == View({})
           msgs == EncryptedBy(Items, st)
<1>1. /\ Agree(msgs, st) /\ m \in msgs /\ st[p] = s
  <2>1. {} \in SUBSET Party
    OBVIOUS
  <2> QED BY <2>1, ViewLooksAt
<1> HIDE DEF st, msgs, s
<1>2. PICK l \in Party : Turn(st, l) /\ \A k \in msgs : PreviousOK(st, l, k)
  BY <1>1 DEF Agree, Aligned
<1>3. /\ InNumber(s) /\ KeysOK(st) /\ Plain(m) /\ MessageOK(st, m)
      /\ m.n \in Nat /\ m.mk = <<"mk", m.mk[2], m.n>> /\ s.nr \in Nat
  BY <1>1 DEF Agree, Aligned, InNumber, Plain, MessageOK
<1>4. m.hk = s.hk_r
  BY DEF DhRatchetNeeded, s
<1>5. s.ck_r # None
  BY <1>1, <1>2, <1>3, <1>4, ReceivingChainInView
<1>6. s.nr <= m.n
  BY <1>3, <1>5, NumberIsAhead DEF s
<1>7. /\ c.nr = s.nr + 1
      /\ c.mkskipped = SkipMessageKeys(s.mkskipped, s.ck_r, s.hk_r, s.nr, m.n)
      /\ \A f \in SessionFields \ {"ck_r", "nr", "mkskipped", "received_messages"} :
            c[f] = s[f]
      /\ c.received_messages \subseteq s.received_messages \cup {MessageId(m)}
  <2>1. Committing(s, m, fresh, c) /\ ~DhRatchetNeeded(s, m)
    BY DEF s
  <2> QED BY <2>1, <1>3, <1>5, CommittingOnChain
<1>8. Passes(s, m, c)
  BY <1>3, <1>4, <1>5, <1>6, <1>7 DEF Passes
<1> QED BY <1>8 DEF s

LEMMA CommitOvertakes ==
    ASSUME NoneIsNoKey, ViewsInv, NEW p \in Party, NEW m \in Sent, Admitted(state[p], m),
           NEW fresh, NEW c, Committing(state[p], m, fresh, c),
           DhRatchetNeeded(state[p], m),
           NEW o \in {state[Peer(p)], Copy(Peer(p))}
    PROVE  /\ Overtakes(state[p], m, o, c) /\ o.pn \in Nat
           /\ c.header_nonce_counter = state[p].header_nonce_counter
<1> DEFINE s == state[p]
           q == Peer(p)
<1>1. PICK d \in SUBSET Party : p \notin d /\ o = IF q \in d THEN Copy(q) ELSE state[q]
  <2>1. CASE o = state[q]
    <3>1. {} \in SUBSET Party /\ p \notin {} /\ q \notin {}
      OBVIOUS
    <3> QED BY <2>1, <3>1
  <2>2. CASE o = Copy(q)
    <3>1. {q} \in SUBSET Party /\ p \notin {q} /\ q \in {q}
      BY TwoParties
    <3> QED BY <2>2, <3>1
  <2> QED BY <2>1, <2>2
<1> DEFINE st == View(d)
           msgs == EncryptedBy(Items, st)
<1>2. /\ Agree(msgs, st) /\ m \in msgs /\ st[p] = s /\ st[q] = o
      /\ q \in Party /\ \A r \in Party : r = p \/ r = q
  BY <1>1, ViewLooksAt, TwoParties
<1>3. DOMAIN s = SessionFields
  BY DEF ViewsInv, SInv, CopiesOK, CopyOK
<1> HIDE DEF st, msgs, s
<1>4. PICK l \in Party : Turn(st, l) /\ \A k \in msgs : PreviousOK(st, l, k)
  BY <1>2 DEF Agree, Aligned
<1>5. /\ InNumber(s) /\ InNumber(o) /\ MessageOK(st, m)
      /\ s.nr \in Nat /\ o.pn \in Nat
  BY <1>2 DEF Agree, Aligned, InNumber
<1>6. /\ p = Peer(l) /\ m.hk = s.nhk_r /\ m.hk = st[l].hk_s /\ SentOn(m, l, st[l])
  <2>1. Admitted(st[p], m) /\ DhRatchetNeeded(st[p], m)
    BY <1>2 DEF s
  <2> QED BY <2>1, <1>2, <1>4, <1>5, RatchetIsTheOthersInView
<1>7. l = q /\ Peer(l) = p
  BY <1>6, TwoParties
<1>8. /\ Leads(o, s) /\ o.hk_s # s.hk_r /\ m.hk = o.hk_s /\ SentOn(m, q, o)
  BY <1>2, <1>4, <1>6, <1>7 DEF Turn
<1>9. /\ o.hk_r = s.hk_s /\ s.nr <= o.pn
  BY <1>8 DEF Leads
<1>10. m.pn = o.pn /\ m.mk[2] = o.ck_s[1] /\ m.dh_pub = o.dh_pair
  BY <1>8 DEF SentOn
<1>11. /\ TakesTheLead(o, s, c, fresh)
       /\ c.mkskipped = SkipMessageKeys(PreviousChainStored(s, m), <<o.rk, 0>>, s.nhk_r, 0, m.n)
       /\ c.received_messages \subseteq {MessageId(m)}
  <2>1. Committing(s, m, fresh, c) /\ DhRatchetNeeded(s, m)
    BY DEF s
  <2> HIDE DEF q
  <2> QED BY <2>1, <1>5, <1>8, <1>10, CommittingTakesTheLead
<1>12. Overtakes(s, m, o, c)
  BY <1>5, <1>6, <1>8, <1>9, <1>10, <1>11 DEF Overtakes, TakesTheLead
<1>13. c.header_nonce_counter = s.header_nonce_counter
  <2>1. c.header_nonce_counter = Committed(s, m, fresh).header_nonce_counter
    BY <1>3, CommittingFields DEF SessionFields, s
  <2>2. Committed(s, m, fresh).header_nonce_counter = s.header_nonce_counter
    BY <1>3, CommittedRatchet DEF s
  <2> QED BY <2>1, <2>2
<1> QED BY <1>5, <1>12, <1>13 DEF s

LEMMA StoredKeyUsed ==
    ASSUME NEW s, NEW m, DOMAIN s = SessionFields
    PROVE  Uses(s, m, WithoutSkippedKey(s, m))
<1> DEFINE store == Restrict(s.mkskipped, DOMAIN s.mkskipped \ {<<m.hk, m.n>>})
<1>1. DOMAIN store = DOMAIN s.mkskipped \ {<<m.hk, m.n>>}
  BY DEF Restrict
<1>2. WithoutSkippedKey(s, m) = [s EXCEPT !.mkskipped = store]
  BY DEF WithoutSkippedKey
<1> HIDE DEF store
<1> QED BY <1>1, <1>2 DEF Uses, SessionFields

(***************************************************************************)
(* The three ways in one place, for the sessions o of the other party.     *)
(***************************************************************************)
OtherSessions(p) == {state[Peer(p)], Copy(Peer(p))}

Moved(p, m, c) ==
    /\ c.header_nonce_counter = state[p].header_nonce_counter
    /\ \/ Uses(state[p], m, c)
       \/ Passes(state[p], m, c)
       \/ \A o \in OtherSessions(p) : Overtakes(state[p], m, o, c)

LEMMA DecryptMoves ==
    ASSUME NoneIsNoKey, ViewsInv, NEW p \in Party, NEW m \in Sent,
           DecryptHanded(p, m) \/ DecryptedNull(p, m)
    PROVE  \E c : /\ \A q \in Party : state'[q] = IF q = p THEN c ELSE state[q]
                  /\ Moved(p, m, c)
                  /\ Sent' = Sent /\ saved' = saved /\ outbox' = outbox
<1> DEFINE s == state[p]
<1>1. PICK c : /\ state' = [state EXCEPT ![p] = c]
               /\ \/ c = WithoutSkippedKey(s, m)
                  \/ Admitted(s, m) /\ Committing(s, m, Fresh(pairs, p), c)
               /\ Sent' = Sent /\ saved' = saved /\ outbox' = outbox
  BY DecryptState DEF ViewsInv
<1>2. \A q \in Party : state'[q] = IF q = p THEN c ELSE state[q]
  BY <1>1 DEF ViewsInv, SInv, CopiesOK
<1>3. DOMAIN s = SessionFields
  BY DEF ViewsInv, SInv, CopiesOK, CopyOK
<1>4. Moved(p, m, c)
  <2>1. CASE c = WithoutSkippedKey(s, m)
    <3> HIDE DEF s
    <3>1. Uses(s, m, c)
      BY <2>1, <1>3, StoredKeyUsed
    <3> QED BY <3>1 DEF Moved, Uses, SessionFields, s
  <2>2. CASE Admitted(s, m) /\ Committing(s, m, Fresh(pairs, p), c)
    <3> DEFINE fresh == Fresh(pairs, p)
    <3>1. Admitted(s, m) /\ Committing(s, m, fresh, c)
      BY <2>2
    <3> HIDE DEF fresh
    <3>2. CASE DhRatchetNeeded(s, m)
      BY <3>1, <3>2, CommitOvertakes DEF Moved, OtherSessions
    <3>3. CASE ~DhRatchetNeeded(s, m)
      <4>1. Passes(s, m, c)
        BY <3>1, <3>3, CommitPasses
      <4> QED BY <4>1 DEF Moved, Passes, SessionFields
    <3> QED BY <3>2, <3>3
  <2> QED BY <1>1, <2>1, <2>2
<1> QED BY <1>1, <1>2, <1>4

-----------------------------------------------------------------------------
(* The numbers, step by step.                                              *)

(***************************************************************************)
(* A step of p of which it is enough to look at the session of p and at    *)
(* the copies.                                                             *)
(***************************************************************************)
LEMMA NumbersStay ==
    ASSUME NumbersOK, NEW p \in Party,
           \A q \in Party \ {p} : state'[q] = state[q],
           NumbersFit(state'[p]),
           \A q \in Party : Copy(q)' = Copy(q) \/ NumbersFit(Copy(q)'),
           \A m \in Items' : m \in Items \/ m.n <= m.nonce.counter
    PROVE  NumbersOK'
<1>1. ASSUME NEW q \in Party PROVE NumbersFit(state'[q]) /\ NumbersFit(Copy(q)')
  BY DEF NumbersOK
<1>2. \A m \in Items' : m.n <= m.nonce.counter
  BY DEF NumbersOK
<1> QED BY <1>1, <1>2 DEF NumbersOK, NumbersFit

LEMMA SaveNumbers ==
    ASSUME ViewsInv, NumbersOK, NEW p \in Party, Save(p)
    PROVE  /\ NumbersOK' /\ state' = state /\ Items' = Items
           /\ \A q \in Party \ {p} : Copy(q)' = Copy(q)
           /\ LET c == Copy(p)'
              IN  /\ \A f \in SessionFields \ {"mkskipped"} : c[f] = state[p][f]
                  /\ DOMAIN c.mkskipped = DOMAIN state[p].mkskipped
<1> DEFINE s == state[p]
<1>1. /\ saved' = [saved EXCEPT ![p] = Serialized(s)]
      /\ state' = state /\ Items' = Items
  BY DEF Save, vars, Items, Encrypted, Sent
<1>2. DOMAIN s = SessionFields
  BY DEF ViewsInv, SInv, CopiesOK, CopyOK
<1>3. /\ Copy(p)' = Deserialized(Serialized(s))
      /\ \A q \in Party \ {p} : Copy(q)' = Copy(q)
  BY <1>1 DEF Copy, ViewsInv, SInv, CopiesOK
<1> HIDE DEF s
<1>4. /\ \A f \in SessionFields \ {"mkskipped"} : Copy(p)'[f] = s[f]
      /\ DOMAIN Copy(p)'.mkskipped = DOMAIN s.mkskipped
  BY <1>2, <1>3, CopyJustMade
<1>5. NumbersFit(s)
  BY DEF NumbersOK, s
<1>6. NumbersFit(Copy(p)')
  BY <1>4, <1>5 DEF NumbersFit, SessionFields
<1>7. NumbersOK'
  <2>1. NumbersFit(state'[p])
    BY <1>1, <1>5 DEF s
  <2> QED BY <2>1, <1>1, <1>3, <1>6, NumbersStay
<1> QED BY <1>1, <1>3, <1>4, <1>7 DEF s

LEMMA OutboxNumbers ==
    ASSUME ViewsInv, NumbersOK, NEW p \in Party, EncryptToOutbox(p)
    PROVE  LET s == state[p]
               c == AfterEncrypt(s)
               new == Packet(s)
           IN  /\ NumbersOK'
               /\ state'[p] = c /\ \A q \in Party \ {p} : state'[q] = state[q]
               /\ c.ns = s.ns + 1 /\ s.ns \in Nat /\ s.header_nonce_counter \in Nat
               /\ c.header_nonce_counter = s.header_nonce_counter + 1
               /\ \A f \in SessionFields \ {"ck_s", "ns", "header_nonce_counter"} : c[f] = s[f]
               /\ \A q \in Party : Copy(q)' = Copy(q)
               /\ handed' = handed /\ lost' = lost
               /\ Items' \subseteq Items \cup {new}
               /\ Sender(new) = p /\ new.hk = s.hk_s /\ new.n = s.ns
               /\ new.nonce.counter = s.header_nonce_counter
<1> DEFINE s == state[p]
           c == AfterEncrypt(s)
           new == Packet(s)
<1>1. /\ state' = [state EXCEPT ![p] = c] /\ saved' = saved
      /\ outbox' = [outbox EXCEPT ![p] = new]
      /\ handed' = handed /\ lost' = lost
      /\ ValidForEncryption(s)
  BY ErrorAssumption DEF EncryptToOutbox, EncryptError, Errors
<1>2. /\ CopyOK(pairs, Sent, p, s) /\ DOMAIN s = SessionFields
      /\ s.ns \in Nat /\ s.header_nonce_counter \in Nat /\ s.pn \in Nat
  BY DEF ViewsInv, SInv, CopiesOK, CopyOK
<1>3. /\ state'[p] = c /\ \A q \in Party \ {p} : state'[q] = state[q]
      /\ \A q \in Party : Copy(q)' = Copy(q)
  BY <1>1 DEF ViewsInv, SInv, CopiesOK, Copy
<1>4. Items' \subseteq Items \cup {new}
  <2>1. \A q \in Party : outbox'[q] \in {new, outbox[q]}
    BY <1>1 DEF ViewsInv, SInv
  <2> QED BY <2>1, <1>1 DEF Items, Encrypted, Sent
<1>5. NumbersFit(s)
  BY DEF NumbersOK
<1> HIDE DEF s
<1>6. new.hk = s.hk_s /\ new.n = s.ns
  BY DEF Packet
<1>7. new.nonce.counter = s.header_nonce_counter /\ Sender(new) = p
  <2>1. EncryptedIn(p, s, new) /\ new.nonce.counter = s.header_nonce_counter
    BY <1>1, <1>2, PacketFits
  <2> HIDE DEF new
  <2> QED BY <2>1 DEF EncryptedIn
<1>8. /\ c.ns = s.ns + 1 /\ c.header_nonce_counter = s.header_nonce_counter + 1
      /\ \A f \in SessionFields \ {"ck_s", "ns", "header_nonce_counter"} : c[f] = s[f]
  BY <1>2 DEF AfterEncrypt, Numbered, ChainAdvanced, KdfCk, SessionFields
<1> HIDE DEF c, new
<1>9. NumbersFit(c) /\ new.n <= new.nonce.counter
  <2>1. c.pn = s.pn
    BY <1>8 DEF SessionFields
  <2> QED BY <2>1, <1>2, <1>5, <1>6, <1>7, <1>8 DEF NumbersFit
<1>10. NumbersOK'
  <2>1. \A m \in Items' : m \in Items \/ m.n <= m.nonce.counter
    BY <1>4, <1>9
  <2> QED BY <2>1, <1>3, <1>9, NumbersStay
<1> QED BY <1>1, <1>2, <1>3, <1>4, <1>6, <1>7, <1>8, <1>10 DEF s, c, new

LEMMA DecryptNumbers ==
    ASSUME ViewsInv, NumbersOK, NEW p \in Party, NEW m \in Sent, NEW c,
           \A q \in Party : state'[q] = IF q = p THEN c ELSE state[q],
           Moved(p, m, c),
           Sent' = Sent, saved' = saved, outbox' = outbox
    PROVE  NumbersOK' /\ Items' = Items /\ \A q : Copy(q)' = Copy(q)
<1> DEFINE s == state[p]
<1>1. Items' = Items /\ \A q : Copy(q)' = Copy(q)
  BY DEF Items, Encrypted, Copy
<1>2. /\ NumbersFit(s) /\ s.ns \in Nat /\ s.header_nonce_counter \in Nat
  BY DEF NumbersOK, ViewsInv, SInv, CopiesOK, CopyOK
<1>3. /\ c.header_nonce_counter = s.header_nonce_counter
      /\ \/ c.ns = s.ns /\ c.pn = s.pn
         \/ c.ns = 0 /\ c.pn = s.ns
  <2> HIDE DEF s
  <2>1. CASE Uses(s, m, c)
    BY <2>1 DEF Moved, Uses, SessionFields, s
  <2>2. CASE Passes(s, m, c)
    BY <2>2 DEF Moved, Passes, SessionFields, s
  <2>3. CASE \A o \in OtherSessions(p) : Overtakes(s, m, o, c)
    BY <2>3 DEF Moved, Overtakes, OtherSessions, s
  <2> QED BY <2>1, <2>2, <2>3 DEF Moved, s
<1>4. NumbersFit(c)
  <2> HIDE DEF s
  <2> QED BY <1>2, <1>3 DEF NumbersFit
<1> QED BY <1>1, <1>4, NumbersStay

(***************************************************************************)
(* The copy is as good as the session that starts from it.                 *)
(***************************************************************************)
LEMMA RestartNumbers ==
    ASSUME ViewsInv, NumbersOK, NEW p \in Party, Restart(p)
    PROVE  /\ NumbersOK'
           /\ state'[p] = Copy(p) /\ \A q \in Party \ {p} : state'[q] = state[q]
           /\ \A q : Copy(q)' = Copy(q)
           /\ Items' \subseteq Items /\ handed' = handed /\ Sent' = Sent
           /\ lost' = [lost EXCEPT ![p] = FALSE]
<1>1. /\ state' = [state EXCEPT ![p] = Copy(p)]
      /\ outbox' = [outbox EXCEPT ![p] = None]
      /\ saved' = saved /\ handed' = handed /\ Sent' = Sent
      /\ lost' = [lost EXCEPT ![p] = FALSE]
  BY DEF Restart, Sent, Copy
<1>2. /\ state'[p] = Copy(p) /\ \A q \in Party \ {p} : state'[q] = state[q]
      /\ \A q : Copy(q)' = Copy(q)
  BY <1>1 DEF ViewsInv, SInv, CopiesOK, Copy
<1>3. Items' \subseteq Items
  <2>1. \A q \in Party : outbox'[q] \in {None, outbox[q]}
    BY <1>1 DEF ViewsInv, SInv
  <2> QED BY <2>1, <1>1 DEF Items, Encrypted
<1>4. NumbersOK'
  <2>1. NumbersFit(state'[p])
    BY <1>2 DEF NumbersOK
  <2> QED BY <2>1, <1>2, <1>3, NumbersStay
<1> QED BY <1>1, <1>2, <1>3, <1>4

-----------------------------------------------------------------------------
(* The names, step by step.                                                *)

(***************************************************************************)
(* Only the numbers of the sender's session and the chain that the other   *)
(* one receives on matter.                                                 *)
(***************************************************************************)
LEMMA SpellsAlike ==
    ASSUME NEW items, NEW n, NEW q, NEW o, NEW c, Spells(items, n, q, o, c),
           NEW fewer \in SUBSET items,
           NEW o2, o2.header_nonce_counter = o.header_nonce_counter,
           o2.hk_s = o.hk_s, o2.ns = o.ns, o2.pn = o.pn,
           NEW c2, c2.hk_r = c.hk_r, c2.ck_r # None => c.ck_r # None
    PROVE  Spells(fewer, n, q, o2, c2)
BY DEF Spells

(***************************************************************************)
(* One more name is enough for one more message of the same chain.         *)
(***************************************************************************)
LEMMA SpellsOneMore ==
    ASSUME NEW items, NEW n, NEW q, NEW o, NEW c, Spells(items, n, q, o, c),
           o.header_nonce_counter \in Nat, o.ns \in Nat,
           \A m \in items : Sender(m) = q => m.nonce.counter < o.header_nonce_counter,
           NEW new, new.hk = o.hk_s, new.n = o.ns,
           NEW more \in SUBSET (items \cup {new}),
           NEW o2, o2.header_nonce_counter = o.header_nonce_counter + 1,
           o2.hk_s = o.hk_s, o2.ns = o.ns + 1, o2.pn = o.pn
    PROVE  Spells(more, n \cup {<<o.hk_s, o.ns>>}, q, o2, c)
<1> DEFINE n2 == n \cup {<<o.hk_s, o.ns>>}
<1>1. IsFiniteSet(n2) /\ Cardinality(n2) <= o.header_nonce_counter + 1
  <2>1. IsFiniteSet(n) /\ Cardinality(n) \in Nat /\ Cardinality(n) <= o.header_nonce_counter
    BY FS_CardinalityType DEF Spells
  <2>2. CASE <<o.hk_s, o.ns>> \in n
    <3>1. n2 = n
      BY <2>2
    <3> QED BY <2>1, <3>1
  <2>3. CASE <<o.hk_s, o.ns>> \notin n
    <3>1. IsFiniteSet(n2) /\ Cardinality(n2) = Cardinality(n) + 1
      BY <2>1, <2>3, FS_AddElement
    <3> QED BY <2>1, <3>1
  <2> QED BY <2>2, <2>3
<1>2. \A hk, i : NoHoles(n, hk, i) => NoHoles(n2, hk, i)
  BY DEF NoHoles
<1>3. NoHoles(n2, o.hk_s, o.ns)
  BY <1>2 DEF Spells
<1>4. NoHoles(n2, o.hk_s, o.ns + 1)
  BY <1>3 DEF NoHoles
<1>5. ASSUME NEW m \in more, Sender(m) = q PROVE NoHoles(n2, m.hk, m.n)
  <2>1. CASE m \in items
    BY <2>1, <1>2, <1>5 DEF Spells
  <2>2. CASE m = new
    BY <2>2, <1>3
  <2> QED BY <2>1, <2>2
<1>6. c.ck_r # None /\ c.hk_r # o2.hk_s => NoHoles(n2, c.hk_r, o2.pn)
  BY <1>2 DEF Spells
<1> HIDE DEF n2
<1>7. Spells(more, n2, q, o2, c)
  BY <1>1, <1>4, <1>5, <1>6 DEF Spells
<1> QED BY <1>7 DEF n2

(***************************************************************************)
(* A save makes all names of p those of its copy, too.                     *)
(***************************************************************************)
LEMMA SaveNames ==
    ASSUME ViewsInv, NumbersOK, NamesOK, NEW p \in Party, Save(p)
    PROVE  NamesOK'
<1> DEFINE c == Copy(p)'
<1>1. /\ state' = state /\ Items' = Items
      /\ \A q \in Party \ {p} : Copy(q)' = Copy(q)
      /\ \A f \in SessionFields \ {"mkskipped"} : c[f] = state[p][f]
      /\ DOMAIN c.mkskipped = DOMAIN state[p].mkskipped
  BY SaveNumbers
<1>2. /\ c.header_nonce_counter = state[p].header_nonce_counter
      /\ c.hk_s = state[p].hk_s /\ c.ns = state[p].ns /\ c.pn = state[p].pn
      /\ c.hk_r = state[p].hk_r /\ c.ck_r = state[p].ck_r
  BY <1>1 DEF SessionFields
<1>3. ASSUME NEW q \in Party PROVE \E before, now : Named(q, before, now)'
  <2>1. PICK before, now : Named(q, before, now)
    BY DEF NamesOK
  <2>2. CASE q = p
    <3>1. Peer(p) \in Party \ {p}
      BY TwoParties
    <3> SUFFICES ASSUME NEW r \in {state[Peer(p)], Copy(Peer(p))}
                 PROVE  /\ Spells(Items, now, p, c, r)
                        /\ Spells(Items, now, p, state[p], r)
                        /\ DOMAIN r.mkskipped \subseteq now
      BY <2>2, <3>1, <1>1 DEF Named
    <3>2. /\ Spells(Items, now, p, state[p], r)
          /\ DOMAIN r.mkskipped \subseteq now
      BY <2>1, <2>2 DEF Named
    <3> HIDE DEF c
    <3> QED BY <3>2, <1>2, SpellsAlike
  <2>3. CASE q # p
    <3>1. Peer(q) = p
      BY <2>3, TwoParties
    <3> SUFFICES ASSUME NEW r \in {state[p], c}
                 PROVE  /\ Spells(Items, before, q, Copy(q), r)
                        /\ Spells(Items, now, q, state[q], r)
                        /\ DOMAIN r.mkskipped \subseteq before
      BY <2>1, <2>3, <3>1, <1>1 DEF Named
    <3>2. /\ Spells(Items, before, q, Copy(q), state[p])
          /\ Spells(Items, now, q, state[q], state[p])
          /\ DOMAIN state[p].mkskipped \subseteq before
      BY <2>1, <3>1 DEF Named
    <3> HIDE DEF c
    <3>3. r.hk_r = state[p].hk_r /\ r.ck_r = state[p].ck_r
          /\ DOMAIN r.mkskipped = DOMAIN state[p].mkskipped
      BY <1>1, <1>2 DEF c
    <3> QED BY <3>2, <3>3, SpellsAlike
  <2> QED BY <2>2, <2>3
<1> QED BY <1>3 DEF NamesOK

(***************************************************************************)
(* What encrypt adds to the names is seen by no copy.                      *)
(***************************************************************************)
LEMMA OutboxNames ==
    ASSUME ViewsInv, NumbersOK, NamesOK, NEW p \in Party, EncryptToOutbox(p)
    PROVE  NamesOK'
<1> DEFINE s == state[p]
           c == AfterEncrypt(s)
           new == Packet(s)
<1>1. /\ state'[p] = c /\ \A q \in Party \ {p} : state'[q] = state[q]
      /\ c.ns = s.ns + 1 /\ s.ns \in Nat /\ s.header_nonce_counter \in Nat
      /\ c.header_nonce_counter = s.header_nonce_counter + 1
      /\ \A f \in SessionFields \ {"ck_s", "ns", "header_nonce_counter"} : c[f] = s[f]
      /\ \A q \in Party : Copy(q)' = Copy(q)
      /\ Items' \subseteq Items \cup {new}
      /\ Sender(new) = p /\ new.hk = s.hk_s /\ new.n = s.ns
      /\ new.nonce.counter = s.header_nonce_counter
  BY OutboxNumbers
<1>2. /\ c.hk_s = s.hk_s /\ c.pn = s.pn /\ c.hk_r = s.hk_r /\ c.ck_r = s.ck_r
      /\ c.mkskipped = s.mkskipped
  BY <1>1 DEF SessionFields
<1>3. Copy(p).header_nonce_counter \in Nat
      /\ Copy(p).header_nonce_counter <= s.header_nonce_counter
  <2>1. {} \in SUBSET Party
    OBVIOUS
  <2> QED BY <2>1, SentIsSeen DEF ViewsInv, Copy
<1> HIDE DEF s, c, new
<1>4. ASSUME NEW n, NEW q \in Party, NEW o, NEW r, Spells(Items, n, q, o, r),
             q = p => o.header_nonce_counter <= s.header_nonce_counter
                      /\ o.header_nonce_counter \in Nat
      PROVE  Spells(Items', n, q, o, r)
  <2>1. \A m \in Items' : Sender(m) = q /\ m.nonce.counter < o.header_nonce_counter
                             => m \in Items
    BY <1>1, <1>4
  <2> QED BY <2>1, <1>4 DEF Spells
<1>5. ASSUME NEW q \in Party PROVE \E before, now : Named(q, before, now)'
  <2>1. PICK before, now : Named(q, before, now)
    BY DEF NamesOK
  <2>2. CASE q = p
    <3>0. PICK now2 : now2 = now \cup {<<s.hk_s, s.ns>>}
      OBVIOUS
    <3>1. Peer(p) \in Party \ {p}
      BY TwoParties
    <3>2. ASSUME NEW r \in {state[Peer(p)], Copy(Peer(p))}
          PROVE  /\ Spells(Items', before, p, Copy(p), r)
                 /\ Spells(Items', now2, p, c, r)
                 /\ DOMAIN r.mkskipped \subseteq before
      <4>1. /\ Spells(Items, before, p, Copy(p), r)
            /\ Spells(Items, now, p, s, r)
            /\ DOMAIN r.mkskipped \subseteq before
        BY <2>1, <2>2 DEF Named, s
      <4>2. \A m \in Items : Sender(m) = p => m.nonce.counter < s.header_nonce_counter
        BY ItemsLieBelow DEF ViewsInv, s
      <4>3. Spells(Items', now2, p, c, r)
        BY <4>1, <4>2, <1>1, <1>2, <3>0, SpellsOneMore
      <4> QED BY <4>1, <4>3, <1>3, <1>4
    <3>3. before \subseteq now2
      BY <2>1, <3>0 DEF Named
    <3>4. /\ {state[Peer(p)], Copy(Peer(p))}' = {state[Peer(p)], Copy(Peer(p))}
          /\ Copy(p)' = Copy(p) /\ state'[p] = c
      BY <3>1, <1>1
    <3>5. Named(p, before, now2)'
      BY <3>2, <3>3, <3>4 DEF Named
    <3> QED BY <2>2, <3>5
  <2>3. CASE q # p
    <3>1. Peer(q) = p
      BY <2>3, TwoParties
    <3>2. ASSUME NEW r \in {s, Copy(p)}
          PROVE  /\ Spells(Items', before, q, Copy(q), r)
                 /\ Spells(Items', now, q, state[q], r)
                 /\ DOMAIN r.mkskipped \subseteq before
      <4>1. /\ Spells(Items, before, q, Copy(q), r)
            /\ Spells(Items, now, q, state[q], r)
            /\ DOMAIN r.mkskipped \subseteq before
        BY <2>1, <3>1 DEF Named, s
      <4> QED BY <4>1, <1>4, <2>3
    <3>3. ASSUME NEW r \in {c, Copy(p)}
          PROVE  /\ Spells(Items', before, q, Copy(q), r)
                 /\ Spells(Items', now, q, state[q], r)
                 /\ DOMAIN r.mkskipped \subseteq before
      <4>1. CASE r = Copy(p)
        BY <4>1, <3>2
      <4>2. CASE r = c
        <5>1. r.hk_r = s.hk_r /\ r.ck_r = s.ck_r /\ r.mkskipped = s.mkskipped
          BY <4>2, <1>2
        <5>2. /\ Spells(Items', before, q, Copy(q), s)
              /\ Spells(Items', now, q, state[q], s)
              /\ DOMAIN s.mkskipped \subseteq before
          BY <3>2
        <5> QED BY <5>1, <5>2, SpellsAlike
      <4> QED BY <4>1, <4>2
    <3>4. before \subseteq now
      BY <2>1 DEF Named
    <3> QED BY <2>3, <3>1, <3>3, <3>4, <1>1 DEF Named
  <2> QED BY <2>2, <2>3
<1> QED BY <1>5 DEF NamesOK

(***************************************************************************)
(* A start from the copy takes the names back that were not in it.         *)
(***************************************************************************)
LEMMA RestartNames ==
    ASSUME ViewsInv, NumbersOK, NamesOK, NEW p \in Party, Restart(p)
    PROVE  NamesOK'
<1>1. /\ state'[p] = Copy(p) /\ \A q \in Party \ {p} : state'[q] = state[q]
      /\ \A q : Copy(q)' = Copy(q)
      /\ Items' \subseteq Items
  BY RestartNumbers
<1>2. ASSUME NEW n, NEW q, NEW o, NEW r, Spells(Items, n, q, o, r)
      PROVE  Spells(Items', n, q, o, r)
  BY <1>1, <1>2, SpellsAlike
<1>3. ASSUME NEW q \in Party PROVE \E before, now : Named(q, before, now)'
  <2>1. PICK before, now : Named(q, before, now)
    BY DEF NamesOK
  <2>2. CASE q = p
    <3>1. Peer(p) \in Party \ {p}
      BY TwoParties
    <3>2. Named(p, before, before)'
      BY <2>1, <2>2, <3>1, <1>1, <1>2 DEF Named
    <3> QED BY <2>2, <3>2
  <2>3. CASE q # p
    <3>1. Peer(q) = p
      BY <2>3, TwoParties
    <3>2. Named(q, before, now)'
      BY <2>1, <2>3, <3>1, <1>1, <1>2 DEF Named
    <3> QED BY <3>2
  <2> QED BY <2>2, <2>3
<1> QED BY <1>3 DEF NamesOK

(***************************************************************************)
(* A step that moves no session and encrypts nothing.                      *)
(***************************************************************************)
LEMMA NamesStay ==
    ASSUME NamesOK, state' = state, saved' = saved, Items' \subseteq Items
    PROVE  NamesOK'
<1>1. \A q : Copy(q)' = Copy(q)
  BY DEF Copy
<1>2. ASSUME NEW n, NEW q, NEW o, NEW r, Spells(Items, n, q, o, r)
      PROVE  Spells(Items', n, q, o, r)
  BY <1>2, SpellsAlike
<1>3. ASSUME NEW q \in Party PROVE \E before, now : Named(q, before, now)'
  <2>1. PICK before, now : Named(q, before, now)
    BY DEF NamesOK
  <2>2. Named(q, before, now)'
    BY <2>1, <1>1, <1>2 DEF Named
  <2> QED BY <2>2
<1> QED BY <1>3 DEF NamesOK

-----------------------------------------------------------------------------
(* The names that a decrypt stores.                                        *)

(***************************************************************************)
(* A message that a commit reads is of the other party, encrypted before   *)
(* the copy of that party was made.                                        *)
(***************************************************************************)
LEMMA ReadIsThePeers ==
    ASSUME ViewsInv, NEW p \in Party, NEW m \in Sent,
           m.hk = state[p].hk_r \/ m.hk = Copy(Peer(p)).hk_s
    PROVE  /\ Sender(m) = Peer(p) /\ m \in Items
           /\ m.nonce.counter < Copy(Peer(p)).header_nonce_counter
<1> DEFINE q == Peer(p)
           st == View({q})
           msgs == EncryptedBy(Items, st)
<1>1. /\ Agree(msgs, st) /\ m \in msgs /\ st[p] = state[p] /\ st[q] = Copy(q)
      /\ q \in Party
  <2>1. q \in Party /\ q # p
    BY TwoParties
  <2>2. {q} \in SUBSET Party
    BY <2>1
  <2> HIDE DEF q
  <2> QED BY <2>1, <2>2, ViewLooksAt
<1>2. m \in Items /\ m.nonce.counter < st[Sender(m)].header_nonce_counter
  BY <1>1 DEF EncryptedBy
<1> HIDE DEF st, msgs
<1>3. Plain(m) /\ MessageOK(st, m) /\ KeysOK(st)
  BY <1>1 DEF Agree, Aligned
<1>4. PICK l \in Party : Turn(st, l) /\ \A k \in msgs : PreviousOK(st, l, k)
  BY <1>1 DEF Agree, Aligned
<1>5. Sender(m) = q
  <2>1. CASE m.hk = state[p].hk_r
    BY <2>1, <1>1, <1>3, <1>4, ReceivingChainInView
  <2>2. CASE m.hk = Copy(q).hk_s
    BY <2>2, <1>1, <1>3 DEF MessageOK, Current, SentOn
  <2> QED BY <2>1, <2>2
<1> QED BY <1>1, <1>2, <1>5

(***************************************************************************)
(* The names it stores are some that the copy of the other party knows of, *)
(* and all of the keys that the chains move past are stored.               *)
(***************************************************************************)
LEMMA DecryptStores ==
    ASSUME SavedWithinLimits, ViewsInv, EncryptsOK, NEW p \in Party, NEW m \in Sent,
           NEW c, Moved(p, m, c),
           NEW before, NEW now, Named(Peer(p), before, now)
    PROVE  LET s == state[p]
           IN  /\ DOMAIN c.mkskipped \subseteq before
               /\ Passes(s, m, c) =>
                     /\ DOMAIN s.mkskipped \subseteq DOMAIN c.mkskipped
                     /\ \A i \in s.nr .. m.n - 1 : <<m.hk, i>> \in DOMAIN c.mkskipped
               /\ (\A o \in OtherSessions(p) : Overtakes(s, m, o, c)) =>
                     /\ DOMAIN s.mkskipped \subseteq DOMAIN c.mkskipped
                     /\ s.ck_r # None =>
                           \A i \in s.nr .. m.pn - 1 : <<s.hk_r, i>> \in DOMAIN c.mkskipped
                     /\ \A i \in 0 .. m.n - 1 : <<m.hk, i>> \in DOMAIN c.mkskipped
<1> DEFINE s == state[p]
           q == Peer(p)
           o == Copy(q)
<1>1. /\ Spells(Items, before, q, o, s) /\ DOMAIN s.mkskipped \subseteq before
      /\ q \in Party
  BY TwoParties DEF Named
<1>2. IsFiniteSet(before) /\ Cardinality(before) < MaxSkippedKeys
  BY <1>1, SeenNamesFit DEF ViewsInv
<1>3. ASSUME m.hk = s.hk_r \/ m.hk = o.hk_s PROVE NoHoles(before, m.hk, m.n)
  BY <1>1, <1>3, ReadIsThePeers DEF Spells
<1>4. m.n \in Nat /\ m.pn \in Nat
  <2>1. {} \in SUBSET Party
    OBVIOUS
  <2> QED BY <2>1, ViewLooksAt DEF Agree, Aligned, Plain
<1>5. o \in OtherSessions(p)
  BY DEF OtherSessions
<1>6. \/ Uses(s, m, c) \/ Passes(s, m, c)
      \/ \A x \in OtherSessions(p) : Overtakes(s, m, x, c)
  BY DEF Moved
<1> HIDE DEF s, o, q
<1>7. ASSUME Passes(s, m, c)
      PROVE  /\ DOMAIN c.mkskipped \subseteq before
             /\ DOMAIN s.mkskipped \subseteq DOMAIN c.mkskipped
             /\ \A i \in s.nr .. m.n - 1 : <<m.hk, i>> \in DOMAIN c.mkskipped
  <2>1. /\ m.hk = s.hk_r /\ s.nr \in Nat
        /\ c.mkskipped = SkipMessageKeys(s.mkskipped, s.ck_r, s.hk_r, s.nr, m.n)
    BY <1>7 DEF Passes
  <2> QED BY <2>1, <1>1, <1>2, <1>3, <1>4, SkipAddsSeen
<1>8. ASSUME \A x \in OtherSessions(p) : Overtakes(s, m, x, c)
      PROVE  /\ DOMAIN c.mkskipped \subseteq before
             /\ DOMAIN s.mkskipped \subseteq DOMAIN c.mkskipped
             /\ s.ck_r # None =>
                   \A i \in s.nr .. m.pn - 1 : <<s.hk_r, i>> \in DOMAIN c.mkskipped
             /\ \A i \in 0 .. m.n - 1 : <<m.hk, i>> \in DOMAIN c.mkskipped
  <2> DEFINE previous == PreviousChainStored(s, m)
  <2>1. /\ m.hk = s.nhk_r /\ m.hk = o.hk_s /\ s.hk_r # o.hk_s
        /\ m.pn = o.pn /\ s.nr \in Nat
        /\ c.mkskipped = SkipMessageKeys(previous, <<o.rk, 0>>, s.nhk_r, 0, m.n)
    BY <1>5, <1>8 DEF Overtakes
  <2>2. /\ DOMAIN s.mkskipped \subseteq DOMAIN previous
        /\ s.ck_r # None =>
              \A i \in s.nr .. m.pn - 1 : <<s.hk_r, i>> \in DOMAIN previous
        /\ DOMAIN previous \subseteq before
    <3>1. CASE s.ck_r = None
      BY <3>1, <1>1 DEF PreviousChainStored
    <3>2. CASE s.ck_r # None
      <4>1. previous = SkipMessageKeys(s.mkskipped, s.ck_r, s.hk_r, s.nr, m.pn)
        BY <3>2 DEF PreviousChainStored
      <4>2. NoHoles(before, s.hk_r, m.pn)
        BY <3>2, <2>1, <1>1 DEF Spells
      <4> HIDE DEF previous
      <4> QED BY <4>1, <4>2, <2>1, <1>1, <1>2, <1>4, SkipAddsSeen
    <3> QED BY <3>1, <3>2
  <2> HIDE DEF previous
  <2>3. NoHoles(before, s.nhk_r, m.n) /\ 0 \in Nat
    BY <2>1, <1>3
  <2>4. /\ DOMAIN previous \subseteq DOMAIN c.mkskipped
        /\ \A i \in 0 .. m.n - 1 : <<s.nhk_r, i>> \in DOMAIN c.mkskipped
        /\ DOMAIN c.mkskipped \subseteq before
    <3> DEFINE hk == s.nhk_r
               ck == <<o.rk, 0>>
    <3>1. /\ c.mkskipped = SkipMessageKeys(previous, ck, hk, 0, m.n)
          /\ NoHoles(before, hk, m.n)
      BY <2>1, <2>3
    <3> HIDE DEF hk, ck
    <3>2. /\ DOMAIN previous \subseteq DOMAIN c.mkskipped
          /\ \A i \in 0 .. m.n - 1 : <<hk, i>> \in DOMAIN c.mkskipped
          /\ DOMAIN c.mkskipped \subseteq before
      BY <3>1, <2>2, <2>3, <1>2, <1>4, SkipAddsSeen
    <3> QED BY <3>2 DEF hk
  <2> QED BY <2>1, <2>2, <2>4
<1>9. ASSUME Uses(s, m, c) PROVE DOMAIN c.mkskipped \subseteq before
  BY <1>1, <1>9 DEF Uses
<1> QED BY <1>6, <1>7, <1>8, <1>9 DEF s

(***************************************************************************)
(* The chain that a session is on keeps its names, those of a new one are  *)
(* none yet.                                                               *)
(***************************************************************************)
LEMMA DecryptNames ==
    ASSUME SavedWithinLimits, ViewsInv, EncryptsOK, NumbersOK, NamesOK,
           NEW p \in Party, NEW m \in Sent, NEW c,
           \A q \in Party : state'[q] = IF q = p THEN c ELSE state[q],
           Moved(p, m, c), Sent' = Sent, saved' = saved, outbox' = outbox
    PROVE  NamesOK'
<1> DEFINE s == state[p]
<1>1. Items' = Items /\ \A q : Copy(q)' = Copy(q)
  BY DecryptNumbers
<1>2. /\ state'[p] = c /\ state'[Peer(p)] = state[Peer(p)]
      /\ Peer(p) \in Party /\ Peer(p) # p
  BY TwoParties
<1>3. PICK seen, spelt : Named(Peer(p), seen, spelt)
  BY <1>2 DEF NamesOK
<1>4. PICK before, now : Named(p, before, now)
  BY DEF NamesOK
<1>5. DOMAIN c.mkskipped \subseteq seen
  BY <1>3, DecryptStores
<1> HIDE DEF s
<1>6. /\ c.header_nonce_counter = s.header_nonce_counter
      /\ \/ Uses(s, m, c) \/ Passes(s, m, c)
         \/ \A o \in OtherSessions(p) : Overtakes(s, m, o, c)
  BY DEF Moved, s
<1>7. ASSUME NEW o \in OtherSessions(p), NEW n, Spells(Items, n, Peer(p), o, s)
      PROVE  Spells(Items, n, Peer(p), o, c)
  <2>1. CASE Uses(s, m, c)
    <3>1. c.hk_r = s.hk_r /\ c.ck_r = s.ck_r
      BY <2>1 DEF Uses, SessionFields
    <3> QED BY <3>1, <1>7, SpellsAlike
  <2>2. CASE Passes(s, m, c)
    <3>1. c.hk_r = s.hk_r /\ s.ck_r # None
      BY <2>2 DEF Passes, SessionFields
    <3> QED BY <3>1, <1>7, SpellsAlike
  <2>3. CASE \A x \in OtherSessions(p) : Overtakes(s, m, x, c)
    <3>1. c.hk_r = o.hk_s
      BY <2>3 DEF Overtakes
    <3> QED BY <3>1, <1>7 DEF Spells
  <2> QED BY <1>6, <2>1, <2>2, <2>3
<1>8. ASSUME NEW o \in OtherSessions(p), Spells(Items, now, p, s, o)
      PROVE  Spells(Items, now, p, c, o)
  <2>1. CASE Uses(s, m, c) \/ Passes(s, m, c)
    <3>1. c.hk_s = s.hk_s /\ c.ns = s.ns /\ c.pn = s.pn
      BY <2>1 DEF Uses, Passes, SessionFields
    <3> QED BY <3>1, <1>6, <1>8, SpellsAlike
  <2>2. CASE \A x \in OtherSessions(p) : Overtakes(s, m, x, c)
    <3>1. o.hk_r = s.hk_s /\ c.pn = s.ns /\ c.ns = 0
      BY <2>2 DEF Overtakes
    <3>2. NoHoles(now, c.hk_s, c.ns)
      BY <3>1 DEF NoHoles
    <3>3. NoHoles(now, o.hk_r, c.pn)
      BY <3>1, <1>8 DEF Spells
    <3> QED BY <3>2, <3>3, <1>6, <1>8 DEF Spells
  <2> QED BY <1>6, <2>1, <2>2
<1>9. Named(p, before, now)'
  <2>1. \A o \in OtherSessions(p) : /\ Spells(Items, before, p, Copy(p), o)
                                    /\ Spells(Items, now, p, c, o)
                                    /\ DOMAIN o.mkskipped \subseteq before
    BY <1>4, <1>8 DEF Named, OtherSessions, s
  <2>2. {state[Peer(p)], Copy(Peer(p))}' = OtherSessions(p)
    BY <1>1, <1>2 DEF OtherSessions
  <2> QED BY <2>1, <2>2, <1>1, <1>2, <1>4 DEF Named
<1>10. Named(Peer(p), seen, spelt)'
  <2>1. Peer(Peer(p)) = p
    BY TwoParties
  <2>2. \A r \in {c, Copy(p)} : /\ Spells(Items, seen, Peer(p), Copy(Peer(p)), r)
                                /\ Spells(Items, spelt, Peer(p), state[Peer(p)], r)
                                /\ DOMAIN r.mkskipped \subseteq seen
    BY <2>1, <1>3, <1>5, <1>7 DEF Named, OtherSessions, s
  <2> QED BY <2>1, <2>2, <1>1, <1>2, <1>3 DEF Named
<1>11. ASSUME NEW q \in Party PROVE \E n1, n2 : Named(q, n1, n2)'
  BY <1>9, <1>10, TwoParties
<1> QED BY <1>11 DEF NamesOK

-----------------------------------------------------------------------------
(* What is awaited, step by step.                                          *)

(***************************************************************************)
(* Only the store, the chain received on and the next one matter.          *)
(***************************************************************************)
LEMMA AwaitsStay ==
    ASSUME NEW unread, NEW read, NEW s, Awaits(unread, read, s),
           NEW fewer \in SUBSET unread, NEW more, read \subseteq more,
           NEW c, DOMAIN c.mkskipped = DOMAIN s.mkskipped,
           c.hk_r = s.hk_r, c.nhk_r = s.nhk_r, c.nr = s.nr,
           c.received_messages = s.received_messages
    PROVE  Awaits(fewer, more, c)
<1>1. ASSUME NEW m \in fewer PROVE Awaited(c, m)
  <2>1. Awaited(s, m)
    BY DEF Awaits
  <2> QED BY <2>1 DEF Awaited
<1>2. \A m \in read : m \in more
  OBVIOUS
<1>3. c.received_messages \subseteq {MessageId(m) : m \in more}
  BY <1>2 DEF Awaits
<1> QED BY <1>1, <1>3 DEF Awaits

(***************************************************************************)
(* Fewer unread messages and more that have been read.                     *)
(***************************************************************************)
LEMMA UnreadStays ==
    ASSUME Items' \subseteq Items, handed' = handed
    PROVE  Read' = Read /\ \A p : Unread(p)' \subseteq Unread(p)
BY DEF Read, Unread, Sent, Sender

(***************************************************************************)
(* A copy just made awaits what the session does.                          *)
(***************************************************************************)
LEMMA SaveAwaits ==
    ASSUME ViewsInv, NumbersOK, AwaitsOK, NEW p \in Party, Save(p)
    PROVE  AwaitsOK'
<1> DEFINE c == Copy(p)'
<1>1. /\ state' = state /\ Items' = Items
      /\ \A q \in Party \ {p} : Copy(q)' = Copy(q)
      /\ \A f \in SessionFields \ {"mkskipped"} : c[f] = state[p][f]
      /\ DOMAIN c.mkskipped = DOMAIN state[p].mkskipped
  BY SaveNumbers
<1>2. handed' = handed /\ lost' = lost /\ ~lost[p]
  BY DEF Save, vars
<1>3. Read' = Read /\ \A q : Unread(q)' \subseteq Unread(q)
  BY <1>1, <1>2, UnreadStays
<1> HIDE DEF c
<1>4. Awaits(Unread(p), Read, c)
  <2>1. Awaits(Unread(p), Read, state[p])
    BY <1>2 DEF AwaitsOK
  <2>2. /\ c.hk_r = state[p].hk_r /\ c.nhk_r = state[p].nhk_r /\ c.nr = state[p].nr
        /\ c.received_messages = state[p].received_messages
    BY <1>1 DEF SessionFields
  <2> QED BY <2>1, <2>2, <1>1, AwaitsStay
<1>5. \A q \in Party : /\ Awaits(Unread(q), Read, Copy(q)')
                       /\ ~lost[q] => Awaits(Unread(q), Read, state[q])
  BY <1>1, <1>4 DEF AwaitsOK, c
<1>6. \A q \in Party : /\ Awaits(Unread(q)', Read', Copy(q)')
                       /\ ~lost'[q] => Awaits(Unread(q)', Read', state'[q])
  BY <1>1, <1>2, <1>3, <1>5, AwaitsStay
<1> QED BY <1>6 DEF AwaitsOK

LEMMA SendAwaits ==
    ASSUME ViewsInv, EncryptsOK, AwaitsOK, NEW p \in Party, Send(p)
    PROVE  AwaitsOK'
<1>1. Read \subseteq Read' /\ \A q : Unread(q)' \subseteq Unread(q)
  BY SendCounts
<1>2. state' = state /\ lost' = lost /\ \A q : Copy(q)' = Copy(q)
  BY DEF Send, Copy
<1>3. \A q \in Party : /\ Awaits(Unread(q)', Read', Copy(q))
                       /\ ~lost[q] => Awaits(Unread(q)', Read', state[q])
  BY <1>1, AwaitsStay DEF AwaitsOK
<1> QED BY <1>2, <1>3 DEF AwaitsOK

LEMMA RestartAwaits ==
    ASSUME ViewsInv, NumbersOK, AwaitsOK, NEW p \in Party, Restart(p)
    PROVE  AwaitsOK'
<1>1. /\ state'[p] = Copy(p) /\ \A q \in Party \ {p} : state'[q] = state[q]
      /\ \A q : Copy(q)' = Copy(q)
      /\ Items' \subseteq Items /\ handed' = handed
      /\ lost' = [lost EXCEPT ![p] = FALSE]
  BY RestartNumbers
<1>2. Read' = Read /\ \A q : Unread(q)' \subseteq Unread(q)
  BY <1>1, UnreadStays
<1>3. \A q \in Party : /\ Awaits(Unread(q)', Read', Copy(q))
                       /\ ~lost[q] => Awaits(Unread(q)', Read', state[q])
  BY <1>2, AwaitsStay DEF AwaitsOK
<1>4. \A q \in Party \ {p} : lost'[q] = lost[q]
  BY <1>1
<1>5. \A q \in Party : /\ Awaits(Unread(q)', Read', Copy(q)')
                       /\ ~lost'[q] => Awaits(Unread(q)', Read', state'[q])
  BY <1>1, <1>3, <1>4
<1> QED BY <1>5 DEF AwaitsOK

(***************************************************************************)
(* A new message is of the chain that the other party receives on, at or   *)
(* ahead of its number, or announces a DH ratchet.                         *)
(***************************************************************************)
LEMMA NewAwaited ==
    ASSUME ViewsInv, NEW p \in Party, NEW x \in OtherSessions(p),
           NEW m, m.hk = state[p].hk_s, m.n = state[p].ns
    PROVE  Awaited(x, m)
<1> DEFINE s == state[p]
           q == Peer(p)
<1>1. PICK d \in SUBSET Party : p \notin d /\ x = IF q \in d THEN Copy(q) ELSE state[q]
  <2>1. CASE x = state[q]
    <3>1. {} \in SUBSET Party /\ p \notin {} /\ q \notin {}
      OBVIOUS
    <3> QED BY <2>1, <3>1
  <2>2. CASE x = Copy(q)
    <3>1. {q} \in SUBSET Party /\ p \notin {q} /\ q \in {q}
      BY TwoParties
    <3> QED BY <2>2, <3>1
  <2> QED BY <2>1, <2>2 DEF OtherSessions
<1> DEFINE st == View(d)
<1>2. Agree(EncryptedBy(Items, st), st) /\ st[p] = s /\ st[q] = x
  BY <1>1, ViewLooksAt, TwoParties
<1> HIDE DEF st, s
<1>3. PICK l \in Party : Turn(st, l)
  BY <1>2 DEF Agree, Aligned
<1>4. CASE p = l
  BY <1>2, <1>3, <1>4 DEF Turn, Leads, Awaited, s
<1>5. CASE p # l
  <2>1. l = q /\ Peer(l) = p
    BY <1>5, TwoParties
  <2> QED BY <2>1, <1>2, <1>3 DEF Turn, Leads, Awaited, s
<1> QED BY <1>4, <1>5

LEMMA OutboxAwaits ==
    ASSUME ViewsInv, NumbersOK, AwaitsOK, NEW p \in Party, EncryptToOutbox(p)
    PROVE  AwaitsOK'
<1> DEFINE s == state[p]
           c == AfterEncrypt(s)
           new == Packet(s)
           q == Peer(p)
<1>1. /\ state'[p] = c /\ \A r \in Party \ {p} : state'[r] = state[r]
      /\ \A f \in SessionFields \ {"ck_s", "ns", "header_nonce_counter"} : c[f] = s[f]
      /\ \A r \in Party : Copy(r)' = Copy(r)
      /\ handed' = handed /\ lost' = lost
      /\ Items' \subseteq Items \cup {new}
      /\ Sender(new) = p /\ new.hk = s.hk_s /\ new.n = s.ns
  BY OutboxNumbers
<1>2. q \in Party /\ q # p /\ Peer(q) = p
  BY TwoParties
<1> HIDE DEF c, new
<1>3. Read' = Read
  BY <1>1 DEF Read, Sent
<1>4. \A r : Unread(r)' \subseteq Unread(r) \cup (IF Peer(r) = p THEN {new} ELSE {})
  BY <1>1 DEF Unread, Sent, Sender
<1>5. \A x \in {state[q], Copy(q)} : Awaited(x, new)
  BY <1>1, NewAwaited DEF OtherSessions
<1>6. ASSUME NEW x \in {state[q], Copy(q)}, Awaits(Unread(q), Read, x)
      PROVE  Awaits(Unread(q)', Read', x)
  <2>1. Unread(q)' \subseteq Unread(q) \cup {new}
    BY <1>2, <1>4
  <2> QED BY <2>1, <1>3, <1>5, <1>6 DEF Awaits
<1>7. Unread(p)' \subseteq Unread(p)
  BY <1>2, <1>4
<1>8. Awaits(Unread(p), Read, s) => Awaits(Unread(p)', Read', c)
  <2>1. /\ c.mkskipped = s.mkskipped /\ c.hk_r = s.hk_r /\ c.nhk_r = s.nhk_r
        /\ c.nr = s.nr /\ c.received_messages = s.received_messages
    BY <1>1 DEF SessionFields
  <2> HIDE DEF s
  <2> QED BY <2>1, <1>3, <1>7, AwaitsStay
<1>9. Awaits(Unread(p), Read, Copy(p)) => Awaits(Unread(p)', Read', Copy(p))
  BY <1>3, <1>7, AwaitsStay
<1>10. \A r \in Party : r = p \/ r = q
  BY TwoParties
<1>11. \A r \in Party : /\ Awaits(Unread(r)', Read', Copy(r)')
                        /\ ~lost'[r] => Awaits(Unread(r)', Read', state'[r])
  BY <1>1, <1>2, <1>6, <1>8, <1>9, <1>10 DEF AwaitsOK
<1> QED BY <1>11 DEF AwaitsOK

(***************************************************************************)
(* What a session awaits besides the message that it reads it still awaits *)
(* after that.                                                             *)
(***************************************************************************)
LEMMA AwaitedAfter ==
    ASSUME SavedWithinLimits, ViewsInv, EncryptsOK, NamesOK,
           NEW p \in Party, NEW m \in Sent, NEW c, Moved(p, m, c),
           NEW k \in Items, Sender(k) = Peer(p), k # m, Awaited(state[p], k)
    PROVE  Awaited(c, k)
<1> DEFINE s == state[p]
           q == Peer(p)
           o == state[q]
           st == View({})
           msgs == EncryptedBy(Items, st)
<1>1. /\ Agree(msgs, st) /\ m \in msgs /\ k \in msgs /\ st[p] = s /\ st[q] = o
      /\ q \in Party /\ \A r \in Party : r = p \/ r = q
      /\ m \in Items
  <2>1. {} \in SUBSET Party /\ \A r : r \notin {}
    OBVIOUS
  <2>2. m \in Items
    BY DEF Items, Encrypted
  <2> QED BY <2>1, <2>2, ViewLooksAt, TwoParties
<1>2. PICK before, now : Named(q, before, now)
  BY <1>1 DEF NamesOK
<1>3. /\ Passes(s, m, c) =>
            /\ DOMAIN s.mkskipped \subseteq DOMAIN c.mkskipped
            /\ \A i \in s.nr .. m.n - 1 : <<m.hk, i>> \in DOMAIN c.mkskipped
      /\ (\A x \in OtherSessions(p) : Overtakes(s, m, x, c)) =>
            /\ DOMAIN s.mkskipped \subseteq DOMAIN c.mkskipped
            /\ s.ck_r # None =>
                  \A i \in s.nr .. m.pn - 1 : <<s.hk_r, i>> \in DOMAIN c.mkskipped
            /\ \A i \in 0 .. m.n - 1 : <<m.hk, i>> \in DOMAIN c.mkskipped
  BY <1>2, DecryptStores
<1>4. Uses(s, m, c) \/ Passes(s, m, c)
      \/ \A x \in OtherSessions(p) : Overtakes(s, m, x, c)
  BY DEF Moved
<1>5. Awaited(s, k)
  OBVIOUS
<1>6. (\A x \in OtherSessions(p) : Overtakes(s, m, x, c)) => Overtakes(s, m, o, c)
  BY DEF OtherSessions
<1>7. k.mk # m.mk
  BY <1>1 DEF ViewsInv, ItemsDistinct
<1> HIDE DEF st, msgs, s, o, q
<1>8. PICK l \in Party : Turn(st, l) /\ \A x \in msgs : PreviousOK(st, l, x)
  BY <1>1 DEF Agree, Aligned
<1>9. /\ KeysOK(st) /\ Plain(m) /\ Plain(k) /\ MessageOK(st, m) /\ MessageOK(st, k)
      /\ m.n \in Nat /\ k.n \in Nat /\ m.pn \in Nat
      /\ m.mk = <<"mk", m.mk[2], m.n>> /\ k.mk = <<"mk", k.mk[2], k.n>>
  BY <1>1 DEF Agree, Aligned, Plain, MessageOK
<1>10. m.mk[2] = k.mk[2] => m.n # k.n
  BY <1>7, <1>9
<1>11. CASE Uses(s, m, c)
  <2>1. <<k.hk, k.n>> \in DOMAIN s.mkskipped => <<k.hk, k.n>> # <<m.hk, m.n>>
    <3>1. Genuine(s.mkskipped, p, msgs)
      BY <1>1 DEF Agree, KeptFit
    <3> QED BY <3>1, <1>1, <1>7 DEF Genuine
  <2>2. c.hk_r = s.hk_r /\ c.nhk_r = s.nhk_r /\ c.nr = s.nr
    BY <1>11 DEF Uses, SessionFields
  <2> QED BY <2>1, <2>2, <1>5, <1>11 DEF Awaited, Uses
<1>12. CASE Passes(s, m, c)
  <2>1. /\ m.hk = s.hk_r /\ s.nr \in Nat /\ s.nr <= m.n
        /\ c.nr = s.nr + 1 /\ c.hk_r = s.hk_r /\ c.nhk_r = s.nhk_r
    BY <1>12 DEF Passes, SessionFields
  <2>2. CASE k.hk = s.hk_r /\ s.nr <= k.n
    <3>1. m.mk[2] = s.ck_r[1] /\ k.mk[2] = s.ck_r[1]
      BY <2>1, <2>2, <1>1, <1>8, <1>9, ReceivingChainInView
    <3>2. k.n # m.n
      BY <3>1, <1>10
    <3>3. c.nr <= k.n \/ k.n \in s.nr .. m.n - 1
      BY <3>2, <2>1, <2>2, <1>9
    <3> QED BY <3>3, <2>1, <2>2, <1>3, <1>12 DEF Awaited
  <2>3. CASE <<k.hk, k.n>> \in DOMAIN s.mkskipped \/ k.hk = s.nhk_r
    BY <2>1, <2>3, <1>3, <1>12 DEF Awaited
  <2> QED BY <2>2, <2>3, <1>5 DEF Awaited
<1>13. CASE \A x \in OtherSessions(p) : Overtakes(s, m, x, c)
  <2>1. /\ m.hk = s.nhk_r /\ m.hk = o.hk_s /\ m.pn = o.pn /\ s.nr \in Nat
        /\ m.mk[2] = o.ck_s[1] /\ c.nr = 1 /\ c.hk_r = s.nhk_r
    BY <1>6, <1>13 DEF Overtakes
  <2>2. l = q
    <3>1. CASE l = p
      BY <3>1, <2>1, <1>1, <1>8 DEF Turn, Leads, q
    <3> QED BY <3>1, <1>1
  <2>3. CASE <<k.hk, k.n>> \in DOMAIN s.mkskipped
    BY <2>3, <1>3, <1>13 DEF Awaited
  <2>4. CASE k.hk = s.hk_r /\ s.nr <= k.n
    <3>1. s.ck_r # None /\ k.n < IF p = l THEN st[Peer(l)].ns ELSE st[l].pn
      BY <2>4, <1>1, <1>8, <1>9, ReceivingChainInView
    <3>2. p # l
      BY <2>2, TwoParties DEF q
    <3>3. k.n \in s.nr .. m.pn - 1
      BY <3>1, <3>2, <2>1, <2>2, <2>4, <1>1, <1>9
    <3> QED BY <3>1, <3>3, <2>4, <1>3, <1>13 DEF Awaited
  <2>5. CASE k.hk = s.nhk_r
    <3>1. k.mk[2] = o.ck_s[1]
      BY <2>1, <2>5, <1>1, <1>9 DEF MessageOK, Current, SentOn
    <3>2. k.n # m.n
      BY <3>1, <2>1, <1>10
    <3>3. 1 <= k.n \/ k.n \in 0 .. m.n - 1
      BY <3>2, <1>9
    <3> QED BY <3>3, <2>1, <2>5, <1>3, <1>13 DEF Awaited
  <2> QED BY <2>3, <2>4, <2>5, <1>5 DEF Awaited
<1> QED BY <1>4, <1>11, <1>12, <1>13

(***************************************************************************)
(* decrypt: the message counts as read, or its loss is known of.           *)
(***************************************************************************)
LEMMA DecryptAwaits ==
    ASSUME SavedWithinLimits, ViewsInv, EncryptsOK, NumbersOK, NamesOK, AwaitsOK,
           NEW p \in Party, NEW m \in Sent, NEW c,
           \A q \in Party : state'[q] = IF q = p THEN c ELSE state[q],
           Moved(p, m, c), Sent' = Sent, saved' = saved, outbox' = outbox,
           DecryptHanded(p, m) \/ DecryptedNull(p, m)
    PROVE  AwaitsOK'
<1>1. Items' = Items /\ \A q : Copy(q)' = Copy(q)
  BY DecryptNumbers
<1>2. /\ \A k \in Sent : handed[k] > 0 => handed'[k] > 0
      /\ \A k \in Sent : handed'[k] = 0 => handed[k] = 0
      /\ \/ lost' = lost /\ handed'[m] > 0
         \/ lost' = [lost EXCEPT ![p] = TRUE]
  <2>1. CASE DecryptHanded(p, m)
    <3>1. lost' = lost /\ Hand(m)
      BY <2>1 DEF DecryptHanded, DecryptWithSkippedKey, DecryptOnChain
    <3>2. \A k \in Sent : handed[k] \in Nat
      BY DEF EncryptsOK
    <3> QED BY <3>1, <3>2, HandOne
  <2>2. CASE DecryptedNull(p, m)
    BY <2>2 DEF DecryptedNull
  <2> QED BY <2>1, <2>2
<1>3. Read \subseteq Read' /\ \A q : Unread(q)' \subseteq Unread(q)
  BY <1>1, <1>2 DEF Read, Unread, Sender
<1>4. \A q \in Party : /\ Awaits(Unread(q)', Read', Copy(q))
                       /\ ~lost[q] => Awaits(Unread(q)', Read', state[q])
  BY <1>3, AwaitsStay DEF AwaitsOK
<1>5. ASSUME ~lost'[p] PROVE Awaits(Unread(p)', Read', c)
  <2>1. lost' = lost /\ handed'[m] > 0 /\ ~lost[p]
    BY <1>2, <1>5 DEF EncryptsOK
  <2>2. m \notin Unread(p)' /\ m \in Read'
    BY <2>1 DEF Unread, Read
  <2>3. \A k \in Unread(p)' : Awaited(c, k)
    <3> SUFFICES ASSUME NEW k \in Unread(p)' PROVE Awaited(c, k)
      OBVIOUS
    <3>1. k \in Unread(p) /\ k # m
      BY <2>2, <1>3
    <3>2. k \in Items /\ Sender(k) = Peer(p) /\ Awaited(state[p], k)
      BY <3>1, <2>1 DEF Unread, AwaitsOK, Awaits
    <3> QED BY <3>1, <3>2, AwaitedAfter
  <2>4. c.received_messages \subseteq state[p].received_messages \cup {MessageId(m)}
    BY DEF Moved, Uses, Passes, Overtakes, SessionFields, OtherSessions
  <2>5. state[p].received_messages \subseteq {MessageId(k) : k \in Read'}
    BY <2>1, <1>4 DEF Awaits
  <2>6. c.received_messages \subseteq {MessageId(k) : k \in Read'}
    BY <2>2, <2>4, <2>5
  <2> QED BY <2>3, <2>6 DEF Awaits
<1>6. \A q \in Party \ {p} : lost'[q] = lost[q]
  BY <1>2 DEF EncryptsOK
<1>7. \A q \in Party : /\ Awaits(Unread(q)', Read', Copy(q)')
                       /\ ~lost'[q] => Awaits(Unread(q)', Read', state'[q])
  BY <1>1, <1>4, <1>5, <1>6
<1> QED BY <1>7 DEF AwaitsOK

-----------------------------------------------------------------------------
(* What is awaited opens.                                                  *)

(***************************************************************************)
(* A message opens in a session that agrees with it, if it is within the   *)
(* limits of the loop that would store the keys before it.                 *)
(***************************************************************************)
LEMMA AwaitedIsReadable ==
    ASSUME NEW msgs, NEW st, Agree(msgs, st), NEW m \in msgs,
           NEW p \in Party, p = Peer(Sender(m)), Sender(m) \in Party,
           MessageId(m) \notin st[p].received_messages, Awaited(st[p], m),
           m.n <= MaxSkip, m.n + MaxSkip <= MaxCounter,
           st[Sender(m)].pn <= MaxSkip
    PROVE  Readable(st[p], m)
<1> DEFINE s == st[p]
           q == Sender(m)
<1>1. PICK l \in Party : Turn(st, l) /\ \A k \in msgs : PreviousOK(st, l, k)
  BY DEF Agree, Aligned
<1>2. /\ KeysOK(st) /\ Plain(m) /\ MessageOK(st, m) /\ PreviousOK(st, l, m)
      /\ InNumber(s) /\ s.nr \in Nat /\ m.n \in Nat /\ m.hk # None
      /\ m.mk = <<"mk", m.mk[2], m.n>>
      /\ st[q].pn \in Nat
  BY <1>1 DEF Agree, Aligned, InNumber, Plain, MessageOK
<1>3. ASSUME <<m.hk, m.n>> \in DOMAIN s.mkskipped PROVE SkippedKeyOpens(s, m, "none")
  <2>1. Genuine(s.mkskipped, p, msgs)
    BY DEF Agree, KeptFit
  <2> QED BY <2>1, <1>3 DEF Genuine, SkippedKeyOpens, HeaderDecrypts, BodyDecrypts
<1>4. ASSUME m.hk \in {s.hk_r, s.nhk_r}, ReceivingFrom(s, m).nr \in 0 .. m.n,
             ReceivingFrom(s, m).ck[1] = m.mk[2],
             ReceivingFrom(s, m).ck[2] = ReceivingFrom(s, m).nr,
             ~SkippedKeyOpens(s, m, "none")
      PROVE  DecryptError(s, m, "none") = None
  <2> DEFINE at == ReceivingFrom(s, m)
  <2>1. HeaderOpens(s, m, "none")
    BY <1>4 DEF HeaderOpens, HeaderDecrypts
  <2>2. ~BeyondSkipLimit(s, m)
    <3>1. /\ at.nr + MaxSkip \in 0 .. MaxCounter
          /\ at.nr + MaxSkip >= m.n
      BY <1>2, <1>4, SkipAssumption, LimitAssumption
    <3> HIDE DEF at
    <3>2. (at.nr + MaxSkip) % (MaxCounter + 1) = at.nr + MaxSkip
      BY <3>1, LimitAssumption
    <3> QED BY <3>1, <3>2, <1>2 DEF BeyondSkipLimit, at
  <2>3. ComputeMessageKey(s, m) = m.mk
    <3>1. at.ck[1] = m.mk[2] /\ at.ck[2] = at.nr /\ at.nr \in Nat /\ at.nr <= m.n
      BY <1>2, <1>4
    <3>2. ComputeMessageKey(s, m)
             = KdfCk(KdfCkIter(at.ck, IF m.n > at.nr THEN m.n - at.nr ELSE 0)).mk
      BY DEF ComputeMessageKey
    <3>3. at.nr + (IF m.n > at.nr THEN m.n - at.nr ELSE 0) = m.n
      BY <3>1, <1>2
    <3> HIDE DEF at, s
    <3> QED BY <3>1, <3>2, <3>3, <1>2 DEF KdfCk, KdfCkIter
  <2> HIDE DEF at
  <2> QED BY <1>4, <2>1, <2>2, <2>3 DEF DecryptError, BodyDecrypts
<1>5. CASE <<m.hk, m.n>> \in DOMAIN s.mkskipped
  BY <1>3, <1>5 DEF DecryptError, Readable
<1>6. CASE m.hk = s.hk_r /\ s.nr <= m.n
  <2>1. ~DhRatchetNeeded(s, m)
    BY <1>6 DEF DhRatchetNeeded
  <2>2. s.ck_r[1] = m.mk[2] /\ s.ck_r[2] = s.nr
    BY <1>1, <1>2, <1>6, ReceivingChainInView DEF InNumber
  <2>3. ReceivingFrom(s, m).nr \in 0 .. m.n /\ ReceivingFrom(s, m).ck = s.ck_r
        /\ ReceivingFrom(s, m).nr = s.nr
    BY <2>1, <1>2, <1>6 DEF ReceivingFrom
  <2> HIDE DEF s
  <2>4. SkippedKeyOpens(s, m, "none") \/ DecryptError(s, m, "none") = None
    BY <2>2, <2>3, <1>4, <1>6
  <2>5. Readable(s, m)
    BY <2>1, <2>4 DEF PreviousChainRefused, DecryptError, Readable
  <2> QED BY <2>5 DEF s
<1>7. CASE m.hk = s.nhk_r
  <2>1. p = Peer(l) /\ l = q
    <3>1. CASE p = l
      BY <3>1, <1>1, <1>2, <1>7, TwoParties DEF Turn, Leads, MessageOK
    <3>2. CASE p # l
      BY <3>2, TwoParties
    <3> QED BY <3>1, <3>2
  <2>2. /\ m.hk = st[l].hk_s /\ m.hk # s.hk_r /\ s.nr <= st[l].pn /\ Leads(st[l], s)
    BY <1>1, <1>7, <2>1 DEF Turn, Leads
  <2>3. SentOn(m, l, st[l]) /\ DhRatchetNeeded(s, m)
    BY <2>2, <1>2 DEF MessageOK, Current, DhRatchetNeeded
  <2>4. ~PreviousChainRefused(s, m)
    <3>1. m.pn = st[q].pn /\ s.nr <= m.pn
      BY <2>1, <2>2, <2>3 DEF SentOn
    <3> HIDE DEF s, q
    <3>2. SkipAllowed(s.nr, m.pn)
      BY <3>1, <1>2, SkipAssumption DEF SkipAllowed, q
    <3> QED BY <3>2 DEF PreviousChainRefused
  <2>5. ReceivingFrom(s, m) = [ck |-> <<m.mk[2], 0>>, nr |-> 0]
    <3>1. /\ m.dh_pub = st[l].dh_pair /\ m.mk[2] = st[l].ck_s[1]
          /\ st[l].ck_s[1] = KdfRkHe(s.rk, DH(m.dh_pub, s.dh_pair)).ck[1]
      BY <2>2, <2>3 DEF SentOn, Leads
    <3> HIDE DEF s
    <3> QED BY <3>1, <2>3 DEF KdfRkHe, DH, ReceivingFrom
  <2> HIDE DEF s
  <2>6. /\ ReceivingFrom(s, m).nr \in 0 .. m.n
        /\ ReceivingFrom(s, m).ck[1] = m.mk[2]
        /\ ReceivingFrom(s, m).ck[2] = ReceivingFrom(s, m).nr
    BY <2>5, <1>2
  <2>7. SkippedKeyOpens(s, m, "none") \/ DecryptError(s, m, "none") = None
    BY <2>6, <1>4, <1>7
  <2>8. Readable(s, m)
    BY <2>4, <2>7 DEF DecryptError, Readable
  <2> QED BY <2>8 DEF s
<1> QED BY <1>5, <1>6, <1>7 DEF Awaited

(***************************************************************************)
(* No message that was sent and not handed over is lost to the copy.       *)
(***************************************************************************)
LEMMA CopyOpens ==
    ASSUME SavedWithinLimits, RecoveryInv, NEW m \in Sent, handed[m] = 0,
           NEW p \in Party, p = Peer(Sender(m))
    PROVE  Readable(Copy(p), m)
<1> DEFINE q == Sender(m)
           st == View({p})
           msgs == EncryptedBy(Items, st)
<1>1. q \in Party /\ q = Peer(p) /\ q # p
  BY TwoParties DEF Sender, Party
<1>2. /\ Agree(msgs, st) /\ m \in msgs /\ st[p] = Copy(p) /\ st[q] = state[q]
  <2>1. {p} \in SUBSET Party
    OBVIOUS
  <2> HIDE DEF q
  <2> QED BY <2>1, <1>1, ViewLooksAt DEF RecoveryInv
<1>3. m \in Items /\ m.nonce.counter < state[q].header_nonce_counter
  BY <1>2 DEF EncryptedBy
<1>4. Awaits(Unread(p), Read, Copy(p)) /\ m \in Unread(p)
  BY <1>1, <1>3 DEF RecoveryInv, AwaitsOK, Unread
<1>5. MessageId(m) \notin Copy(p).received_messages
  <2> SUFFICES ASSUME MessageId(m) \in Copy(p).received_messages PROVE FALSE
    OBVIOUS
  <2>1. PICK k \in Read : MessageId(k) = MessageId(m)
    BY <1>4 DEF Awaits
  <2>2. k \in Items
    BY <2>1 DEF Read, Items, Encrypted
  <2>3. k = m
    BY <2>1, <2>2, <1>3 DEF RecoveryInv, ViewsInv, ItemsDistinct
  <2> QED BY <2>1, <2>3 DEF Read
<1>6. /\ m.n <= MaxSkip /\ m.n + MaxSkip <= MaxCounter /\ state[q].pn <= MaxSkip
  <2>1. /\ m.n \in Nat /\ m.nonce.counter \in Nat /\ m.n <= m.nonce.counter
    BY <1>3 DEF RecoveryInv, NumbersOK, ViewsInv, SInv, MessagesOK, ItemOK
  <2>2. /\ state[q].pn \in Nat /\ state[q].pn <= state[q].header_nonce_counter
    BY <1>1 DEF RecoveryInv, NumbersOK, NumbersFit, ViewsInv, SInv, CopiesOK, CopyOK
  <2>3. /\ Encrypts(q) \in Nat /\ MaxSkip \in Nat /\ Encrypts(q) <= MaxSkip
        /\ Encrypts(q) + MaxSkip <= MaxCounter
        /\ state[q].header_nonce_counter \in 0 .. Encrypts(q)
    BY <1>1, Room DEF RecoveryInv, ViewsInv
  <2> QED BY <2>1, <2>2, <2>3, <1>3, LimitAssumption
<1> HIDE DEF st, msgs
<1>7. /\ Awaited(st[p], m) /\ MessageId(m) \notin st[p].received_messages
      /\ st[q].pn <= MaxSkip
  BY <1>2, <1>4, <1>5, <1>6 DEF Awaits
<1>8. Readable(st[p], m)
  BY <1>1, <1>2, <1>6, <1>7, AwaitedIsReadable
<1> QED BY <1>2, <1>8

-----------------------------------------------------------------------------
(* RecoveryInv is inductive.                                               *)

(***************************************************************************)
(* Nothing has been encrypted, and the copies are the sessions themselves. *)
(***************************************************************************)
LEMMA RecoveryBegins == NoneIsNoKey /\ SavedInit => RecoveryInv
<1> SUFFICES ASSUME NoneIsNoKey, SavedInit PROVE RecoveryInv
  OBVIOUS
<1>1. ViewsInv
  BY ViewsBegin
<1>2. Sent = {} /\ Items = {}
  <2>1. handed = [m \in {} |-> 0] /\ outbox = [p \in Party |-> None]
    BY DEF SavedInit, Init
  <2>2. Sent = {} /\ \A q \in Party : outbox[q] = None
    BY <2>1 DEF Sent
  <2> QED BY <2>2 DEF Items, Encrypted
<1>3. \A p \in Party : /\ outbox[p] = None /\ lost[p] = FALSE
                       /\ saved[p] = Serialized(state[p])
  BY DEF SavedInit
<1>4. ASSUME NEW p \in Party
      PROVE  /\ state[p].ns = 0 /\ state[p].pn = 0
             /\ state[p].header_nonce_counter = 0
             /\ state[p].ck_r = None /\ state[p].received_messages = {}
             /\ DOMAIN state[p].mkskipped = {}
  <2>1. \/ state[p] = InitSenderState(SharedSecret, Key(Alice, 1), Key(Bob, 0))
        \/ state[p] = InitReceiverState(SharedSecret, Key(Bob, 0))
    BY DEF SavedInit, Init
  <2> DEFINE s == state[p]
  <2> HIDE DEF s
  <2>2. /\ s.ns = 0 /\ s.pn = 0 /\ s.header_nonce_counter = 0
        /\ s.ck_r = None /\ s.received_messages = {}
        /\ s.mkskipped = EmptyStore
    BY <2>1 DEF InitSenderState, InitReceiverState, s
  <2> QED BY <2>2 DEF EmptyStore, s
<1>5. ASSUME NEW p \in Party
      PROVE  /\ Copy(p).ns = 0 /\ Copy(p).pn = 0
             /\ Copy(p).header_nonce_counter = 0
             /\ Copy(p).ck_r = None /\ Copy(p).received_messages = {}
             /\ DOMAIN Copy(p).mkskipped = {}
  <2> DEFINE s == state[p]
             c == Copy(p)
  <2>1. DOMAIN s = SessionFields
    BY <1>1 DEF ViewsInv, SInv, CopiesOK, CopyOK
  <2>2. c = Deserialized(Serialized(s))
    BY <1>3 DEF Copy
  <2>3. /\ s.ns = 0 /\ s.pn = 0 /\ s.header_nonce_counter = 0 /\ s.ck_r = None
        /\ s.received_messages = {} /\ DOMAIN s.mkskipped = {}
    BY <1>4
  <2> HIDE DEF s, c
  <2>4. /\ \A f \in SessionFields \ {"mkskipped"} : c[f] = s[f]
        /\ DOMAIN c.mkskipped = DOMAIN s.mkskipped
    BY <2>1, <2>2, CopyJustMade
  <2>5. /\ c.ns = 0 /\ c.pn = 0 /\ c.header_nonce_counter = 0 /\ c.ck_r = None
        /\ c.received_messages = {} /\ DOMAIN c.mkskipped = {}
    BY <2>3, <2>4 DEF SessionFields
  <2> QED BY <2>5 DEF c
<1>6. EncryptsOK
  <2>1. ASSUME NEW p \in Party
        PROVE  LET sends == Cardinality(SentBy(p)) + Pending(p)
               IN  /\ IsFiniteSet(SentBy(p))
                   /\ sends <= MaxSends[p]
                   /\ state[p].header_nonce_counter + Lost(p) <= sends + mishaps
    <3>1. IsFiniteSet(SentBy(p)) /\ Cardinality(SentBy(p)) = 0
      BY <1>2, FS_EmptySet DEF SentBy
    <3>2. Pending(p) = 0 /\ Lost(p) = 0 /\ mishaps = 0
      BY <1>3 DEF Pending, Lost, SavedInit
    <3>3. MaxSends[p] \in Nat
      BY PartyAssumption DEF Party
    <3> QED BY <3>1, <3>2, <3>3, <1>4
  <2>2. mishaps \in 0 .. MaxMishaps /\ DOMAIN lost = Party
    BY MishapAssumption DEF SavedInit
  <2> QED BY <2>1, <2>2, <1>2 DEF EncryptsOK
<1>7. NumbersOK
  BY <1>2, <1>4, <1>5 DEF NumbersOK, NumbersFit
<1>8. NamesOK
  <2>1. ASSUME NEW p \in Party PROVE Named(p, {}, {})
    <3>1. IsFiniteSet({}) /\ Cardinality({}) = 0
      BY FS_EmptySet
    <3>2. Peer(p) \in Party
      BY TwoParties
    <3>3. \A r \in OtherSessions(p) : r.ck_r = None /\ DOMAIN r.mkskipped = {}
      BY <3>2, <1>4, <1>5 DEF OtherSessions
    <3>4. ASSUME NEW o \in {state[p], Copy(p)}, NEW r \in OtherSessions(p)
          PROVE  Spells(Items, {}, p, o, r)
      <4>1. o.ns = 0 /\ o.header_nonce_counter = 0
        BY <1>4, <1>5
      <4>2. NoHoles({}, o.hk_s, o.ns)
        BY <4>1 DEF NoHoles
      <4> QED BY <4>1, <4>2, <3>1, <3>3, <1>2 DEF Spells
    <3> QED BY <3>3, <3>4 DEF Named, OtherSessions
  <2> QED BY <2>1 DEF NamesOK
<1>9. AwaitsOK
  <2>1. \A p : Unread(p) = {}
    BY <1>2 DEF Unread
  <2>2. \A p \in Party : \A s \in {state[p], Copy(p)} : s.received_messages = {}
    BY <1>4, <1>5
  <2> QED BY <2>1, <2>2 DEF AwaitsOK, Awaits
<1> QED BY <1>1, <1>6, <1>7, <1>8, <1>9 DEF RecoveryInv

(***************************************************************************)
(* Every step keeps it.                                                    *)
(***************************************************************************)
LEMMA RecoveryGoesOn ==
    SavedWithinLimits /\ NoneIsNoKey /\ NoneIsNoMessage /\ RecoveryInv /\ [SavedNext]_savedVars
        => RecoveryInv'
<1> SUFFICES ASSUME SavedWithinLimits, NoneIsNoKey, NoneIsNoMessage, RecoveryInv,
                    [SavedNext]_savedVars
             PROVE  RecoveryInv'
  OBVIOUS
<1>1. ViewsInv /\ EncryptsOK /\ NumbersOK /\ NamesOK /\ AwaitsOK
  BY DEF RecoveryInv
<1>2. ViewsInv'
  BY <1>1, SavedNextAgrees
<1> SUFFICES EncryptsOK' /\ NumbersOK' /\ NamesOK' /\ AwaitsOK'
  BY <1>2 DEF RecoveryInv
<1>3. CASE UNCHANGED savedVars
  <2>1. /\ state' = state /\ handed' = handed /\ saved' = saved
        /\ outbox' = outbox /\ lost' = lost /\ mishaps' = mishaps
    BY <1>3 DEF savedVars, vars, hostVars
  <2>2. /\ Sent' = Sent /\ Items' = Items /\ \A p : Copy(p)' = Copy(p)
        /\ \A p : SentBy(p)' = SentBy(p)
    BY <2>1 DEF Sent, Items, Encrypted, Copy, SentBy, Sender
  <2>3. EncryptsOK'
    BY <1>1, <2>1, <2>2 DEF EncryptsOK, Pending, Lost
  <2>4. NumbersOK'
    BY <1>1, <2>1, <2>2 DEF NumbersOK
  <2>5. NamesOK'
    BY <1>1, <2>1, <2>2, NamesStay
  <2>6. AwaitsOK'
    <3>1. Read' = Read /\ \A q : Unread(q)' \subseteq Unread(q)
      BY <2>1, <2>2, UnreadStays
    <3>2. \A q \in Party : /\ Awaits(Unread(q)', Read', Copy(q))
                           /\ ~lost[q] => Awaits(Unread(q)', Read', state[q])
      BY <1>1, <3>1, AwaitsStay DEF AwaitsOK
    <3> QED BY <3>2, <2>1, <2>2 DEF AwaitsOK
  <2> QED BY <2>3, <2>4, <2>5, <2>6
<1>4. CASE \E p \in Party : Save(p)
  BY <1>1, <1>4, SaveCounts, SaveNumbers, SaveNames, SaveAwaits
<1>5. CASE \E p \in Party : EncryptToOutbox(p)
  BY <1>1, <1>5, OutboxCounts, OutboxNumbers, OutboxNames, OutboxAwaits
<1>6. CASE \E p \in Party : Send(p)
  <2> PICK p \in Party : Send(p)
    BY <1>6
  <2>1. EncryptsOK' /\ Items' \subseteq Items
    BY <1>1, SendCounts
  <2>2. state' = state /\ saved' = saved /\ \A q : Copy(q)' = Copy(q)
    BY DEF Send, Copy
  <2>3. NumbersOK'
    BY <1>1, <2>1, <2>2 DEF NumbersOK
  <2> QED BY <1>1, <2>1, <2>2, <2>3, NamesStay, SendAwaits
<1>7. CASE \E p \in Party : Restart(p)
  BY <1>1, <1>7, RestartCounts, RestartNumbers, RestartNames, RestartAwaits
<1>8. CASE \E p \in Party, m \in Sent : DecryptHanded(p, m) \/ DecryptedNull(p, m)
  <2> PICK p \in Party, m \in Sent : DecryptHanded(p, m) \/ DecryptedNull(p, m)
    BY <1>8
  <2>1. PICK c : /\ \A q \in Party : state'[q] = IF q = p THEN c ELSE state[q]
                 /\ Moved(p, m, c)
                 /\ Sent' = Sent /\ saved' = saved /\ outbox' = outbox
    BY <1>1, DecryptMoves
  <2>2. EncryptsOK'
    BY <1>1, DecryptCounts
  <2>3. NumbersOK'
    BY <1>1, <2>1, DecryptNumbers
  <2>4. NamesOK'
    BY <1>1, <2>1, DecryptNames
  <2>5. AwaitsOK'
    BY <1>1, <2>1, DecryptAwaits
  <2> QED BY <2>2, <2>3, <2>4, <2>5
<1> QED BY <1>3, <1>4, <1>5, <1>6, <1>7, <1>8 DEF SavedNext

(***************************************************************************)
(* RecoveryInv is an inductive invariant within the limits: the sessions   *)
(* and the copies await all that was encrypted for them and not handed     *)
(* over, and their stores have room for it.                                *)
(***************************************************************************)
THEOREM RecoveryInvariance ==
    SavedWithinLimits /\ NoneIsNoKey /\ NoneIsNoMessage => (SavedSpec => []RecoveryInv)
<1> SUFFICES ASSUME SavedWithinLimits, NoneIsNoKey, NoneIsNoMessage
             PROVE  SavedSpec => []RecoveryInv
  OBVIOUS
<1>1. SavedInit => RecoveryInv
  BY RecoveryBegins
<1>2. RecoveryInv /\ [SavedNext]_savedVars => RecoveryInv'
  BY RecoveryGoesOn
<1> QED BY <1>1, <1>2, PTL DEF SavedSpec

(***************************************************************************)
(* No message is lost by a crash, a start from an old copy or a null of    *)
(* the Android interface, however often they happen: one that was sent and *)
(* not handed over opens in the saved copy.  The store of skipped keys,    *)
(* MAX_SKIP and the u32 numbers are assumed to have room for what a party  *)
(* encrypts in all its lives.  Readable speaks of the errors before the    *)
(* commit; the list of received messages is looked at only after it.       *)
(***************************************************************************)
THEOREM CopiesRecover ==
    SavedWithinLimits /\ NoneIsNoKey /\ NoneIsNoMessage
        => (SavedSpec => []SavedCopyRecovers)
<1> SUFFICES ASSUME SavedWithinLimits, NoneIsNoKey, NoneIsNoMessage
             PROVE  SavedSpec => []SavedCopyRecovers
  OBVIOUS
<1>1. RecoveryInv => SavedCopyRecovers
  <2> SUFFICES ASSUME RecoveryInv, NEW m \in Sent, handed[m] = 0
               PROVE  Readable(Copy(Peer(Sender(m))), m)
    BY DEF SavedCopyRecovers, Copy
  <2>1. Peer(Sender(m)) \in Party
    BY TwoParties DEF Sender, Party
  <2> QED BY <2>1, CopyOpens
<1>2. SavedSpec => []RecoveryInv
  BY RecoveryInvariance
<1> QED BY <1>1, <1>2, PTL

=============================================================================
