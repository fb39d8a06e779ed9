--------------------------- MODULE OrderedSession ---------------------------
(***************************************************************************)
(* Session over a network that delivers the messages of each direction in  *)
(* the order in which they were sent and loses none, but may repeat any of *)
(* them at any later time.  This is the use in which the replay protection *)
(* and the deletion of keys of src/src/ratchet.rs hold, and in which a     *)
(* session is a pair of FIFO channels.                                     *)
(***************************************************************************)
EXTENDS Session, Sequences

VARIABLE
    inbox       \* the messages each party was handed, by their nonces, in order

orderedVars == <<vars, inbox>>

OrderedInit == Init /\ inbox = [p \in Party |-> <<>>]

(***************************************************************************)
(* What the network may bring: the next message, or one that p has had.    *)
(***************************************************************************)
Arrives(p, m) ==
    /\ m \in SentBy(Peer(p))
    /\ \A d \in SentBy(Peer(p)) :
          d.nonce.counter < m.nonce.counter => handed[d] > 0

DecryptInOrder(p, m) ==
    /\ Arrives(p, m)
    /\ Decrypt(p, m)
    /\ inbox' = IF handed'[m] > handed[m]
                THEN [inbox EXCEPT ![p] = Append(@, m.nonce)]
                ELSE inbox

EncryptInOrder(p) ==
    /\ \/ Encrypt(p)
       \/ \E ad \in AdSizes : EncryptRefused(p, ad)
    /\ UNCHANGED inbox

RefusedInOrder(p, m) ==
    /\ Arrives(p, m)
    /\ \E fault \in Faults : DecryptRefused(p, m, fault)
    /\ UNCHANGED inbox

OrderedNext ==
    \/ \E p \in Party : EncryptInOrder(p)
    \/ \E p \in Party, m \in Sent : DecryptInOrder(p, m)
    \/ \E p \in Party, m \in Sent : RefusedInOrder(p, m)

(***************************************************************************)
(* The hosts bring the next message to decrypt until it is decrypted.      *)
(***************************************************************************)
DecryptNext(p) == \E m \in Sent : handed[m] = 0 /\ DecryptInOrder(p, m)

OrderedSpec ==
    /\ OrderedInit
    /\ [][OrderedNext]_orderedVars
    /\ \A p \in Party : WF_orderedVars(DecryptNext(p))

-----------------------------------------------------------------------------
(***************************************************************************)
(* The implementation of FifoChannel: a plaintext is known by the nonce of *)
(* its header, a party's outbox is what it has sent in the order of these  *)
(* nonces, whose counters are the positions.  A repeated message is a      *)
(* stutter.                                                                *)
(***************************************************************************)
Outbox(p) ==
    [i \in 1 .. Cardinality(SentBy(p)) |->
        CHOOSE nonce \in {m.nonce : m \in SentBy(p)} : nonce.counter = i - 1]

Fifo == INSTANCE FifoChannel
            WITH outbox  <- [p \in Party |-> Outbox(p)],
                 Message <- [is_sender : BOOLEAN, counter : 0 .. MaxNonce]

(***************************************************************************)
(* Over an ordered network a session is a pair of reliable FIFO channels:  *)
(* nothing is delivered twice, out of order or not at all, although any    *)
(* message may be repeated at any time.                                    *)
(***************************************************************************)
ImplementsFifoChannel == Fifo!ChannelSpec

(***************************************************************************)
(* With nothing skipped the store of skipped keys stays empty: no key of   *)
(* the store is ever there to open a repeated message.                     *)
(***************************************************************************)
NothingSkipped == \A p \in Party : state[p].mkskipped = EmptyStore

=============================================================================
