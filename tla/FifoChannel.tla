---------------------------- MODULE FifoChannel ----------------------------
(***************************************************************************)
(* What two hosts may expect of a Double Ratchet session over a network    *)
(* that keeps the order of messages and loses none: a pair of reliable,    *)
(* ordered channels.  Each party's plaintexts come out at the other side   *)
(* in the order in which they went in, each of them once.                  *)
(***************************************************************************)
EXTENDS Sequences, Naturals

CONSTANTS
    Alice,
    Bob,
    Message

VARIABLES
    outbox,     \* what each party has sent
    inbox       \* what each party has received

channels == <<outbox, inbox>>

Other(p) == IF p = Alice THEN Bob ELSE Alice

ChannelInit ==
    /\ outbox = [p \in {Alice, Bob} |-> <<>>]
    /\ inbox  = [p \in {Alice, Bob} |-> <<>>]

(***************************************************************************)
(* Bob speaks when he has been spoken to.                                  *)
(***************************************************************************)
Send(p) ==
    /\ p = Alice \/ inbox[p] # <<>>
    /\ \E m \in Message : outbox' = [outbox EXCEPT ![p] = Append(@, m)]
    /\ UNCHANGED inbox

Receive(p) ==
    /\ Len(inbox[p]) < Len(outbox[Other(p)])
    /\ inbox' = [inbox EXCEPT ![p] = Append(@, outbox[Other(p)][Len(@) + 1])]
    /\ UNCHANGED outbox

ChannelNext == \E p \in {Alice, Bob} : Send(p) \/ Receive(p)

ChannelSafety == ChannelInit /\ [][ChannelNext]_channels

ChannelSpec ==
    /\ ChannelSafety
    /\ \A p \in {Alice, Bob} : WF_channels(Receive(p))

=============================================================================
