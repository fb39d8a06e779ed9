# TLA+ models of libsignal-dezire

TLA+ modules of the protocol code of this crate, TLC configurations that
model-check them on small instances, and TLAPS proofs for every instance.
Paths below are those of the repository (`src/ratchet.rs` is the file that
`PROJECT.json` calls `src/src/ratchet.rs`).

1. [The system](#the-system)
2. [What is abstracted](#what-is-abstracted)
3. [The modules](#the-modules)
4. [The runs](#the-runs)
5. [What the runs show](#what-the-runs-show)
6. [The proofs](#the-proofs)
7. [Where documents and code disagree](#where-documents-and-code-disagree)
8. [Not modelled, and the plan](#not-modelled-and-the-plan)

## The system

The crate is a library. It has no threads, no timers, no storage and no
network: every function runs to its end on the caller's thread, and everything
that happens between two calls is up to the host. What makes it hard is
therefore not locking but *order*: two hosts hold one half of a session each,
and every message may be lost, repeated, late, damaged or sent back.

| Component | Files | State | Operations |
|---|---|---|---|
| Double Ratchet session | `src/ratchet.rs` | `RatchetState`: own and remote ratchet keys, root key, two chain keys, four header keys, `ns`, `nr`, `pn`, skipped keys, nonce counter, role, tracked messages | `init_sender_state`, `init_receiver_state`, `encrypt`, `decrypt` |
| Skipped message keys | `src/ratchet.rs` | the map `mkskipped` | `skip_message_keys`, `evict_oldest_skipped_keys`, `try_skipped_message_keys` |
| X3DH key agreement | `src/x3dh.rs` | none (the hosts keep the keys) | `x3dh_initiator`, `x3dh_responder` |
| VXEdDSA signatures | `src/vxeddsa.rs`, `src/hashes.rs` | none | `vxeddsa_sign`, `vxeddsa_verify` |
| Curve and encoding utilities | `src/utils.rs` | none | `is_valid_public_key`, `encode_public_key`, `calculate_key_pair` |
| Serialization | `src/ratchet.rs` (serde) | a JSON copy of a session | serialize, deserialize |
| C interface | `src/ffi/` | session handles, result buffers, strings | one wrapper per operation |
| Android interface | `src/jni/` | session handles | the same for Java |

**How they interact.** A host publishes a prekey bundle whose signed prekey is
signed with `vxeddsa_sign`. Another host feeds that bundle to `x3dh_initiator`
(which calls `is_valid_public_key` and `vxeddsa_verify`), gives the secret to
`init_sender_state`, and sends the first `encrypt` along with the public keys
the responder needs. The responder's host calls `x3dh_responder`,
`init_receiver_state` and `decrypt`. From then on the two sessions meet only
through messages. `decrypt` calls `skip_message_keys` up to twice per message,
which calls `evict_oldest_skipped_keys` when the store is full.

**What is hard.** A DH ratchet while messages of the old chains are under way in
both directions; keys of a chain that is over; a repeated message that meets
the store of skipped keys before it meets the replay check; a commit of several
steps some of which can return an error; an `encrypt` that fails after it has
moved a chain key; limits reached in the middle of a gap; eviction by a clock
that the host may set back; a prekey server that mixes ids, keys and signatures of
bundles; a crash
between an `encrypt` or a `decrypt` and the save of the session; a result lost
on its way to the host after the session has moved; result structures that a C
host uses again while they hold the buffers of the call before; a signer and a
verifier that find their way to the same point of the curve from different ends.
The list with lines is under `hazards` in `PROJECT.json`.

**What makes the components correct.**

* Session: both halves stay in step whatever arrives (`InStep`,
  `RatchetsTakeTurns`), no nonce and no message key is used twice
  (`HeaderNoncesUnique`, `MessageKeysUnique`), no message becomes undecryptable
  within the limits (`NoMessageStranded`, `AllDelivered`), errors leave no half
  of a commit (`CommitCannotFailHalfway`), a reflected message is refused.
* Store: bounded, never holding a wrong key, evicting the oldest only.
* Saved sessions: a restart uses nothing twice and strands no message
  (`NothingUsedTwice`, `SavedCopyRecovers`, `InStep`), and a copy reveals neither
  what was sent before it (`SentStaySecret`) nor what its party or the peer encrypts
  once each has made a DH ratchet (`CopyHeals`, `PeerHeals`).
* C interface: every free is legal, nothing leaks, handles lead where they should,
  the status is that of the call (`FreesAreLegal`, `NothingLeaks`, `HandlesLead`,
  `StatusIsReturned`).
* VXEdDSA: what is signed verifies, with the signer's output; signatures have one
  form; what is accepted has the output of the owner of the key, unless the
  challenge hash happens to give the one answer that lets it through; the question to
  the nonce hash depends on the message (`SignedVerifies`, `NotMalleable`,
  `OneOutputOrLuck`, `NonceBoundToMessage`).
* X3DH with its host flow: sessions belong to those they name (`SessionsAgree`) and
  rest on a prekey that its owner signed (`OnlySignedPreKeys`), have secrets of
  their own (`SecretsDiffer`) that identity keys do not give away
  (`SecretsOutliveIdentities`), and honest ones come about (`HonestInitialOpens`).

## What is abstracted

* **Keys are terms.** A secret is the term that says how it was derived, so two
  secrets are equal exactly if the code derives them from the same inputs. HKDF,
  HMAC and X25519 are taken as collision free, the random generator as never
  repeating. A chain key is its chain and its position there.
* **Encryption.** A header opens under the key it was sealed with if it is
  undamaged, a body too. The associated data is the damage `"body"` if it is the
  wrong one, `"oversize"` if too long. Plaintexts are left out: a message is
  known by its packet.
* **Limits** are constants: `MaxSkip` (`MAX_SKIP`, 1000), `MaxSkippedKeys`
  (2000), `MaxReceived` (`MAX_RECEIVED_TRACKING`), `MaxCounter` (`u32::MAX`),
  `MaxNonce` (`u64::MAX`). `nr + MAX_SKIP` keeps its unchecked wrap modulo
  `MaxCounter + 1`.
* **The clock.** `Session` takes `SystemTime::now()` as strictly increasing.
  `SkipLoop` drops that.
* **Signatures**, in `X3DH`: what a signer signed verifies under its key, nothing
  else does. `VXEdDSA` looks inside.
* **The curve**, in `VXEdDSA`: the group Z_8 x Z_Q with a small prime Q. It has what
  the code deals with -- a cofactor of 8, points of small order, a sign bit that
  negation flips, a u-coordinate that a point shares with its negation -- and
  scalars that wrap modulo Q. **Hashes** are functions drawn at random, one answer
  at a time, from small sets; an answer once given stays.
* **What a copy reveals** is what the terms allow to derive: the chains under the
  root keys of up to two DH ratchets with the copy's own key pair (three in
  `CopiedSession`), chains from where they stand, stored keys.
* **Memory** is a map from addresses to allocations. The allocator gives out any
  free address. Bytes have a size and no content.
* **Hosts and network** are external and may do anything the interface allows;
  prekey renewal and the deletion of a used one-time prekey (AUDIT.md:306 lists
  "OPK deletion" under replay protection; no code in the crate does it) are host
  actions.

## The modules

```
KeySchedule <- SkippedKeys <- Ratchet <- Session <- OrderedSession -> FifoChannel
     ^              ^            ^           ^
     |              +- SkipLoop  |           +-- SavedSession <- CopiedSession
     |                           |
     +---- X3DH <---- Handshake -+           CInterface           VXEdDSA

SkippedKeysProofs <- SessionProofs <- OrderedProofs (OrderedSession)
        ^              (Session)  ^
        |                         +-- SavedProofs   (SavedSession, CopiedSession)
        +- SkipLoopProofs (SkipLoop)
HandshakeProofs (Handshake)   CInterfaceProofs (CInterface)   VXEdDSAProofs (VXEdDSA)
```

`KeySchedule` -- `kdf_rk_he`, `derive_header_keys`, `kdf_ck`, `dh` as terms.

`SkippedKeys` -- the store and, as operators, what its functions make of it.
`SkipMessageKeys` is the loop of `skip_message_keys` in closed form.

`Ratchet` -- one party. A session is a record with the fields of
`RatchetState`; there is an operator for each piece of `encrypt`, `decrypt` and
`commit_state_changes`, in the order of the code: `EncryptError` and
`DecryptError` are the early returns in their order, `Packet` the message,
`ChainAdvanced`, `Numbered`, `AfterEncrypt` the state after each step of
`encrypt`, `PreviousChainRefused` and `SkippedKeysLost` the early return of the
commit, `DhRatchet`, `GapStored`, `Advanced`, `Committed` the commit, `Tracked`
the replay list.

`Session` -- two parties and the network. `state[p]` is p's `RatchetState`,
`handed` maps each message sent to the number of times `decrypt` has returned
its plaintext. Its domain is the network: nothing is ever removed, so a message
can be late, repeated or lost. Each way out of `encrypt` and `decrypt` that
leaves another state is an action of its own:

| Action | Way out |
|---|---|
| `EncryptRefused` | `InvalidState`, `ADTooLarge` |
| `Encrypt` | success |
| `EncryptNumberOverflow` | `CounterOverflow` of `ns`, chain key moved |
| `EncryptNonceOverflow` | `CounterOverflow` of the nonce, chain key and `ns` moved |
| `DecryptRefused` | every error up to the authentication of the body |
| `DecryptWithSkippedKey` | success with a stored key |
| `DecryptLosesSkippedKeys` | the commit fails on the previous chain |
| `DecryptTooMany` | `TooManyMessages`, commit done, plaintext dropped |
| `DecryptOnChain` | success on the receiving chain |

The commit has three more returns, behind the DH ratchet. They have no action
because `CommitCannotFailHalfway`, which is proved, says that they cannot be
taken.

`OrderedSession` -- `Session` over a network that keeps the order and loses
nothing but may repeat. `FifoChannel` is what a host may expect then: a pair of
reliable FIFO channels. What has gone into the channel of a party is `Outbox`, its
messages by their nonces in the order of the counter; what has come out is `inbox`.
The overflow actions are left to `Session`.

`SkipLoop` -- `skip_message_keys` one insertion at a time, with `Call` (entry
guards), `Round` (evict if full, insert), `Return`, and `Use`
(`try_skipped_message_keys`) between calls. The difference between two stamps
is any member of `ClockSteps`; equal stamps are sorted in any order, as a
`HashMap` iterates in any.

`X3DH` -- the checks of both sides in their order, the concatenation of the
shared secrets, and `is_valid_public_key` for each kind of 33 bytes: a point,
a wrong prefix, zero, small order, the u-coordinate of no point.

`Handshake` -- the flow of `tests/e2e_x3dh_ratchet.rs`, with a server that mixes
bundles (`Mixed`: ids of one, keys of another, the signature of a third; the crate
neither signs nor checks the ids), alters keys, and hands out prekeys that another user
signed, with or without that user's identity key (`Forged`), and a network that repeats,
delays and alters, keys as well as ids. It starts real sessions of `Ratchet` on both
sides. The initiators in `Android` call
`x3dhInitiator` of `jni/x3dh.rs`, whose arrays may have any length: it takes a
one-time prekey of a wrong length as none, and its host does not learn of it.

`SavedSession` -- `Session` with hosts that keep a copy (`Serialized`,
`Deserialized`) and start from it again. `EncryptToOutbox` and `Send` split the
way of a message, `Restart` is a crash at any moment, and `DecryptedNull` is
`ratchetDecrypt` of `jni/ratchet.rs` when no Java array can be made: the session has
moved and the host cannot tell it from a refusal. The library says nothing of when
to save. The hosts here keep two rules: a message goes out only after a save that
knows of its `encrypt`, and after a null for which the session may have moved the
host starts from the copy before it saves again. With no rule the first property
fails at once; these two are what makes it hold.

`CopiedSession` -- `SavedSession` with somebody who copies each party's disk once, at any
time (`CopyDisk`), and keeps the copy while the parties go on.

`CInterface` -- all functions of `ffi/ratchet.rs`. `heap` is what is allocated,
`handles` and `strings` what the host holds, `enc` and `dec` its two result
structures, which it never clears, `due` which of them it has yet to free. Each
way out of `ratchet_encrypt_ffi` and `ratchet_decrypt_ffi` is an action; what they
compute is `Session`'s. The host is a single thread and keeps the safety contract
of the functions: it frees each session and string once, and the buffers after
each call that got past the checks of its arguments, failed or not (as
`tests/ffi_ratchet_test.rs` does for the calls that succeed). Calls of the free
functions with a null pointer do nothing and are left out.

`VXEdDSA` -- `calculate_key_pair`, `gen_pubkey`, `vxeddsa_sign`, `vxeddsa_verify`
over the small group. A u-coordinate is the set of the points that have it, and
`convert_mont` chooses one of them by its sign bit. A u that is `OffCurve` has none:
`u_to_y` panics for it (`utils.rs:41`), so that `vxeddsa_verify` does not return
(`vxeddsa.rs:203`) and `Verify` has no step. The tables `points`, `nonces`, `challenges`
are what the hashes have answered. The verifier gets signatures as they were made, with
another number for the same scalar, or with a point of small order or another point
added to V.

`MCSession`, `MCOrderedSession`, `MCSkipLoop`, `MCHandshake`, `MCSavedSession`,
`MCCopiedSession`, `MCCInterface`, `MCVXEdDSA` -- values for the constants. `SkippedKeysProofs`,
`SessionProofs`, `OrderedProofs`, `SavedProofs`, `SkipLoopProofs`,
`HandshakeProofs`, `CInterfaceProofs`, `VXEdDSAProofs` -- theorems.

**Mutations.** A definition commented `\* Mutation: ...` is a form of the
definition that follows it, changed as a plausible bug would (a reset left out,
two steps swapped, a derivation from the old key). Nothing uses it. The
`mutants` of `PROJECT.json` name, for each property of each run, the mutation
that makes TLC find it violated, which is how we know that the property says
something about the code.

## The runs

Each is `tlc -config <run>.cfg <module>`.

| Run | Module | Asks |
|---|---|---|
| `session_reordering` | `MCSession` | Four messages each way, no limit hit. Sessions in step, message keys unique, stored keys genuine, reflections refused, `DuplicateMessage` only of what was decrypted, nothing stranded, every message decrypted in the end |
| `session_limits` | `MCSession` | The same with every limit hit and every counter running out: types kept, in step, bounded, nothing used twice, no half commit, DH ratchets alternate |
| `ordered_session` | `MCOrderedSession` | A session implements `FifoChannel`, stores no key and forgets what it used |
| `skip_loop` | `MCSkipLoop` | The loop is its closed form, which evicts the oldest, and the gap is stored while the clock moves on; bound, and no more thrown out than by one eviction, under any clock |
| `handshake` | `MCHandshake` | Agreement, signed prekeys whatever is mixed, distinct secrets that identity keys do not give away, honest sessions come about |
| `saved_session` | `MCSavedSession` | Crashes and lost results: nothing used twice, in step, every message recoverable; a copy reveals nothing that was sent before it |
| `copied_session` | `MCCopiedSession` | A copy that somebody keeps leads to nothing that its party, or its peer, encrypts after their DH ratchets |
| `vxeddsa` | `MCVXEdDSA` | What is signed verifies; signatures have one form, and one output but for luck; nonces are asked for with the message |
| `c_interface` | `MCCInterface` | Frees, handles, leaks, status |
| `duplicate_accepted`, `commit_not_atomic` | `MCSession` | Statements of the repository that do not hold, see below |
| `handshake_bad_key` | `MCHandshake` | as above |

**Bounds.**

* `MaxSends`: 3 or 4 messages each way. Two consecutive DH ratchets of each
  party need two messages each way in turn; a gap in a chain, a late message of
  the chain before, and a repeated one need two more. Four and four contain them
  all at once.
* `session_reordering`: `MaxSkip` 8 and the rest above what eight messages can
  reach, so that the properties speak of the protocol and not of the limits.
* `session_limits`: `MaxSkip` 1, `MaxSkippedKeys` 2, `MaxReceived` 2. A gap of
  two is refused, a third stored key evicts, a third message of a chain is
  `TooManyMessages`. All of these happen within three messages of a chain and the
  two of the next. `MaxCounter` 3 and `MaxNonce` 4: the fourth message of a chain
  overflows the numbers, Alice's fifth the nonces, so she sends up to five times and
  Bob, whose answers make the chains change, three. `MaxFailedSends` 1 bounds how often
  the chain key of an exhausted chain moves in vain.
* `skip_loop`: `MaxSkip` 2, `MaxSkippedKeys` 4 (so half is 2, as tight as
  `SkipAssumption` allows), two chains, numbers up to 4, three calls: three calls
  can fill the store and evict. Clock steps -2 .. 1 stand for a clock set back,
  standing still and moving on; `steady` remembers whether it has always moved on.
  A step of more than 1 would order the entries as a step of 1 does.
* `saved_session`: two messages each way and two mishaps, within all limits. Two
  messages each way in turn are three DH ratchets; the second mishap can hit a
  session that was already restored.
* `copied_session`: the same with one mishap. Two messages each way in turn let each
  party ratchet after the copy was made and encrypt again, which is what both
  properties speak of.
* `vxeddsa`: Q = 7, so the group has 56 points, and `TopBit` 16 (below 4 Q, as
  2^254 is below four times the order of the base point); seeds 0 and 8, whose points have
  sign bit 0 and 1; two messages, two values of Z. The hashes have two or three
  answers, among them those that make B_v the identity and r zero. Two signatures
  and two acceptances, which is what the properties compare.
* `c_interface`: four addresses, so that two sessions or a session and the
  buffers of a call fit and addresses are used again; lengths 0, 1 and 2 tell an
  empty buffer from one whose size matters.
* `handshake`: two initiators of one owner (which is what tells a session from
  its user), one of them on Android, two signed prekeys and two one-time prekeys, so
  that ids, keys and signature of a bundle can each be of another one, and a one-time
  prekey can be handed out twice.

**Deadlock** is checked in the runs of `MCSession`, `MCOrderedSession`,
`MCSavedSession`, `MCCopiedSession` and `MCCInterface` (a refused call, a save or a null
argument is a step, so a host can always call). In `skip_loop`, `handshake`, `handshake_bad_key`
and `vxeddsa` the numbers of calls, handshakes and signatures are bounded, after
which nothing is left to do: their configurations say `CHECK_DEADLOCK FALSE`.

**Fairness.** The library schedules nothing. `FairSpec` and `OrderedSpec` assume
only that a host brings a message to `decrypt` as long as it has not been
decrypted (`WF` of `Deliver(p)`, of `DecryptNext(p)`). Sending is not fair: a
host may stop sending.

## What the runs show

Without limits hit, the two halves never drift apart: one party always leads by
exactly one DH ratchet, in any order of arrival with any losses, and a message
sent can be decrypted however late it comes. When limits *are* hit, keys are
evicted and plaintexts dropped, but `InStep` still holds: the session goes on.
Header nonces and message keys stay unique even across `encrypt`s that fail
halfway.

Over an ordered network the session is a pair of FIFO channels whatever is
repeated, which is where the replay protection of the code is complete. Out of
order it is not: see [where documents and code
disagree](#where-documents-and-code-disagree).

The closed form of `skip_message_keys` on which `Session` rests is not assumed:
`skip_loop` checks it against the loop. With a clock that misbehaves eviction
may choose others than the oldest, but a call throws out no more of the keys it has
found than one eviction does (half of the capacity), and the bound holds.

A host that saves before it sends survives a crash at any moment: what it
encrypted and did not send is gone for good, what it sent is never repeated, and
the peer's messages still open, in the session or in the copy. The same way a
host recovers a message whose plaintext was lost behind a null. A copy on the disk
gives away no message sent before it. It leads to none that its party encrypts once that
party has made a DH ratchet with a new key pair (`CopyHeals`), and to none that the peer
encrypts once the peer has made one on that key pair (`PeerHeals`): README.md:229,
"healed after the next DH ratchet step", takes the copied party's ratchet *and*, for what
it receives, the peer's next one. Both say what somebody can derive who has the copy
and reads along, not what he could do by sending messages himself.

A server that mixes bundles can give an initiator an old signed prekey under a new id. The
initiator cannot tell, but Bob's side then derives another secret and the first message
does not open, so that no session comes about in which the two sides have used
different prekeys.

The C interface needs no more of its host than what its comments say, with one
addition: after -100 and -101 the result structure is that of the call before, so
a host must look at the value returned and not at the status, and must not free.
Every error that does reach the structure nulls its pointers, which is why a host
may free after each call without looking.

Whatever the hashes are, a signature verifies under `gen_pubkey` of its seed with
the signer's output, unless B_v is the identity: `vxeddsa_sign` does not check that
and returns a signature that `vxeddsa_verify` refuses. With the real hash that
happens with a chance of about 2^-252. The VRF output of what is accepted is the one of
the key's owner, also if V was shifted by a point of small order. With any other V
every question to the challenge hash has at most one answer that is accepted, which
is all that can be said without probabilities.

## The proofs

`tlapm M.tla` for each of the eight modules of theorems. What they assume of the
constants, TLC evaluates in the runs:

* `SkipAssumption`: `MAX_SKIP <= MAX_SKIPPED_KEYS - MAX_SKIPPED_KEYS / 2`, which
  1000 and 2000 satisfy with equality, and without which a call could evict its
  own keys;
* `LimitAssumption`, `PartyAssumption`: the limits are naturals, at least one message
  can be tracked, Alice is not Bob; `ErrorAssumption`: `None` is not an error;
* `LoopAssumption`: stamps are integers that go up by 1 at most (see the bounds);
* `WidthAssumption` of `Handshake`: `MaxSkip` and `MaxCounter` are naturals;
* `LengthAssumption`, `PointerAssumption`: lengths are naturals, null and dangling
  pointers are different and not addresses;
* `GroupAssumption`: Q is odd, and every number that is not a multiple of it has an
  inverse (that is, Q is prime); `TopBit` is a multiple of 8 below 4 Q, seeds have two
  bits more than `TopBit`, and the answers of the hashes are scalars. 2^254 is below
  four times 2^252 + 27742...

The theorems of `SessionProofs` about both parties and those of `OrderedProofs` have the
hypothesis `NoneIsNoKey` (`Option::None` is no pair), one of `SavedProofs` also
`NoneIsNoMessage` (an empty outbox is no message), those of `HandshakeProofs` the hypothesis
`NoneIsNoValue`.
They say that a constant is not one of a class of values which is no set, so that TLC
cannot evaluate them as assumptions; the model value of the configurations satisfies
them.

| Theorem | Says |
|---|---|
| *SkippedKeysProofs* | |
| `SkipMessageKeysBounded` | `skip_message_keys` keeps a store of distinctly stamped entries within `MAX_SKIPPED_KEYS` |
| *SessionProofs* (`Spec` of `Session`) | |
| `TypeCorrect` | `Spec => []TypeOK` |
| `NoncesNeverRepeat` | `Spec => []HeaderNoncesUnique` |
| `StoreNeverOverflows` | `Spec => []SkippedKeysBounded` |
| `CommitGoesThrough` | `Spec => []CommitCannotFailHalfway` |
| the same, both parties at once | |
| `StaysInStep` | `[]InStep` |
| `KeysNeverRepeat` | `[]MessageKeysUnique` |
| `StoredKeysFit` | `[]SkippedKeysGenuine` |
| `OwnMessagesRefused` | `[]ReflectionRefused` |
| `NoFalseDuplicates` | `[]DuplicatesWereHanded` |
| `TurnsAreTaken` | `RatchetsTakeTurns`, an action property |
| the same, while no limit is reached | |
| `NothingStranded` | `WithinLimits => []NoMessageStranded` |
| *OrderedProofs* (`OrderedSpec`) | |
| `StoreStaysEmpty` | `[]NothingSkipped` |
| `KeysAreForgotten` | `[]HandedKeysForgotten` |
| `OrderedIsFifo` | `OrderedSpec => Fifo!ChannelSafety`: the refinement, step by step |
| *SavedProofs* (`SavedSpec`, for the last two `CopiedSpec`) | |
| `NothingIsUsedTwice` | `[]NothingUsedTwice` |
| `CopiesKeepTheSecret` | `[]SentStaySecret` |
| `CopiesStayInStep` | `[]InStep` |
| `CopiesRecover` | `SavedWithinLimits => []SavedCopyRecovers` |
| `CopiesHeal`, `CopiesHealForThePeer` | `[]CopyHeals`, `[]PeerHeals` |
| *SkipLoopProofs* (`LoopSpec`) | |
| `AlwaysBounded`, `EnoughSurvives` | `[]StoreBounded`, `[]HalfSurvives`, under any clock |
| `ClosedForm` | `[]LoopIsClosedForm`: the loop computes what `Session` takes for it |
| `GapKeysAreStored`, `OldestKeysGo` | `[]GapIsStored`, `[]OldestGoFirst` |
| *HandshakeProofs* (`HandshakeSpec`) | |
| `BothAgree` | `[]SessionsAgree` |
| `PreKeysAreSigned` | `[]OnlySignedPreKeys` |
| `IdentitiesAreNotEnough` | `[]SecretsOutliveIdentities` |
| `NoSharedSecrets` | `[]SecretsDiffer` |
| `HonestStartsOpen` | `[]HonestInitialOpens` |
| *CInterfaceProofs* (`Spec` of `CInterface`) | |
| `FreesMatch`, `NoLeaks` | `[]FreesAreLegal`, `[]NothingLeaks` |
| `HandlesStayValid` | `[]HandlesLead` |
| `StatusAgrees` | `[]StatusIsReturned` |
| *VXEdDSAProofs* (`Spec` of `VXEdDSA`) | |
| `SignaturesVerify` | `[]SignedVerifies` |
| `OutputsAgreeOrLuck` | `[]OneOutputOrLuck` |
| `SignaturesAreRigid` | `[]NotMalleable` |
| `NoncesAreBound` | `[]NonceBoundToMessage` |

Eleven more theorems state the inductive invariants themselves (`Invariance`,
`Agreement`, `OrderedInvariance`, `SavedInvariance`, `CopiedInvariance`, `SavedAgreement`,
`RecoveryInvariance`,
`BoundInvariance`, `LoopInvariance`, `HandshakeInvariance`, `SignatureInvariance`).

**The store.** `SkippedKeysProofs` shows that eviction leaves at most
`target` entries (sort by distinct stamps: the entries kept are those with fewer
than `target` newer ones, and the oldest of them bounds their number), that an
insertion with later stamps keeps stamps distinct, and from `SkipAssumption`
that half the store and one gap fit.

**Types, nonces and the commit.** `SessionProofs` uses the inductive invariant
`IInv`: `TypeOK`, `SessionOK` of
each party, `PacketOK` of each message, and `NoncesOK`. The safety properties
are not inductive by themselves. `CommitCannotFailHalfway` needs that an
authentic message does not lie below `nr`, although `compute_message_key` does
not look. What rules it out is a fact about *positions*: the receiving chain key
stands at `nr` and the sending one at `ns` (`SessionOK`), so a message's key
carries its number (`PacketOK`), and the key the receiver derives for a number
below `nr` is that of `nr`, which is not the message's. The sending half has one
exception, found by TLC first: a chain whose numbers are exhausted has a chain
key that ran ahead, so `SessionOK` allows it there. `HeaderNoncesUnique` needs
that the nonces used lie below the counter and are as many as it says
(`NoncesOK`). Each action has a lemma on what it does to one session
(`EncryptKeeps`, `FailedEncryptKeeps`, `CommittedKeeps`, `SmallStepsKeep`), and
`EncryptStep`, `DecryptStep` lift these to the system. TLC has checked `IInv`
with the constants of `session_limits`.

**Agreement.** `InStep` relates the two sessions, and is not inductive: nothing in it
says that the header that makes a party ratchet comes from the chain its peer is on.
`AInv`, in the second half of `SessionProofs`, adds to `IInv`

* *freshness* (`KeysOK`): every key of the root chain was derived from key pairs that
  have been generated, so that what the next DH ratchet derives is like no key in use,
  in the store or on the network;
* *one leader* (`Turn`): `Leads`, with the six header keys of the two sessions different
  where they have to be, and the two root keys different;
* *messages and chains* (`MessageOK`, `PreviousOK`): a message whose header key, chain
  or public key is the one that a party sends with was sent on that chain by that
  party, below its `ns`; and one under the header key that the other party still reads
  belongs to the leader's previous chain, below its `pn`;
* *ids* (`IdsUnique`): two messages with one key or one id for the replay check are one;
* *stores* (`StoresOK`): a stored key belongs to a chain that has begun, below the number
  its sender uses next, and is genuine;
* *the replay list* (`ReceivedOK`): what is in it was handed over.

`decrypt` of an authentic message splits into the DH ratchet, where the leader changes
and the parts are shown for the new leader from freshness, and the rest, where no key
that these parts speak of moves except along its chain (`Quiet`). That decryption
succeeds at all leads from the header key to the chain (`MessageOK`). `RatchetsTakeTurns`
is the step of that case. TLC has checked `AInv` with the constants of both runs of
`Session`, with fewer messages.

**Nothing is lost.** `NoMessageStranded` holds only while no limit is reached: a
message behind a gap wider than `MAX_SKIP` is refused, and since `nr` moves by one for
each message decrypted, several gaps of a chain add up. The hypothesis of
`NothingStranded` is `WithinLimits`: what a party may send stays within the skip limit,
the store, the replay list and the width of the counters. The constants of
`session_reordering` satisfy it, and with the code's it says that neither party sends
more than `MAX_SKIP`, 1000, messages in the whole session. That a message opens is not
inductive; `LInv` adds to `AInv`

* *where it is awaited* (`AllAwaited`): a message not handed over has its key in the
  store, or lies at or after `nr` on the chain read, or is under the next header key and
  so announces a DH ratchet;
* *no holes* (`ChainsWhole`, `PreviousWhole`): every number of a chain below one that was
  used was used, so that what is skipped was sent;
* *what is kept* (`KeptOK`): stored names and tracked ids are those of the peer's
  messages, and with that fewer than the limits: no `evict` and no `TooManyMessages`;
* *counters* (`NumbersMatchSent`): a number is at most what its sender sent, so that no
  gap is wider than `MAX_SKIP` and nothing overflows.

A DH ratchet is where a message could fall between: it stores the rest of the previous
chain up to `pn`, and a message of that chain lies below `pn` (`PreviousOK` of `AInv`).

**The ordered network.** `OInv` counts. The messages of a party have the positions 0, 1,
2, ... in the order they were sent, which are their nonce counters; `Base` is the
position of the first message of the party's chain; a header of the previous chain with
number n has position `Base - pn + n` (`PreviousChain`); and the party that reads stands
at the first message it was not handed, or one further and for good if that one was
dropped because too many were tracked (`Position`). So the next message is never ahead
of `nr` and, when it begins a chain, `pn` is where the reader stands: nothing is
skipped. `KeysAreForgotten` follows, since what was handed over lies behind `nr`. For
`OrderedIsFifo` every step is mapped: a successful `encrypt` is the send of the
channel, a `decrypt` that hands over is the receive, all others stutter.

**Copies.** With hosts that crash and restart from a copy, `SInv` of `SavedProofs` gets by
without saying that the two sessions are in step. It rests on one fact, that a DH
ratchet draws a key pair that was never drawn before, so that the root derived with it is nowhere yet (`NextPairIsNew`). From there it follows what holds
that root: messages, sessions, copies.

* *Places* (`PlacesOK`): a chain belongs to one party, and along it message numbers and
  nonce counters move together, in the session, in the copy and in every message. So a
  message key used twice would be a nonce used twice.
* *Counters* (`CountersOK`): what was sent lies below the nonce counter of the copy,
  since the host sends only once it has saved, and the outbox is newer than all that.
  With the places this is `NothingUsedTwice`.
* *Header keys* (`HeaderKeysOK`): a header key belongs to the direction of one party, so
  that what a session or an old copy decrypts was sent by its peer, and its receiving
  chain is a chain of the peer's (`FromPeer`).
* *Pasts* (`PastOK`): neither a session nor a copy leads, by one or two DH ratchets with
  its key pair, to the chain of a message that its party encrypted before. This is
  `SentStaySecret` for later chains; for the copy's own chain it is the counters, and
  for stored and receiving keys the direction.

An action that derives no root is a `Continues` (saving, restoring,
encrypting, decrypting within a chain), for which most of this carries over at once
(`QuietAction`). TLC has checked `SInv` with the constants of `saved_session`.

A copy off the disk (`CopiedSession`) was a saved copy when it was made, and what `SInv`
says of one stays true as messages are sent and key pairs drawn (`CInv`,
`KeptCopiesOK`). `CopyHeals` and `PeerHeals` compare the root of the session, or of the
peer's, with those that the copy leads to: the copy's own key pair is in each of
these, and is in no root that was derived with later ones (`NotLedOn`). The peer's root is
one that it derived itself with the key it has last received, which is later than the
copy's by hypothesis.

`InStep` of the sessions in memory is not enough to prove, since a restart puts an old
session in the place of one of them, at any time. So `ViewsInv` says more: in every *view*, in which
each party has either its session in memory or the one it would start from (`View`), the
two agree (`Agree`, the parts of `AInv`), and they agree with the messages that both have
encrypted, sent or not (`EncryptedBy`). A restart then makes no new view, it only takes
some away, and a save makes none but for the order of the store (`RestartViews`,
`SaveViews`). An encrypt or a decrypt changes every view that has the session in memory
in the same way, and the lemmas of `Session` about one step apply to each of them
(`EncryptInView`, `OnChainInView`, `RatchetInView`); the views with the copy do not know
of the new message (`OutboxViews`), and what was sent all of them know (`SentIsSeen`),
because of the save before each send. That no two messages share a key, sent or not, is
`ItemsDistinct`. TLC has checked `ViewsInv` with the constants of `saved_session`.

`SavedCopyRecovers` holds only while no limit is reached (`SavedWithinLimits`): what a
party encrypts in all its lives, `MaxSends` and what the `MaxMishaps` crashes and nulls
took back, fits into one gap, into the store and into a u32 number on top of `MAX_SKIP`.
`RecoveryInv` adds four things to `ViewsInv`.

* *Counts* (`EncryptsOK`): the nonce counter is at most what was sent, what waits in the
  outbox, and the mishaps. A null counts before the restart that it leads to.
* *Numbers* (`NumbersOK`): no message number exceeds the nonce counter of its message.
* *Names* (`NamesOK`): the messages in the network do not tell what a store may hold,
  since a chain has holes where a crash took an encrypted message back. So there are,
  for each party, names (header key and number) without holes, no more than nonces
  used, up to its copy and up to now. The other party has seen only those of the copy,
  the keys it stores have some of them for names (`DecryptStores`), and nothing is
  evicted (`SkipAddsSeen`).
* *What is awaited* (`AwaitsOK`): a message encrypted and not handed over is stored,
  lies ahead on the receiving chain, or announces a DH ratchet, for the copy always and
  for the session in memory unless it moved for a null. This is `AllAwaited` of
  `Session`, once for each of the two, and it is why a save after a null is forbidden.

A decrypt uses a stored key, passes along its chain, or overtakes the other party
(`Uses`, `Passes`, `Overtakes`), which is the same whether that party is seen in memory
or in its copy (`DecryptMoves`). What is awaited can be read (`AwaitedIsReadable`). TLC has
checked `RecoveryInv`, with the least names that there can be, on an instance with
`MAX_SKIP` 4 and a store of 8.

**The loop.** `BoundInv`, which holds under any clock, is `StoreBounded` and
`HalfSurvives` together with `CallOK`: a call that has evicted has left half of the
capacity free but for what it has inserted since, and what `SkipAssumption` lets it
insert fits there, so that it does not evict twice. `SteadyInv` says, while the clock moves on,
that the store in round `current` is `SkipMessageKeys` of the part of the gap before
`current`, and where its newest stamp stands. So the induction over the rounds of a call
is that of the invariant over the steps. That one round more is one number more of the
closed form is a lemma about sets of keys: the numbers before which the store is full
grow with the gap, the first of them stays, and what `SkipAssumption` leaves free after
an eviction is enough for the rest of the gap. `OldestGoFirst` follows from the closed
form and is proved without a run of its own.

**The handshake.** `HInv`: published bundles are Bob's (`PublishedOK`), a session is what
`InitiatorSecret` makes of the bundle it was started from, which is one of those that
pass the checks (`BundleOK`), and initial messages are those of their sessions. A mixed
bundle has its ids, keys and signature from three published ones (`MixedIsMix`); what the
signature check leaves of these is a prekey and a signature that belong together,
under whatever id (`AcceptedBundle`). Nothing in a secret is assumed to be different but
the terms. `IdentitiesAreNotEnough` reads off them that the ephemeral key's DH with the
signed prekey has neither key in common with the identities and one-time prekeys. That a session Bob opens is the
initiator's is the lemma `FirstMessageOpens`: the first message opens under no other
secret; then the terms of the two secrets are compared, with and without a one-time
prekey.

**The C interface.** `CInterfaceProofs` holds for every allocator, any number of sessions and
plaintexts of any length. The three properties of the memory lean on each other: a
free is legal because nothing else owns what it takes, which needs handles,
strings and buffers to be told apart (`KindsDiffer`), and nothing leaks because
every free that skips something skips what was never allocated. The link is
`StructuresOK`: what is due points to an allocation exactly if its length is not 0,
by `shrink_to_fit` on the way out and by the error paths that null the pointers.
Their conjunction is inductive, with one lemma for each function.

**Signatures.** `VXEdDSAProofs` begins with arithmetic modulo Q, from quotient and
remainder alone, because the provers know no primes: an odd Q divides `8 x` only if it
divides `x` (`CofactorCancels`), and an invertible factor cancels (`NoZeroDivisors`).
From these, clamping makes no multiple of Q (`ClampedIsNotZero`: 8 times a number
that is not 0 and lies below Q, for which `TopBit < 4 Q` is needed), so there is a
point with a sign bit for every seed, and the signer and the verifier work with the same one
(`KeyPairOf`). `VInv` keeps, for each signature, the answers that it was made with, and
for each acceptance that its scalars were canonical and that its challenge is the one
that the hash answered; answers are never taken back (`GrowthKeeps`). Then `s B - h A =
r B` (`CommitmentCancels`), so that the verifier asks the very question that the signer
asked, and R fixes s (`CommitmentDetermines`). For a V that is wrong by more than a point
of small order, two challenges with the same commitments are one, by a product that Q
does not divide (`ChallengesAreTold`, `CommitmentsTell`). So whatever answers with that V
to the question that was asked bears the challenge that was answered, and that is
`OutputsAgreeOrLuck`.

**Only model-checked.**

* Liveness under fairness is out of the prover's reach: `AllDelivered`, and in
  `ImplementsFifoChannel` the fairness of the channel. Its safety is `OrderedIsFifo`.
* The theorems about `VXEdDSA` are about Z_8 x Z_Q; that the curve's group is of this
  form is a fact about the curve. Induction over data is out of reach
  too, nothing here needs it. No module uses `RECURSIVE`.

## Where documents and code disagree

| Run | The code | The statement |
|---|---|---|
| `duplicate_accepted` | After a message that leaves a gap, `ck_r` and `nr` move by one, not to the message. The next commit stores the key of the message already decrypted, and that key opens it again before the replay check is reached | `tests/e2e_x3dh_ratchet.rs:255` "Duplicate message should be rejected" |
| `commit_not_atomic` | `mkskipped` is taken out of the state before a call that may fail, and is lost with it | `ratchet.rs:475` "(ATOMIC)" |
| `handshake_bad_key` | `is_valid_public_key` panics for the u-coordinate of no point | `x3dh.rs:129` "`Err(X3DHError)` - If signature verification or key validation fails." |

Two more follow from the same lines. After a gap the chain key kept is older
than the message decrypted and leads to its key (`HandedKeysForgotten` holds
over an ordered network only), against `ratchet.rs:7`. And `TooManyMessages`
comes after the commit (`ratchet.rs:364`), so it is another error that changes
the session (action `DecryptTooMany`).

## Not modelled, and the plan

| Part | Why not |
|---|---|
| C interface of X3DH and VXEdDSA (`ffi/x3dh.rs`, `ffi/vxeddsa.rs`, `ffi/utils.rs`) | wrappers without a state that copy arguments and results between structures of fixed size and turn errors into numbers |
| Android interface | except for `ratchetDecrypt` and `x3dhInitiator`: the same, with arrays that the Java VM owns. `x3dhResponder` gets its private keys from its own host, and a public key of a wrong length is one more that it refuses |
| Damaged copies | `CInterface` has the NULL that `ratchet_deserialize` returns; a copy altered so that it still parses is a state that no program run leads to |
| Field arithmetic, the map to the curve, SHA-512 | external libraries; groups and hashes by what they promise |
| Hosts that break the safety contract (use after free, two threads with one handle) | undefined by the contract, nothing in the code answers to them |
| Zeroization | no observable state |

Done: the core, `Session`; the store, `SkipLoop`; the ordered use, with its
abstract specification; `Handshake`; `SavedSession`, with crashes and what a copy
reveals; `CInterface`; `VXEdDSA`; and the proofs of all safety properties that the passing runs check,
and of the refinement. What is left is in the table above.
