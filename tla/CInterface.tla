----------------------------- MODULE CInterface -----------------------------
(***************************************************************************)
(* The C interface of the ratchet (src/src/ffi/ratchet.rs): sessions are   *)
(* boxes that the host knows by address, results are buffers that a result *)
(* structure of the host points to, copies are C strings.  What encrypt    *)
(* and decrypt do is left to Session.tla: here they end in one of their    *)
(* errors or with buffers of some length.                                  *)
(*                                                                         *)
(* The allocator may hand out any free address, also one just freed.  The  *)
(* host is a single thread.  It                                            *)
(*   - keeps one result structure for encrypt and one for decrypt, which   *)
(*     it never clears,                                                    *)
(*   - frees what they point to after each call that got past the checks   *)
(*     of the arguments, failed or not, as the errors null the pointers,   *)
(*   - frees each session and string once.                                 *)
(***************************************************************************)
EXTENDS Integers, FiniteSets, Functions

CONSTANTS
    None, Null, Dangling,
    Addresses,          \* bound: where the allocator puts things
    Sessions,           \* names of sessions, to tell boxes apart
    MaxLength           \* bound: length of a plaintext

ASSUME LengthAssumption == MaxLength \in Nat
ASSUME PointerAssumption == Null # Dangling /\ {Null, Dangling} \cap Addresses = {}

VARIABLES
    heap,       \* what is allocated where
    handles,    \* the host's sessions: their names by address
    strings,    \* the host's copies: names of their sessions by address
    enc, dec,   \* the result structures
    due,        \* the result structures whose buffers the host has to free
    returned    \* the value of the last call of encrypt or decrypt, by structure

vars == <<heap, handles, strings, enc, dec, due, returned>>

-----------------------------------------------------------------------------
Box(s) == [kind |-> "session", session |-> s]
CString(s) == [kind |-> "string", session |-> s]
Bytes(n) == [kind |-> "bytes", size |-> n]

Free == Addresses \ DOMAIN heap
With(f, a, x) == [b \in DOMAIN f \cup {a} |-> IF b = a THEN x ELSE f[b]]
Without(f, a) == Restrict(f, DOMAIN f \ {a})

(***************************************************************************)
(* RatchetError, and map_error.                                            *)
(***************************************************************************)
EncryptErrors == {"CounterOverflow", "ADTooLarge", "InvalidState"}
DecryptErrors == {"DecryptionFailed", "OldMessageKeysLimitReached", "DuplicateMessage",
                  "InvalidHeader", "HeaderDecryptionFailed", "ADTooLarge",
                  "TooManyMessages"}

MapError(e) ==
    CASE e = "InvalidKey"                 -> -1
      [] e = "DecryptionFailed"           -> -2
      [] e = "OldMessageKeysLimitReached" -> -3
      [] e = "DuplicateMessage"           -> -4
      [] e = "InvalidHeader"              -> -5
      [] e = "HeaderDecryptionFailed"     -> -6
      [] e = "CounterOverflow"            -> -7
      [] e = "ADTooLarge"                 -> -8
      [] e = "InvalidState"               -> -9
      [] e = "TooManyMessages"            -> -10

(***************************************************************************)
(* A buffer of `length` bytes in a Vec of some capacity, on its way out.   *)
(* shrink_to_fit makes the allocation as large as the buffer: an empty one *)
(* has none, its pointer dangles.                                          *)
(***************************************************************************)
ShrinkToFit(length, capacity) == length

(***************************************************************************)
(* A Vec of this size goes to address a, dangling if it has no allocation. *)
(***************************************************************************)
FitsAt(h, a, size) == a \in IF size = 0 THEN {Dangling} ELSE Addresses \ DOMAIN h

Placed(h, a, size) == IF size = 0 THEN h ELSE With(h, a, Bytes(size))

(***************************************************************************)
(* Vec::from_raw_parts(ptr, len, len) dropped, unless ptr is null or len   *)
(* is 0.                                                                   *)
(***************************************************************************)
\* Mutation: buffers of one byte are skipped.
SkippedShort(ptr, len) == ptr = Null \/ len <= 1

Skipped(ptr, len) == ptr = Null \/ len = 0

FreeBuffer(h, ptr, len) == IF Skipped(ptr, len) THEN h ELSE Without(h, ptr)

-----------------------------------------------------------------------------
(* Result structures.  The host starts with null pointers and status -1.   *)

NoBuffer == [ptr |-> Null, len |-> 0]
FreshEnc == [header |-> NoBuffer, ciphertext |-> NoBuffer, status |-> -1]
FreshDec == [plaintext |-> NoBuffer, status |-> -1]

\* Mutations: a failed encrypt leaves the ciphertext, a failed decrypt the
\* status as they were.
EncFailedHalf(out, e) == [out EXCEPT !.header = NoBuffer, !.status = MapError(e)]

DecFailedSilently(out, e) == [out EXCEPT !.plaintext = NoBuffer]

EncFailed(out, e) ==
    [out EXCEPT !.header = NoBuffer, !.ciphertext = NoBuffer, !.status = MapError(e)]

DecFailed(out, e) == [out EXCEPT !.plaintext = NoBuffer, !.status = MapError(e)]

Init ==
    /\ heap = [a \in {} |-> None]
    /\ handles = [a \in {} |-> None]
    /\ strings = [a \in {} |-> None]
    /\ enc = FreshEnc /\ dec = FreshDec
    /\ due = {}
    /\ returned = [enc |-> -1, dec |-> -1]

-----------------------------------------------------------------------------
(* Sessions.                                                               *)

(***************************************************************************)
(* Box::into_raw.                                                          *)
(***************************************************************************)
Boxed(s) ==
    \E a \in Free :
        /\ heap' = With(heap, a, Box(s))
        /\ handles' = With(handles, a, s)
        /\ UNCHANGED <<strings, enc, dec, due, returned>>

(***************************************************************************)
(* ratchet_init_sender_ffi and ratchet_init_receiver_ffi: a public key     *)
(* with a wrong prefix gives NULL before anything is allocated.            *)
(***************************************************************************)
RatchetInit(s, prefix) == IF prefix = "wrong" THEN UNCHANGED vars ELSE Boxed(s)

RatchetFree(h) ==
    /\ heap' = Without(heap, h)
    /\ handles' = Without(handles, h)
    /\ UNCHANGED <<strings, enc, dec, due, returned>>

-----------------------------------------------------------------------------
(***************************************************************************)
(* ratchet_encrypt_ffi, by its ways out.  -100 leaves the structure as it  *)
(* is.                                                                     *)
(***************************************************************************)
EncryptNull ==
    /\ "enc" \notin due
    /\ returned' = [returned EXCEPT !.enc = -100]
    /\ UNCHANGED <<heap, handles, strings, enc, dec, due>>

EncryptErr(e) ==
    /\ DOMAIN handles # {} /\ "enc" \notin due
    /\ enc' = EncFailed(enc, e)
    /\ returned' = [returned EXCEPT !.enc = MapError(e)]
    /\ due' = due \cup {"enc"}
    /\ UNCHANGED <<heap, handles, strings, dec>>

EncryptOk ==
    /\ DOMAIN handles # {} /\ "enc" \notin due
    /\ \E capacity \in 1 .. 2, h, c \in Addresses :
          LET size == ShrinkToFit(1, capacity)
          IN  /\ FitsAt(heap, h, size)
              /\ FitsAt(Placed(heap, h, size), c, size)
              /\ heap' = Placed(Placed(heap, h, size), c, size)
              /\ enc' = [header |-> [ptr |-> h, len |-> 1],
                         ciphertext |-> [ptr |-> c, len |-> 1], status |-> 0]
    /\ returned' = [returned EXCEPT !.enc = 0]
    /\ due' = due \cup {"enc"}
    /\ UNCHANGED <<handles, strings, dec>>

(***************************************************************************)
(* ratchet_decrypt_ffi.  Null pointers give -100, a null header with a     *)
(* length -101; both leave the structure as it is.                         *)
(***************************************************************************)
DecryptNull(code) ==
    /\ "dec" \notin due
    /\ code = -101 => DOMAIN handles # {}
    /\ returned' = [returned EXCEPT !.dec = code]
    /\ UNCHANGED <<heap, handles, strings, enc, dec, due>>

DecryptErr(e) ==
    /\ DOMAIN handles # {} /\ "dec" \notin due
    /\ dec' = DecFailed(dec, e)
    /\ returned' = [returned EXCEPT !.dec = MapError(e)]
    /\ due' = due \cup {"dec"}
    /\ UNCHANGED <<heap, handles, strings, enc>>

DecryptOk ==
    /\ DOMAIN handles # {} /\ "dec" \notin due
    /\ \E length \in 0 .. MaxLength, extra \in 0 .. 1, p \in Addresses \cup {Dangling} :
          LET size == ShrinkToFit(length, length + extra)
          IN  /\ FitsAt(heap, p, size)
              /\ heap' = Placed(heap, p, size)
              /\ dec' = [plaintext |-> [ptr |-> p, len |-> length], status |-> 0]
    /\ returned' = [returned EXCEPT !.dec = 0]
    /\ due' = due \cup {"dec"}
    /\ UNCHANGED <<handles, strings, enc>>

(***************************************************************************)
(* ratchet_free_result_buffers and ratchet_free_byte_buffer.  The          *)
(* structures are the host's, they keep pointing to what is gone.          *)
(***************************************************************************)
RatchetFreeResultBuffers ==
    /\ "enc" \in due
    /\ heap' = FreeBuffer(FreeBuffer(heap, enc.header.ptr, enc.header.len),
                          enc.ciphertext.ptr, enc.ciphertext.len)
    /\ due' = due \ {"enc"}
    /\ UNCHANGED <<handles, strings, enc, dec, returned>>

RatchetFreeByteBuffer ==
    /\ "dec" \in due
    /\ heap' = FreeBuffer(heap, dec.plaintext.ptr, dec.plaintext.len)
    /\ due' = due \ {"dec"}
    /\ UNCHANGED <<handles, strings, enc, dec, returned>>

-----------------------------------------------------------------------------
(* Copies.                                                                 *)

\* Mutation: the session is taken out of its box.
SerializedAndDropped(h, a) == With(Without(heap, h), a, CString(handles[h]))

(***************************************************************************)
(* ratchet_serialize reads the session, and makes a string of its own.     *)
(***************************************************************************)
HeapWithString(h, a) == With(heap, a, CString(heap[h].session))

RatchetSerialize(h) ==
    \E a \in Free :
        /\ heap' = HeapWithString(h, a)
        /\ strings' = With(strings, a, handles[h])
        /\ UNCHANGED <<handles, enc, dec, due, returned>>

(***************************************************************************)
(* ratchet_deserialize: NULL for what is no session, a box of its own      *)
(* otherwise.  The string stays the host's.                                *)
(***************************************************************************)
RatchetDeserialize(t, damaged) ==
    IF damaged THEN UNCHANGED vars ELSE Boxed(heap[t].session)

RatchetFreeString(t) ==
    /\ heap' = Without(heap, t)
    /\ strings' = Without(strings, t)
    /\ UNCHANGED <<handles, enc, dec, due, returned>>

Next ==
    \/ \E s \in Sessions, prefix \in {"right", "wrong"} :
          RatchetInit(s, prefix)
    \/ \E h \in DOMAIN handles : RatchetFree(h) \/ RatchetSerialize(h)
    \/ EncryptNull
    \/ \E e \in EncryptErrors : EncryptErr(e)
    \/ EncryptOk
    \/ \E code \in {-100, -101} : DecryptNull(code)
    \/ \E e \in DecryptErrors : DecryptErr(e)
    \/ DecryptOk
    \/ RatchetFreeResultBuffers
    \/ RatchetFreeByteBuffer
    \/ \E t \in DOMAIN strings :
          \/ \E damaged \in BOOLEAN : RatchetDeserialize(t, damaged)
          \/ RatchetFreeString(t)

Spec == Init /\ [][Next]_vars

-----------------------------------------------------------------------------
(***************************************************************************)
(* The buffers that the host still has to free, by their fields.           *)
(***************************************************************************)
BufferOf == [header |-> enc.header, ciphertext |-> enc.ciphertext,
             plaintext |-> dec.plaintext]

DueFields == (IF "enc" \in due THEN {"header", "ciphertext"} ELSE {})
             \cup (IF "dec" \in due THEN {"plaintext"} ELSE {})

Owed == {f \in DueFields : BufferOf[f].ptr \notin {Null, Dangling}}

(***************************************************************************)
(* Every free is of something that is allocated, with the size it was      *)
(* allocated with, and no two of them are of the same thing.               *)
(***************************************************************************)
FreesAreLegal ==
    /\ \A f \in Owed : /\ BufferOf[f].ptr \in DOMAIN heap
                       /\ heap[BufferOf[f].ptr] = Bytes(BufferOf[f].len)
    /\ \A f, g \in Owed : BufferOf[f].ptr = BufferOf[g].ptr => f = g

(***************************************************************************)
(* The address of a session leads to that session as long as the host has  *)
(* it, whatever was freed and allocated in between; the same for strings.  *)
(***************************************************************************)
HandlesLead ==
    /\ \A h \in DOMAIN handles : h \in DOMAIN heap /\ heap[h] = Box(handles[h])
    /\ \A t \in DOMAIN strings : t \in DOMAIN heap /\ heap[t] = CString(strings[t])

(***************************************************************************)
(* Nothing is allocated that the host cannot free.                         *)
(***************************************************************************)
NothingLeaks ==
    DOMAIN heap = DOMAIN handles \cup DOMAIN strings \cup {BufferOf[f].ptr : f \in Owed}

(***************************************************************************)
(* "status: 0 = Success, Error codes < 0", of every call that got past the *)
(* checks of the arguments: the status is what was returned, and there are *)
(* buffers to read exactly if it is 0.                                     *)
(***************************************************************************)
StatusIsReturned ==
    /\ "enc" \in due => /\ enc.status = returned.enc
                        /\ (enc.status = 0) = (enc.header.ptr # Null)
                        /\ (enc.status = 0) = (enc.ciphertext.ptr # Null)
    /\ "dec" \in due => /\ dec.status = returned.dec
                        /\ (dec.status = 0) = (dec.plaintext.ptr # Null)

=============================================================================
