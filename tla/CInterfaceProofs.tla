-------------------------- MODULE CInterfaceProofs --------------------------
(***************************************************************************)
(* Theorems about CInterface, for every allocator, any number of sessions  *)
(* and plaintexts of any length.                                           *)
(***************************************************************************)
EXTENDS CInterface, TLAPS

(***************************************************************************)
(* The strengthening.  The error paths null the pointers and shrink_to_fit *)
(* leaves no allocation without a length, so that what is due points to an *)
(* allocation exactly if it has a length.                                  *)
(***************************************************************************)
Buffer == [ptr : Addresses \cup {Null, Dangling}, len : Nat]

StructuresOK ==
    /\ due \subseteq {"enc", "dec"}
    /\ enc \in [header : Buffer, ciphertext : Buffer, status : Int]
    /\ dec \in [plaintext : Buffer, status : Int]
    /\ returned \in [enc : Int, dec : Int]
    /\ \A f \in DueFields : (BufferOf[f].ptr \in Addresses) = (BufferOf[f].len # 0)

(***************************************************************************)
(* The inductive invariant.                                                *)
(***************************************************************************)
IInv ==
    /\ StructuresOK
    /\ FreesAreLegal
    /\ HandlesLead
    /\ NothingLeaks

-----------------------------------------------------------------------------
(***************************************************************************)
(* Freeing one address leaves all others.                                  *)
(***************************************************************************)
LEMMA WithoutFacts ==
    ASSUME NEW f, NEW a
    PROVE  /\ DOMAIN Without(f, a) = DOMAIN f \ {a}
           /\ \A b \in DOMAIN f \ {a} : Without(f, a)[b] = f[b]
BY DEF Without, Restrict

(***************************************************************************)
(* A session, a string and a buffer are never the same allocation.         *)
(***************************************************************************)
LEMMA KindsDiffer ==
    ASSUME NEW s, NEW t, NEW n
    PROVE  /\ Box(s) # CString(t)
           /\ Box(s) # Bytes(n)
           /\ CString(t) # Bytes(n)
<1>1. Box(s).kind = "session" /\ CString(t).kind = "string" /\ Bytes(n).kind = "bytes"
  BY DEF Box, CString, Bytes
<1> QED BY <1>1

(***************************************************************************)
(* The buffers of the two result structures by name.                       *)
(***************************************************************************)
LEMMA BufferOfFields ==
    /\ BufferOf["header"] = enc.header
    /\ BufferOf["ciphertext"] = enc.ciphertext
    /\ BufferOf["plaintext"] = dec.plaintext
BY DEF BufferOf

(***************************************************************************)
(* The same after a step.                                                  *)
(***************************************************************************)
LEMMA BufferOfFieldsNext ==
    /\ BufferOf'["header"] = enc'.header
    /\ BufferOf'["ciphertext"] = enc'.ciphertext
    /\ BufferOf'["plaintext"] = dec'.plaintext
BY DEF BufferOf

(***************************************************************************)
(* map_error never gives 0.                                                *)
(***************************************************************************)
LEMMA ErrorsAreNegative ==
    \A e \in EncryptErrors \cup DecryptErrors : MapError(e) \in Int /\ MapError(e) < 0
<1> SUFFICES ASSUME NEW e \in EncryptErrors \cup DecryptErrors
             PROVE  MapError(e) \in Int /\ MapError(e) < 0
  OBVIOUS
<1>1. e \in {"DecryptionFailed", "OldMessageKeysLimitReached", "DuplicateMessage",
             "InvalidHeader", "HeaderDecryptionFailed", "CounterOverflow",
             "ADTooLarge", "InvalidState", "TooManyMessages"}
  BY DEF EncryptErrors, DecryptErrors
<1>2. /\ MapError("DecryptionFailed") = -2
      /\ MapError("OldMessageKeysLimitReached") = -3
      /\ MapError("DuplicateMessage") = -4
      /\ MapError("InvalidHeader") = -5
      /\ MapError("HeaderDecryptionFailed") = -6
      /\ MapError("CounterOverflow") = -7
      /\ MapError("ADTooLarge") = -8
      /\ MapError("InvalidState") = -9
      /\ MapError("TooManyMessages") = -10
  BY DEF MapError
<1> QED BY <1>1, <1>2

-----------------------------------------------------------------------------
(***************************************************************************)
(* A host that has called nothing yet.                                     *)
(***************************************************************************)
LEMMA InitOK == Init => IInv
<1> SUFFICES ASSUME Init PROVE IInv
  OBVIOUS
<1> USE DEF Init
<1>1. StructuresOK
  BY DEF StructuresOK, Buffer, FreshEnc, FreshDec, NoBuffer, DueFields
<1>2. DueFields = {} /\ Owed = {}
  BY DEF Owed, DueFields
<1> QED BY <1>1, <1>2 DEF IInv, FreesAreLegal, HandlesLead, NothingLeaks

(***************************************************************************)
(* Sessions: a new box, and one that is freed.                             *)
(***************************************************************************)
LEMMA BoxedKeeps ==
    ASSUME IInv, NEW s, Boxed(s)
    PROVE  IInv'
<1>1. PICK a \in Free : /\ heap' = With(heap, a, Box(s))
                        /\ handles' = With(handles, a, s)
                        /\ UNCHANGED <<strings, enc, dec, due, returned>>
  BY DEF Boxed
<1>2. Owed' = Owed /\ BufferOf' = BufferOf /\ DueFields' = DueFields
  BY <1>1 DEF Owed, BufferOf, DueFields
<1>3. StructuresOK'
  BY <1>1, <1>2 DEF IInv, StructuresOK
<1>4. a \notin DOMAIN heap
  BY DEF Free
<1>5. /\ DOMAIN heap' = DOMAIN heap \cup {a} /\ heap'[a] = Box(s)
      /\ \A b \in DOMAIN heap : heap'[b] = heap[b]
  <2> DEFINE new == With(heap, a, Box(s))
  <2>1. /\ DOMAIN new = DOMAIN heap \cup {a} /\ new[a] = Box(s)
        /\ \A b \in DOMAIN heap : b # a => new[b] = heap[b]
    BY DEF With
  <2> HIDE DEF new
  <2>2. heap' = new
    BY <1>1 DEF new
  <2> QED BY <1>4, <2>1, <2>2
<1>6. /\ DOMAIN handles' = DOMAIN handles \cup {a} /\ handles'[a] = s
      /\ \A b \in DOMAIN handles \ {a} : handles'[b] = handles[b]
  BY <1>1 DEF With
<1>7. FreesAreLegal'
  BY <1>2, <1>5 DEF IInv, FreesAreLegal
<1>8. HandlesLead'
  BY <1>1, <1>4, <1>5, <1>6 DEF IInv, HandlesLead
<1>9. NothingLeaks'
  BY <1>1, <1>2, <1>5, <1>6 DEF IInv, NothingLeaks
<1> QED BY <1>3, <1>7, <1>8, <1>9 DEF IInv

(***************************************************************************)
(* ratchet_free_ffi takes away the box of its handle and nothing else.     *)
(***************************************************************************)
LEMMA RatchetFreeKeeps ==
    ASSUME IInv, NEW h \in DOMAIN handles, RatchetFree(h)
    PROVE  IInv'
<1>1. Owed' = Owed /\ BufferOf' = BufferOf /\ DueFields' = DueFields
  BY DEF RatchetFree, Owed, BufferOf, DueFields
<1>2. StructuresOK'
  BY <1>1 DEF IInv, StructuresOK, RatchetFree
<1>3. /\ DOMAIN heap' = DOMAIN heap \ {h}
      /\ \A b \in DOMAIN heap \ {h} : heap'[b] = heap[b]
      /\ DOMAIN handles' = DOMAIN handles \ {h}
      /\ \A b \in DOMAIN handles \ {h} : handles'[b] = handles[b]
      /\ strings' = strings
  BY WithoutFacts DEF RatchetFree
<1>4. heap[h] = Box(handles[h])
  BY DEF IInv, HandlesLead
<1>5. \A f \in Owed : BufferOf[f].ptr # h
  BY <1>4, KindsDiffer DEF IInv, FreesAreLegal
<1>6. h \notin DOMAIN strings
  BY <1>4, KindsDiffer DEF IInv, HandlesLead
<1>7. FreesAreLegal'
  BY <1>1, <1>3, <1>5 DEF IInv, FreesAreLegal
<1>8. HandlesLead'
  BY <1>3, <1>6 DEF IInv, HandlesLead
<1>9. NothingLeaks'
  BY <1>1, <1>3, <1>5, <1>6 DEF IInv, NothingLeaks
<1> QED BY <1>2, <1>7, <1>8, <1>9 DEF IInv

(***************************************************************************)
(* Copies: a new string, and one that is freed.                            *)
(***************************************************************************)
LEMMA RatchetSerializeKeeps ==
    ASSUME IInv, NEW h \in DOMAIN handles, RatchetSerialize(h)
    PROVE  IInv'
<1>1. PICK a \in Free : /\ heap' = HeapWithString(h, a)
                        /\ strings' = With(strings, a, handles[h])
                        /\ UNCHANGED <<handles, enc, dec, due, returned>>
  BY DEF RatchetSerialize
<1>2. Owed' = Owed /\ BufferOf' = BufferOf /\ DueFields' = DueFields
  BY <1>1 DEF Owed, BufferOf, DueFields
<1>3. StructuresOK'
  BY <1>1, <1>2 DEF IInv, StructuresOK
<1>4. a \notin DOMAIN heap /\ heap[h].session = handles[h]
  <2>1. heap[h] = Box(handles[h])
    BY DEF IInv, HandlesLead
  <2>2. Box(handles[h]).session = handles[h]
    BY DEF Box
  <2> QED BY <2>1, <2>2 DEF Free
<1>5. /\ DOMAIN heap' = DOMAIN heap \cup {a} /\ heap'[a] = CString(handles[h])
      /\ \A b \in DOMAIN heap : heap'[b] = heap[b]
  <2> DEFINE new == With(heap, a, CString(handles[h]))
  <2>1. /\ DOMAIN new = DOMAIN heap \cup {a} /\ new[a] = CString(handles[h])
        /\ \A b \in DOMAIN heap : b # a => new[b] = heap[b]
    BY DEF With
  <2> HIDE DEF new
  <2>2. heap' = new
    BY <1>1, <1>4 DEF new, HeapWithString
  <2> QED BY <1>4, <2>1, <2>2
<1>6. /\ DOMAIN strings' = DOMAIN strings \cup {a} /\ strings'[a] = handles[h]
      /\ \A b \in DOMAIN strings \ {a} : strings'[b] = strings[b]
  BY <1>1 DEF With
<1>7. FreesAreLegal'
  BY <1>2, <1>5 DEF IInv, FreesAreLegal
<1>8. HandlesLead'
  BY <1>1, <1>4, <1>5, <1>6 DEF IInv, HandlesLead
<1>9. NothingLeaks'
  BY <1>1, <1>2, <1>5, <1>6 DEF IInv, NothingLeaks
<1> QED BY <1>3, <1>7, <1>8, <1>9 DEF IInv

(***************************************************************************)
(* ratchet_free_string takes away the string and nothing else.             *)
(***************************************************************************)
LEMMA RatchetFreeStringKeeps ==
    ASSUME IInv, NEW t \in DOMAIN strings, RatchetFreeString(t)
    PROVE  IInv'
<1>1. Owed' = Owed /\ BufferOf' = BufferOf /\ DueFields' = DueFields
  BY DEF RatchetFreeString, Owed, BufferOf, DueFields
<1>2. StructuresOK'
  BY <1>1 DEF IInv, StructuresOK, RatchetFreeString
<1>3. /\ DOMAIN heap' = DOMAIN heap \ {t}
      /\ \A b \in DOMAIN heap \ {t} : heap'[b] = heap[b]
      /\ DOMAIN strings' = DOMAIN strings \ {t}
      /\ \A b \in DOMAIN strings \ {t} : strings'[b] = strings[b]
      /\ handles' = handles
  BY WithoutFacts DEF RatchetFreeString
<1>4. heap[t] = CString(strings[t])
  BY DEF IInv, HandlesLead
<1>5. \A f \in Owed : BufferOf[f].ptr # t
  BY <1>4, KindsDiffer DEF IInv, FreesAreLegal
<1>6. t \notin DOMAIN handles
  BY <1>4, KindsDiffer DEF IInv, HandlesLead
<1>7. FreesAreLegal'
  BY <1>1, <1>3, <1>5 DEF IInv, FreesAreLegal
<1>8. HandlesLead'
  BY <1>3, <1>6 DEF IInv, HandlesLead
<1>9. NothingLeaks'
  BY <1>1, <1>3, <1>5, <1>6 DEF IInv, NothingLeaks
<1> QED BY <1>2, <1>7, <1>8, <1>9 DEF IInv

(***************************************************************************)
(* Calls that allocate nothing and free nothing: what is owed stays.       *)
(***************************************************************************)
LEMMA NothingMoves ==
    ASSUME IInv, StructuresOK', UNCHANGED <<heap, handles, strings>>,
           Owed' = Owed, \A f \in Owed : BufferOf'[f] = BufferOf[f]
    PROVE  IInv'
BY DEF IInv, FreesAreLegal, HandlesLead, NothingLeaks

(***************************************************************************)
(* An error of ratchet_encrypt_ffi nulls both buffers: nothing is owed for *)
(* them.                                                                   *)
(***************************************************************************)
LEMMA EncryptErrKeeps ==
    ASSUME IInv, NEW e \in EncryptErrors, EncryptErr(e)
    PROVE  IInv'
<1>1. /\ enc'.header = NoBuffer /\ enc'.ciphertext = NoBuffer
      /\ enc' \in [header : Buffer, ciphertext : Buffer, status : Int]
      /\ returned' \in [enc : Int, dec : Int]
  BY ErrorsAreNegative DEF EncryptErr, EncFailed, IInv, StructuresOK, NoBuffer, Buffer
<1>2. "enc" \notin due /\ due' = due \cup {"enc"} /\ dec' = dec
  BY DEF EncryptErr
<1>3. NoBuffer.ptr = Null /\ NoBuffer.len = 0
  BY DEF NoBuffer
<1>4. /\ DueFields' = DueFields \cup {"header", "ciphertext"}
      /\ DueFields = IF "dec" \in due THEN {"plaintext"} ELSE {}
  BY <1>2 DEF DueFields
<1>5. Owed' = Owed /\ \A f \in DueFields : BufferOf'[f] = BufferOf[f]
  BY <1>1, <1>2, <1>3, <1>4, BufferOfFields, BufferOfFieldsNext DEF Owed
<1>6. \A f \in DueFields' : (BufferOf'[f].ptr \in Addresses) = (BufferOf'[f].len # 0)
  BY <1>1, <1>3, <1>4, <1>5, BufferOfFieldsNext, PointerAssumption
     DEF IInv, StructuresOK
<1>7. StructuresOK'
  BY <1>1, <1>2, <1>6 DEF IInv, StructuresOK
<1> QED BY <1>5, <1>7, NothingMoves DEF EncryptErr, Owed

(***************************************************************************)
(* An error of ratchet_decrypt_ffi nulls the plaintext.                    *)
(***************************************************************************)
LEMMA DecryptErrKeeps ==
    ASSUME IInv, NEW e \in DecryptErrors, DecryptErr(e)
    PROVE  IInv'
<1>1. /\ dec'.plaintext = NoBuffer
      /\ dec' \in [plaintext : Buffer, status : Int]
      /\ returned' \in [enc : Int, dec : Int]
  BY ErrorsAreNegative DEF DecryptErr, DecFailed, IInv, StructuresOK, NoBuffer, Buffer
<1>2. "dec" \notin due /\ due' = due \cup {"dec"} /\ enc' = enc
  BY DEF DecryptErr
<1>3. NoBuffer.ptr = Null /\ NoBuffer.len = 0
  BY DEF NoBuffer
<1>4. /\ DueFields' = DueFields \cup {"plaintext"}
      /\ DueFields = IF "enc" \in due THEN {"header", "ciphertext"} ELSE {}
  BY <1>2 DEF DueFields
<1>5. Owed' = Owed /\ \A f \in DueFields : BufferOf'[f] = BufferOf[f]
  BY <1>1, <1>2, <1>3, <1>4, BufferOfFields, BufferOfFieldsNext DEF Owed
<1>6. \A f \in DueFields' : (BufferOf'[f].ptr \in Addresses) = (BufferOf'[f].len # 0)
  BY <1>1, <1>3, <1>4, <1>5, BufferOfFieldsNext, PointerAssumption
     DEF IInv, StructuresOK
<1>7. StructuresOK'
  BY <1>1, <1>2, <1>6 DEF IInv, StructuresOK
<1> QED BY <1>5, <1>7, NothingMoves DEF DecryptErr, Owed

(***************************************************************************)
(* encrypt allocates two buffers, the second one where the first is not.   *)
(***************************************************************************)
LEMMA EncryptOkKeeps ==
    ASSUME IInv, EncryptOk
    PROVE  IInv'
<1>1. PICK h \in Addresses, c \in Addresses :
          /\ FitsAt(heap, h, 1)
          /\ FitsAt(Placed(heap, h, 1), c, 1)
          /\ heap' = Placed(Placed(heap, h, 1), c, 1)
          /\ enc' = [header |-> [ptr |-> h, len |-> 1],
                     ciphertext |-> [ptr |-> c, len |-> 1], status |-> 0]
  BY DEF EncryptOk, ShrinkToFit
<1>2. /\ "enc" \notin due /\ due' = due \cup {"enc"}
      /\ returned' = [returned EXCEPT !.enc = 0]
      /\ UNCHANGED <<handles, strings, dec>>
  BY DEF EncryptOk
<1>3. /\ h \notin DOMAIN heap /\ c \notin DOMAIN heap /\ h # c
      /\ DOMAIN heap' = DOMAIN heap \cup {h, c}
      /\ heap'[h] = Bytes(1) /\ heap'[c] = Bytes(1)
      /\ \A b \in DOMAIN heap : heap'[b] = heap[b]
  BY <1>1 DEF FitsAt, Placed, With
<1>4. /\ enc'.header.ptr = h /\ enc'.header.len = 1
      /\ enc'.ciphertext.ptr = c /\ enc'.ciphertext.len = 1
      /\ enc' \in [header : Buffer, ciphertext : Buffer, status : Int]
  BY <1>1 DEF Buffer
<1>5. /\ DueFields' = DueFields \cup {"header", "ciphertext"}
      /\ DueFields = IF "dec" \in due THEN {"plaintext"} ELSE {}
  BY <1>2 DEF DueFields
<1>6. /\ Owed' = Owed \cup {"header", "ciphertext"}
      /\ Owed \subseteq {"plaintext"}
      /\ \A f \in DueFields : BufferOf'[f] = BufferOf[f]
  BY <1>2, <1>4, <1>5, BufferOfFields, BufferOfFieldsNext, PointerAssumption DEF Owed
<1>7. StructuresOK'
  <2>1. \A f \in DueFields' : (BufferOf'[f].ptr \in Addresses) = (BufferOf'[f].len # 0)
    BY <1>4, <1>5, <1>6, BufferOfFieldsNext DEF IInv, StructuresOK
  <2> QED BY <1>2, <1>4, <2>1 DEF IInv, StructuresOK
<1>8. FreesAreLegal'
  <2>1. \A f \in Owed : /\ BufferOf'[f] = BufferOf[f]
                        /\ BufferOf[f].ptr \in DOMAIN heap
                        /\ heap[BufferOf[f].ptr] = Bytes(BufferOf[f].len)
    BY <1>6 DEF IInv, FreesAreLegal, Owed
  <2>2. \A f \in Owed : BufferOf'[f].ptr # h /\ BufferOf'[f].ptr # c
    BY <1>3, <2>1
  <2>3. /\ BufferOf'["header"].ptr = h /\ BufferOf'["header"].len = 1
        /\ BufferOf'["ciphertext"].ptr = c /\ BufferOf'["ciphertext"].len = 1
    BY <1>4, BufferOfFieldsNext
  <2>4. \A f \in Owed' : /\ BufferOf'[f].ptr \in DOMAIN heap'
                         /\ heap'[BufferOf'[f].ptr] = Bytes(BufferOf'[f].len)
    BY <1>3, <1>6, <2>1, <2>3
  <2>5. \A f, g \in Owed : BufferOf'[f].ptr = BufferOf'[g].ptr => f = g
    BY <1>6
  <2>6. \A f, g \in Owed' : BufferOf'[f].ptr = BufferOf'[g].ptr => f = g
    BY <1>3, <1>6, <2>2, <2>3, <2>5
  <2> QED BY <2>4, <2>6 DEF FreesAreLegal
<1>9. HandlesLead'
  BY <1>2, <1>3 DEF IInv, HandlesLead
<1>10. NothingLeaks'
  <2>1. \A f \in Owed : BufferOf'[f] = BufferOf[f]
    BY <1>6 DEF Owed
  <2>2. {BufferOf'[f].ptr : f \in Owed'} = {BufferOf[f].ptr : f \in Owed} \cup {h, c}
    BY <1>4, <1>6, <2>1, BufferOfFieldsNext
  <2> QED BY <1>2, <1>3, <2>2 DEF IInv, NothingLeaks
<1> QED BY <1>7, <1>8, <1>9, <1>10 DEF IInv

(***************************************************************************)
(* decrypt allocates one buffer, none for an empty plaintext.              *)
(***************************************************************************)
LEMMA DecryptOkKeeps ==
    ASSUME IInv, DecryptOk
    PROVE  IInv'
<1>1. PICK length \in 0 .. MaxLength, p \in Addresses \cup {Dangling} :
          /\ FitsAt(heap, p, length)
          /\ heap' = Placed(heap, p, length)
          /\ dec' = [plaintext |-> [ptr |-> p, len |-> length], status |-> 0]
  BY DEF DecryptOk, ShrinkToFit
<1>2. /\ "dec" \notin due /\ due' = due \cup {"dec"}
      /\ returned' = [returned EXCEPT !.dec = 0]
      /\ UNCHANGED <<handles, strings, enc>>
  BY DEF DecryptOk
<1>3. /\ dec'.plaintext.ptr = p /\ dec'.plaintext.len = length /\ length \in Nat
      /\ dec' \in [plaintext : Buffer, status : Int]
  BY <1>1, LengthAssumption DEF Buffer
<1>4. /\ DueFields' = DueFields \cup {"plaintext"}
      /\ DueFields = IF "enc" \in due THEN {"header", "ciphertext"} ELSE {}
      /\ \A f \in DueFields : BufferOf'[f] = BufferOf[f]
  BY <1>2, BufferOfFields, BufferOfFieldsNext DEF DueFields
<1>5. (p \in Addresses) = (length # 0)
  BY <1>1, PointerAssumption DEF FitsAt
<1>6. StructuresOK'
  <2>1. \A f \in DueFields' : (BufferOf'[f].ptr \in Addresses) = (BufferOf'[f].len # 0)
    BY <1>3, <1>4, <1>5, BufferOfFieldsNext DEF IInv, StructuresOK
  <2> QED BY <1>2, <1>3, <2>1 DEF IInv, StructuresOK
<1>7. CASE length = 0
  <2>1. p = Dangling /\ heap' = heap
    BY <1>1, <1>7 DEF FitsAt, Placed
  <2>2. Owed' = Owed /\ \A f \in Owed : BufferOf'[f] = BufferOf[f]
    BY <1>3, <1>4, <2>1, BufferOfFieldsNext DEF Owed
  <2> QED BY <1>2, <1>6, <2>1, <2>2, NothingMoves
<1>8. CASE length # 0
  <2>1. /\ p \in Addresses /\ p \notin DOMAIN heap
        /\ DOMAIN heap' = DOMAIN heap \cup {p} /\ heap'[p] = Bytes(length)
        /\ \A b \in DOMAIN heap : heap'[b] = heap[b]
    BY <1>1, <1>8 DEF FitsAt, Placed, With
  <2>2. /\ Owed' = Owed \cup {"plaintext"}
        /\ Owed \subseteq {"header", "ciphertext"}
        /\ \A f \in Owed : BufferOf'[f] = BufferOf[f]
    BY <1>3, <1>4, <2>1, BufferOfFieldsNext, PointerAssumption DEF Owed
  <2>3. FreesAreLegal'
    <3>1. \A f \in Owed : /\ BufferOf[f].ptr \in DOMAIN heap
                          /\ heap[BufferOf[f].ptr] = Bytes(BufferOf[f].len)
      BY DEF IInv, FreesAreLegal
    <3>2. \A f, g \in Owed : BufferOf[f].ptr = BufferOf[g].ptr => f = g
      BY DEF IInv, FreesAreLegal
    <3> QED BY <1>3, <2>1, <2>2, <3>1, <3>2, BufferOfFieldsNext DEF FreesAreLegal
  <2>4. HandlesLead'
    BY <1>2, <2>1 DEF IInv, HandlesLead
  <2>5. NothingLeaks'
    <3>1. {BufferOf'[f].ptr : f \in Owed'} = {BufferOf[f].ptr : f \in Owed} \cup {p}
      BY <1>3, <2>2, BufferOfFieldsNext
    <3> QED BY <1>2, <2>1, <3>1 DEF IInv, NothingLeaks
  <2> QED BY <1>6, <2>3, <2>4, <2>5 DEF IInv
<1> QED BY <1>7, <1>8

(***************************************************************************)
(* The frees.  One of a buffer that is due takes away what is owed for it, *)
(* and nothing if there is no allocation.                                  *)
(***************************************************************************)
WithoutOwed(h, f, h2) ==
    /\ DOMAIN h2 = DOMAIN h \ (IF f \in Owed THEN {BufferOf[f].ptr} ELSE {})
    /\ \A b \in DOMAIN h2 : h2[b] = h[b]

LEMMA FreeBufferTakesOwed ==
    ASSUME IInv, NEW f \in DueFields, NEW h
    PROVE  WithoutOwed(h, f, FreeBuffer(h, BufferOf[f].ptr, BufferOf[f].len))
<1>1. BufferOf[f] \in Buffer
  BY BufferOfFields DEF IInv, StructuresOK, DueFields
<1>2. (BufferOf[f].ptr \in Addresses) = (BufferOf[f].len # 0)
  BY DEF IInv, StructuresOK
<1>3. (f \in Owed) = ~Skipped(BufferOf[f].ptr, BufferOf[f].len)
  BY <1>1, <1>2, PointerAssumption DEF Owed, Skipped, Buffer
<1>4. CASE f \in Owed
  BY <1>3, <1>4, WithoutFacts DEF FreeBuffer, WithoutOwed
<1>5. CASE f \notin Owed
  BY <1>3, <1>5 DEF FreeBuffer, WithoutOwed
<1> QED BY <1>4, <1>5

(***************************************************************************)
(* ratchet_free_result_buffers takes away what is owed for header and      *)
(* ciphertext.                                                             *)
(***************************************************************************)
LEMMA FreeResultBuffersKeeps ==
    ASSUME IInv, RatchetFreeResultBuffers
    PROVE  IInv'
<1>1. /\ "enc" \in due /\ due' = due \ {"enc"}
      /\ UNCHANGED <<handles, strings, enc, dec, returned>>
  BY DEF RatchetFreeResultBuffers
<1>2. /\ "header" \in DueFields /\ "ciphertext" \in DueFields
      /\ DueFields' = DueFields \ {"header", "ciphertext"}
      /\ DueFields \subseteq {"header", "ciphertext", "plaintext"}
      /\ BufferOf' = BufferOf
  BY <1>1 DEF DueFields, BufferOf
<1>3. Owed' = Owed \ {"header", "ciphertext"}
  BY <1>2 DEF Owed
<1> DEFINE gone == {BufferOf[f].ptr : f \in Owed \cap {"header", "ciphertext"}}
           between == FreeBuffer(heap, BufferOf["header"].ptr, BufferOf["header"].len)
<1>4. heap' = FreeBuffer(between, BufferOf["ciphertext"].ptr, BufferOf["ciphertext"].len)
  BY BufferOfFields DEF RatchetFreeResultBuffers
<1>5. /\ DOMAIN between = DOMAIN heap \
            (IF "header" \in Owed THEN {BufferOf["header"].ptr} ELSE {})
      /\ \A b \in DOMAIN between : between[b] = heap[b]
  <2>1. WithoutOwed(heap, "header", between)
    BY <1>2, FreeBufferTakesOwed
  <2> HIDE DEF between
  <2> QED BY <2>1 DEF WithoutOwed
<1> HIDE DEF between
<1>6. /\ DOMAIN heap' = DOMAIN between \
            (IF "ciphertext" \in Owed THEN {BufferOf["ciphertext"].ptr} ELSE {})
      /\ \A b \in DOMAIN heap' : heap'[b] = between[b]
  <2>1. WithoutOwed(between, "ciphertext", heap')
    BY <1>2, <1>4, FreeBufferTakesOwed
  <2> QED BY <2>1 DEF WithoutOwed
<1>7. DOMAIN heap' = DOMAIN heap \ gone /\ \A b \in DOMAIN heap' : heap'[b] = heap[b]
  BY <1>5, <1>6
<1>8. StructuresOK'
  BY <1>1, <1>2 DEF IInv, StructuresOK
<1>9. FreesAreLegal'
  <2>1. \A f \in Owed' : BufferOf[f].ptr \in DOMAIN heap'
    BY <1>3, <1>7 DEF IInv, FreesAreLegal
  <2> QED BY <1>2, <1>3, <1>7, <2>1 DEF IInv, FreesAreLegal
<1>10. /\ gone \cap DOMAIN handles = {} /\ gone \cap DOMAIN strings = {}
       /\ \A f \in Owed' : BufferOf[f].ptr \notin gone
  <2>1. \A f \in Owed : heap[BufferOf[f].ptr] = Bytes(BufferOf[f].len)
    BY DEF IInv, FreesAreLegal
  <2>2. \A h \in DOMAIN handles : heap[h] = Box(handles[h])
    BY DEF IInv, HandlesLead
  <2>3. \A t \in DOMAIN strings : heap[t] = CString(strings[t])
    BY DEF IInv, HandlesLead
  <2>4. \A f, g \in Owed : BufferOf[f].ptr = BufferOf[g].ptr => f = g
    BY DEF IInv, FreesAreLegal
  <2>5. gone \cap DOMAIN handles = {}
    BY <2>1, <2>2, KindsDiffer
  <2>6. gone \cap DOMAIN strings = {}
    BY <2>1, <2>3, KindsDiffer
  <2> QED BY <1>3, <2>4, <2>5, <2>6
<1>11. HandlesLead'
  BY <1>1, <1>7, <1>10 DEF IInv, HandlesLead
<1>12. NothingLeaks'
  <2>1. {BufferOf[f].ptr : f \in Owed'} = {BufferOf[f].ptr : f \in Owed} \ gone
    BY <1>3, <1>10
  <2>2. DOMAIN heap = DOMAIN handles \cup DOMAIN strings \cup {BufferOf[f].ptr : f \in Owed}
    BY DEF IInv, NothingLeaks
  <2> HIDE DEF gone
  <2>3. DOMAIN heap' = DOMAIN handles \cup DOMAIN strings \cup {BufferOf[f].ptr : f \in Owed'}
    BY <1>7, <1>10, <2>1, <2>2
  <2> QED BY <1>1, <1>2, <2>3 DEF NothingLeaks
<1> QED BY <1>8, <1>9, <1>11, <1>12 DEF IInv

(***************************************************************************)
(* ratchet_free_byte_buffer takes away what is owed for the plaintext.     *)
(***************************************************************************)
LEMMA FreeByteBufferKeeps ==
    ASSUME IInv, RatchetFreeByteBuffer
    PROVE  IInv'
<1>1. /\ "dec" \in due /\ due' = due \ {"dec"}
      /\ UNCHANGED <<handles, strings, enc, dec, returned>>
  BY DEF RatchetFreeByteBuffer
<1>2. /\ "plaintext" \in DueFields
      /\ DueFields' = DueFields \ {"plaintext"}
      /\ BufferOf' = BufferOf
  BY <1>1 DEF DueFields, BufferOf
<1>3. Owed' = Owed \ {"plaintext"}
  BY <1>2 DEF Owed
<1> DEFINE gone == {BufferOf[f].ptr : f \in Owed \cap {"plaintext"}}
<1>4. heap' = FreeBuffer(heap, BufferOf["plaintext"].ptr, BufferOf["plaintext"].len)
  BY BufferOfFields DEF RatchetFreeByteBuffer
<1>5. DOMAIN heap' = DOMAIN heap \ gone /\ \A b \in DOMAIN heap' : heap'[b] = heap[b]
  <2>1. gone = IF "plaintext" \in Owed THEN {BufferOf["plaintext"].ptr} ELSE {}
    OBVIOUS
  <2>2. /\ DOMAIN heap' = DOMAIN heap \
              (IF "plaintext" \in Owed THEN {BufferOf["plaintext"].ptr} ELSE {})
        /\ \A b \in DOMAIN heap \
              (IF "plaintext" \in Owed THEN {BufferOf["plaintext"].ptr} ELSE {}) :
                 heap'[b] = heap[b]
    <3>1. WithoutOwed(heap, "plaintext", heap')
      BY <1>2, <1>4, FreeBufferTakesOwed
    <3> QED BY <3>1 DEF WithoutOwed
  <2> QED BY <2>1, <2>2
<1>6. StructuresOK'
  BY <1>1, <1>2 DEF IInv, StructuresOK
<1>7. FreesAreLegal'
  <2>1. \A f, g \in Owed : BufferOf[f].ptr = BufferOf[g].ptr => f = g
    BY DEF IInv, FreesAreLegal
  <2>2. \A f \in Owed' : BufferOf[f].ptr \in DOMAIN heap'
    BY <1>3, <1>5, <2>1 DEF IInv, FreesAreLegal
  <2> QED BY <1>2, <1>3, <1>5, <2>2 DEF IInv, FreesAreLegal
<1>8. /\ gone \cap DOMAIN handles = {} /\ gone \cap DOMAIN strings = {}
      /\ \A f \in Owed' : BufferOf[f].ptr \notin gone
  <2>1. \A f \in Owed : heap[BufferOf[f].ptr] = Bytes(BufferOf[f].len)
    BY DEF IInv, FreesAreLegal
  <2>2. \A h \in DOMAIN handles : heap[h] = Box(handles[h])
    BY DEF IInv, HandlesLead
  <2>3. \A t \in DOMAIN strings : heap[t] = CString(strings[t])
    BY DEF IInv, HandlesLead
  <2>4. \A f, g \in Owed : BufferOf[f].ptr = BufferOf[g].ptr => f = g
    BY DEF IInv, FreesAreLegal
  <2>5. gone \cap DOMAIN handles = {}
    BY <2>1, <2>2, KindsDiffer
  <2>6. gone \cap DOMAIN strings = {}
    BY <2>1, <2>3, KindsDiffer
  <2> QED BY <1>3, <2>4, <2>5, <2>6
<1>9. HandlesLead'
  BY <1>1, <1>5, <1>8 DEF IInv, HandlesLead
<1>10. NothingLeaks'
  <2>1. {BufferOf[f].ptr : f \in Owed'} = {BufferOf[f].ptr : f \in Owed} \ gone
    BY <1>3, <1>8
  <2>2. DOMAIN heap = DOMAIN handles \cup DOMAIN strings \cup {BufferOf[f].ptr : f \in Owed}
    BY DEF IInv, NothingLeaks
  <2> HIDE DEF gone
  <2>3. DOMAIN heap' = DOMAIN handles \cup DOMAIN strings \cup {BufferOf[f].ptr : f \in Owed'}
    BY <1>5, <1>8, <2>1, <2>2
  <2> QED BY <1>1, <1>2, <2>3 DEF NothingLeaks
<1> QED BY <1>6, <1>7, <1>9, <1>10 DEF IInv

-----------------------------------------------------------------------------
(***************************************************************************)
(* All the calls together.                                                 *)
(***************************************************************************)
LEMMA NextKeeps == IInv /\ [Next]_vars => IInv'
<1> SUFFICES ASSUME IInv, [Next]_vars PROVE IInv'
  OBVIOUS
<1>1. ASSUME UNCHANGED <<heap, handles, strings, enc, dec, due>>,
             returned' \in [enc : Int, dec : Int]
      PROVE  IInv'
  <2>1. Owed' = Owed /\ BufferOf' = BufferOf /\ DueFields' = DueFields
    BY <1>1 DEF Owed, BufferOf, DueFields
  <2>2. StructuresOK'
    BY <1>1, <2>1 DEF IInv, StructuresOK
  <2> QED BY <1>1, <2>1, <2>2, NothingMoves
<1>2. returned \in [enc : Int, dec : Int]
  BY DEF IInv, StructuresOK
<1>3. CASE UNCHANGED vars
  BY <1>1, <1>2, <1>3 DEF vars
<1>4. ASSUME NEW s \in Sessions, NEW prefix \in {"right", "wrong"}, RatchetInit(s, prefix)
      PROVE  IInv'
  BY <1>3, <1>4, BoxedKeeps DEF RatchetInit
<1>5. ASSUME NEW t \in DOMAIN strings, NEW damaged \in BOOLEAN,
             RatchetDeserialize(t, damaged)
      PROVE  IInv'
  BY <1>3, <1>5, BoxedKeeps DEF RatchetDeserialize
<1>6. CASE EncryptNull
  BY <1>1, <1>2, <1>6 DEF EncryptNull
<1>7. ASSUME NEW code \in {-100, -101}, DecryptNull(code)
      PROVE  IInv'
  BY <1>1, <1>2, <1>7 DEF DecryptNull
<1> QED
  BY <1>3, <1>4, <1>5, <1>6, <1>7, RatchetFreeKeeps, RatchetSerializeKeeps,
     RatchetFreeStringKeeps, EncryptErrKeeps, EncryptOkKeeps, DecryptErrKeeps,
     DecryptOkKeeps, FreeResultBuffersKeeps, FreeByteBufferKeeps
  DEF Next

(***************************************************************************)
(* Every free is of a live allocation of that size, never twice.           *)
(***************************************************************************)
THEOREM FreesMatch == Spec => []FreesAreLegal
<1>1. IInv => FreesAreLegal
  BY DEF IInv
<1> QED BY InitOK, NextKeeps, <1>1, PTL DEF Spec

(***************************************************************************)
(* The addresses of sessions and strings stay valid until they are freed.  *)
(***************************************************************************)
THEOREM HandlesStayValid == Spec => []HandlesLead
<1>1. IInv => HandlesLead
  BY DEF IInv
<1> QED BY InitOK, NextKeeps, <1>1, PTL DEF Spec

(***************************************************************************)
(* What is allocated is in the host's hands.                               *)
(***************************************************************************)
THEOREM NoLeaks == Spec => []NothingLeaks
<1>1. IInv => NothingLeaks
  BY DEF IInv
<1> QED BY InitOK, NextKeeps, <1>1, PTL DEF Spec

(***************************************************************************)
(* Each call keeps the agreement of status, value returned and buffers.    *)
(***************************************************************************)
LEMMA StatusKeeps ==
    ASSUME StatusIsReturned, IInv, [Next]_vars
    PROVE  StatusIsReturned'
<1>1. ASSUME UNCHANGED <<enc, dec, returned>>, due' \subseteq due
      PROVE  StatusIsReturned'
  BY <1>1 DEF StatusIsReturned
<1>2. NoBuffer.ptr = Null
  BY DEF NoBuffer
<1>3. returned \in [enc : Int, dec : Int]
  BY DEF IInv, StructuresOK
<1>4. CASE EncryptNull
  <2>1. /\ "enc" \notin due' /\ due' = due
        /\ dec' = dec /\ returned'.dec = returned.dec
    BY <1>3, <1>4 DEF EncryptNull
  <2> QED BY <2>1 DEF StatusIsReturned
<1>5. ASSUME NEW e \in EncryptErrors, EncryptErr(e)
      PROVE  StatusIsReturned'
  <2>1. /\ enc'.header.ptr = Null /\ enc'.ciphertext.ptr = Null
        /\ enc'.status = MapError(e) /\ returned'.enc = MapError(e)
        /\ MapError(e) # 0
    BY <1>2, <1>3, <1>5, ErrorsAreNegative DEF EncryptErr, EncFailed, IInv, StructuresOK
  <2>2. dec' = dec /\ returned'.dec = returned.dec /\ due' = due \cup {"enc"}
    BY <1>3, <1>5 DEF EncryptErr
  <2> QED BY <2>1, <2>2 DEF StatusIsReturned
<1>6. CASE EncryptOk
  <2>1. /\ enc'.header.ptr \in Addresses /\ enc'.ciphertext.ptr \in Addresses
        /\ enc'.status = 0 /\ returned'.enc = 0
    BY <1>3, <1>6 DEF EncryptOk
  <2>2. dec' = dec /\ returned'.dec = returned.dec /\ due' = due \cup {"enc"}
    BY <1>3, <1>6 DEF EncryptOk
  <2> QED BY <2>1, <2>2, PointerAssumption DEF StatusIsReturned
<1>7. ASSUME NEW code \in {-100, -101}, DecryptNull(code)
      PROVE  StatusIsReturned'
  <2>1. /\ "dec" \notin due' /\ due' = due
        /\ enc' = enc /\ returned'.enc = returned.enc
    BY <1>3, <1>7 DEF DecryptNull
  <2> QED BY <2>1 DEF StatusIsReturned
<1>8. ASSUME NEW e \in DecryptErrors, DecryptErr(e)
      PROVE  StatusIsReturned'
  <2>1. /\ dec'.plaintext.ptr = Null
        /\ dec'.status = MapError(e) /\ returned'.dec = MapError(e)
        /\ MapError(e) # 0
    BY <1>2, <1>3, <1>8, ErrorsAreNegative DEF DecryptErr, DecFailed, IInv, StructuresOK
  <2>2. enc' = enc /\ returned'.enc = returned.enc /\ due' = due \cup {"dec"}
    BY <1>3, <1>8 DEF DecryptErr
  <2> QED BY <2>1, <2>2 DEF StatusIsReturned
<1>9. CASE DecryptOk
  <2>1. /\ dec'.plaintext.ptr \in Addresses \cup {Dangling}
        /\ dec'.status = 0 /\ returned'.dec = 0
    BY <1>3, <1>9 DEF DecryptOk
  <2>2. enc' = enc /\ returned'.enc = returned.enc /\ due' = due \cup {"dec"}
    BY <1>3, <1>9 DEF DecryptOk
  <2> QED BY <2>1, <2>2, PointerAssumption DEF StatusIsReturned
<1>10. CASE UNCHANGED vars
  BY <1>1, <1>10 DEF vars
<1>11. ASSUME NEW s, Boxed(s)
       PROVE  StatusIsReturned'
  BY <1>1, <1>11 DEF Boxed
<1>12. ASSUME NEW h, RatchetFree(h) \/ RatchetSerialize(h) \/ RatchetFreeString(h)
       PROVE  StatusIsReturned'
  BY <1>1, <1>12 DEF RatchetFree, RatchetSerialize, RatchetFreeString
<1>13. CASE RatchetFreeResultBuffers \/ RatchetFreeByteBuffer
  BY <1>1, <1>13 DEF RatchetFreeResultBuffers, RatchetFreeByteBuffer
<1> QED
  BY <1>4, <1>5, <1>6, <1>7, <1>8, <1>9, <1>10, <1>11, <1>12, <1>13
  DEF Next, RatchetInit, RatchetDeserialize

(***************************************************************************)
(* Status and return value agree, and tell whether there is a result.      *)
(***************************************************************************)
THEOREM StatusAgrees == Spec => []StatusIsReturned
<1>1. Init => StatusIsReturned
  BY DEF Init, StatusIsReturned
<1> QED BY InitOK, NextKeeps, StatusKeeps, <1>1, PTL DEF Spec

=============================================================================
