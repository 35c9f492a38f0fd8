--------------------------- MODULE ClassFileReader ---------------------------
(****************************************************************************)
(* The cursor of src/src/classfile/ClassFileReader.hpp over the bytes of    *)
(* one class file: `ptr' is the next byte to read and `end' one past the    *)
(* last, both as offsets from the first byte (`bytes').  The bytes are not  *)
(* kept: every byte is read at most once, so a client chooses the value of  *)
(* a read when it reads.                                                    *)
(*                                                                          *)
(* remaining() is computed as the C++ computes it, a difference converted   *)
(* to uint32_t: once the cursor has passed the end it is a huge number, not *)
(* a negative one, and every later ensure() succeeds.                       *)
(****************************************************************************)
EXTENDS Integers

CONSTANT UInt32    \* The modulus of uint32_t: 2^32, less when TLC checks.

ASSUME UInt32Assumption == UInt32 \in Nat \ {0}

VARIABLES ptr, end

readerVars == <<ptr, end>>

(* The operators take the position p of the cursor instead of reading ptr,  *)
(* because a parser step that reads a tag and then its operands evaluates   *)
(* remaining() after it has moved.                                          *)
remaining(p) == (end - p) % UInt32

(* ensure() throws ClassFormatError where this is FALSE.                    *)
ensure(p, least) == remaining(p) >= least

(* ClassFileReader(bytes, len).                                             *)
OpenReader(len) ==
    /\ ptr = 0
    /\ end = len

(* The reads and skips that the caller has covered by an ensure(), or has   *)
(* not: readU8Unchecked, readU16Unchecked, ..., skipUnchecked.              *)
Advance(n) ==
    /\ ptr' = ptr + n
    /\ UNCHANGED end

==============================================================================
