---------------------------- MODULE ConstantPool ----------------------------
(****************************************************************************)
(* The run-time constant pool of src/src/ConstantPool.{hpp,cpp}: `size'     *)
(* slots, each a tag and an entity, an intptr_t whose meaning the tag tells *)
(* (a tagged union nothing but the accessors' assertions protects).         *)
(*                                                                          *)
(* - Slot 0 is allocated and never stored to or loaded from, because        *)
(*   isValidIndex(0) is false: the model keeps slots 1 .. size - 1.         *)
(* - The arrays come from new[] without an initializer, so until a slot is  *)
(*   written its tag is whatever the memory held: a member of Garbage.      *)
(* - An entity is an integer.  Two 16-bit operands are packed as            *)
(*   hi * UInt16 + lo, the shift by 16 of the code.  A pointer to a boxed   *)
(*   SymbolPtr is negative: Pointer(n) for the Symbol made for Utf8 slot n, *)
(*   Wild for the entity of memory nobody has written.                      *)
(****************************************************************************)
EXTENDS Integers, ConstantTags

CONSTANTS
    UInt16,     \* The modulus of uint16_t: 2^16, less when TLC checks.
    Garbage     \* Tags that uninitialized memory may hold.

ASSUME PoolAssumption ==
    /\ UInt16 \in Nat /\ UInt16 > 1
    /\ Garbage \subseteq ConstantType

Pointer(n) == -n
Wild == Pointer(UInt16)

VARIABLES
    size, tags, entities,
    written     \* History: the slots a put operation has stored to.

poolVars == <<size, tags, entities, written>>

Slots == 1 .. size - 1

------------------------------------------------------------------------------
(* Mutants of isValidIndex: slot 0 admitted; the last slot not.             *)
isValidIndex_Zero(n) == n <= size
isValidIndex_NotLast(n) == n > 0 /\ n < size - 1

(* The bound of the accessors' assertions.  It admits index = size, one     *)
(* slot more than the arrays have.                                          *)
isValidIndex(n) == n > 0 /\ n <= size

(* ConstantPool(size).                                                      *)
Allocate(n) ==
    /\ size' = n
    /\ tags' \in [1 .. n - 1 -> Garbage]
    /\ entities' = [k \in 1 .. n - 1 |-> Wild]
    /\ written' = {}

(* Every put operation: store the tag, then the entity.                     *)
putAt(n, tag, entity) ==
    /\ tags' = [tags EXCEPT ![n] = tag]
    /\ entities' = [entities EXCEPT ![n] = entity]
    /\ written' = written \cup {n}
    /\ UNCHANGED size

------------------------------------------------------------------------------
(* Two operands in one entity, as the put operations pack them and the      *)
(* getters, which return a uint16_t or a uint8_t, take them out again.      *)
UInt8 == 256

Pack(hi, lo) == hi * UInt16 + lo
High(entity) == entity \div UInt16
Low(entity)  == entity % UInt16

(* Mutant of getNameAndTypeDescriptorIndexAt: the shift of its neighbour.   *)
getNameAndTypeDescriptorIndexAt_Name(n) == High(entities[n]) % UInt16

getRefClassIndexAt(n)                 == Low(entities[n])
getRefNameAndTypeIndexAt(n)           == High(entities[n]) % UInt16
getNameAndTypeNameIndexAt(n)          == High(entities[n]) % UInt16
getNameAndTypeDescriptorIndexAt(n)    == Low(entities[n])
getMethodHandleReferenceKindAt(n)     == High(entities[n]) % UInt8
getMethodHandleReferenceIndexAt(n)    == Low(entities[n])
getInvokeDynamicNameAndTypeIndexAt(n) == Low(entities[n])
getInvokeDynamicBootstrapMethodAttrIndexAt(n) == High(entities[n]) % UInt16

(* getClassIndexAt, getStringIndexAt, getMethodTypeDescriptorIndex: the     *)
(* whole entity is one uint16_t.                                            *)
getIndexAt(n) == Low(entities[n])

==============================================================================
