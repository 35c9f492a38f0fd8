------------------------- MODULE ConstantPoolAccess -------------------------
(****************************************************************************)
(* The whole interface of src/src/ConstantPool.cpp, for a client that puts  *)
(* any entry at any index, over entries it has put before, as the tests in  *)
(* src/tests/src/classfile/ConstantPool.cpp do on one slot.  One thread has *)
(* the pool.  The getters change nothing: the invariants evaluate them.     *)
(*                                                                          *)
(* A symbol is its number.  A 32-bit value is a number below Word, a 64-bit *)
(* value one below Word * Word, both as bits: signs are an interpretation.  *)
(* (putTagAt, public and called by put operations only, is part of them.)   *)
(****************************************************************************)
EXTENDS ConstantPool

CONSTANTS
    Sizes,      \* Sizes of pools.
    Words,      \* 32-bit values, and upper halves of 64-bit values.
    Symbols     \* Numbers of symbols.

Word == UInt16 * UInt16

ASSUME AccessAssumption ==
    /\ Sizes \subseteq 0 .. UInt16 - 1
    /\ Words \subseteq 0 .. Word - 1
    /\ Symbols \subseteq Nat \ {0}

VARIABLES
    status,     \* "running", "asserted", or "outside" the arrays.
    put         \* History: what was put last in each slot.

vars == <<poolVars, status, put>>

Entry(tag, hi, lo) == [tag |-> tag, hi |-> hi, lo |-> lo]

PairTags == ReferenceTags \cup {"NameAndType", "InvokeDynamic", "MethodHandle"}
IndexLike == IndexTags \cup {"MethodType"}
PointerTags == ResolvedTags \cup {"Utf8"}

Nothing == Entry("None", 0, 0)

(* The arguments of the put operations.                                     *)
Puts ==
    {e \in [tag : PairTags, hi : 0 .. UInt16 - 1, lo : 0 .. UInt16 - 1] :
        e.tag = "MethodHandle" => e.hi < UInt8} \cup
    [tag : IndexLike, hi : {0}, lo : 0 .. UInt16 - 1] \cup
    [tag : {"Integer", "Float"}, hi : {0}, lo : Words] \cup
    [tag : WideTags, hi : Words, lo : Words] \cup
    [tag : PointerTags, hi : {0}, lo : Symbols]

Init ==
    /\ size \in Sizes
    /\ tags \in [Slots -> Garbage]
    /\ entities = [n \in Slots |-> Wild]
    /\ written = {}
    /\ status = "running"
    /\ put = [n \in Slots |-> Nothing]

(* putFloatAt takes the four bytes after its parameter with it: anything.   *)
FloatEntity(e) == {w * Word + e.lo : w \in Words}

(* What putLongAt and putDoubleAt store.                                    *)
WideEntity(e) == e.hi * Word + e.lo

(* The words that a put operation may store.                                *)
Entity(e) ==
    CASE e.tag \in PairTags    -> {Pack(e.hi, e.lo)}
      [] e.tag \in WideTags    -> {WideEntity(e)}
      [] e.tag = "Float"       -> FloatEntity(e)
      [] e.tag \in PointerTags -> {Pointer(e.lo)}
      [] OTHER                 -> {e.lo}

Put(n, e) ==
    /\ status = "running"
    /\ isValidIndex(n)
    /\ n < size
    /\ \E entity \in Entity(e) : putAt(n, e.tag, entity)
    /\ put' = [put EXCEPT ![n] = e]
    /\ UNCHANGED status

(* putTagAt's assertion passes, and the stores go past the arrays.          *)
PutOutside(n) ==
    /\ status = "running"
    /\ isValidIndex(n)
    /\ n >= size
    /\ status' = "outside"
    /\ UNCHANGED <<poolVars, put>>

PutAsserts(n) ==
    /\ status = "running"
    /\ ~isValidIndex(n)
    /\ status' = "asserted"
    /\ UNCHANGED <<poolVars, put>>

Done == status # "running" /\ UNCHANGED vars

Next ==
    \/ \E n \in 0 .. UInt16 - 1 :
          \/ \E e \in Puts : Put(n, e)
          \/ PutOutside(n)
          \/ PutAsserts(n)
    \/ Done

Spec == Init /\ [][Next]_vars

------------------------------------------------------------------------------
(* The getters that the parser does not need.                               *)

(* getIntegerAt converts the entity to 32 bits.                             *)
getIntegerAt(n) == entities[n] % Word

(* getFloatAt reads the first four bytes of the entity, the low ones.       *)
getFloatAt(n) == entities[n] % Word

(* getLongAt, getDoubleAt.                                                  *)
getWideAt(n) == entities[n]

(* A pointer to a SymbolPtr.                                                *)
getSymbolAt(n) == entities[n]

(* The same, through one pointer more.  String slots have no getter.        *)
getClassAt(n) == entities[n]

------------------------------------------------------------------------------
(* Properties.                                                              *)

(* The type invariant.                                                      *)
TypeOK ==
    /\ size \in Sizes
    /\ tags \in [Slots -> ConstantType]
    /\ entities \in [Slots -> Int]
    /\ written \subseteq Slots
    /\ status \in {"running", "asserted", "outside"}
    /\ put \in [Slots -> Puts \cup {Nothing}]

(* Whatever a slot held before, each getter whose assertion on the tag      *)
(* passes returns what the last put stored: operands packed in one word     *)
(* do not spill into each other at the ends of their ranges, and the bytes  *)
(* that putFloatAt reads beyond its parameter never come back.              *)
GetsWhatWasPut ==
    \A n \in written :
        LET Gets(accepted, lo, hi) ==
                tags[n] \in accepted =>
                    put[n].tag = tags[n] /\ put[n].lo = lo /\ put[n].hi = hi
        IN  /\ Gets(ReferenceTags, getRefClassIndexAt(n),
                    getRefNameAndTypeIndexAt(n))
            /\ Gets({"NameAndType"}, getNameAndTypeDescriptorIndexAt(n),
                    getNameAndTypeNameIndexAt(n))
            /\ Gets({"MethodHandle"}, getMethodHandleReferenceIndexAt(n),
                    getMethodHandleReferenceKindAt(n))
            /\ Gets({"InvokeDynamic"}, getInvokeDynamicNameAndTypeIndexAt(n),
                    getInvokeDynamicBootstrapMethodAttrIndexAt(n))
            /\ Gets(IndexLike, getIndexAt(n), 0)
            /\ Gets({"Integer"}, getIntegerAt(n), 0)
            /\ Gets({"Float"}, getFloatAt(n), 0)
            /\ Gets(WideTags, getWideAt(n) % Word, getWideAt(n) \div Word)
            /\ Gets({"Utf8"}, -getSymbolAt(n), 0)
            /\ Gets(isClassOrUnresolvedClass, -getClassAt(n), 0)
==============================================================================
