----------------------- MODULE ConstantPoolAccessProofs -----------------------
(****************************************************************************)
(* Theorems about ConstantPoolAccess, for every width of its words.         *)
(****************************************************************************)
EXTENDS ConstantPoolAccess, DivisionTheorems, TLAPS

(* Two operands come out of one entity as they went in.                     *)
LEMMA PackIsInvertible ==
    ASSUME NEW hi \in Nat, NEW lo \in 0 .. UInt16 - 1
    PROVE  Low(Pack(hi, lo)) = lo /\ High(Pack(hi, lo)) = hi
<1>1. UInt16 \in Nat \ {0}
    BY PoolAssumption
<1>2. QED
    BY <1>1, DivModUnique DEF Low, High, Pack

LEMMA WordType == Word \in Nat \ {0}
<1>1. UInt16 \in Nat /\ UInt16 >= 1
    BY PoolAssumption
<1>2. UInt16 * UInt16 \in Nat /\ UInt16 * UInt16 >= 1
    BY <1>1
<1>3. QED
    BY <1>2 DEF Word

LEMMA WordsType == \A w \in Words : w \in Nat /\ w \in 0 .. Word - 1
BY AccessAssumption, WordType

LEMMA SymbolsType == \A s \in Symbols : s \in Int
BY AccessAssumption

(* What the tag of an argument says of its operands.                        *)
LEMMA PutsByTag ==
    ASSUME NEW e \in Puts
    PROVE  /\ e.tag \in StoredTags
           /\ e.tag \in PairTags =>
                 /\ e.hi \in 0 .. UInt16 - 1 /\ e.lo \in 0 .. UInt16 - 1
                 /\ e.tag = "MethodHandle" => e.hi < UInt8
           /\ e.tag \in IndexLike => e.hi = 0 /\ e.lo \in 0 .. UInt16 - 1
           /\ e.tag \in {"Integer", "Float"} => e.hi = 0 /\ e.lo \in Words
           /\ e.tag \in WideTags => e.hi \in Words /\ e.lo \in Words
           /\ e.tag \in PointerTags => e.hi = 0 /\ e.lo \in Symbols
BY DEF Puts, PairTags, IndexLike, PointerTags, StoredTags, IndexTags,
       ResolvedTags, ReferenceTags, WideTags, NumericTags

LEMMA EntityType ==
    ASSUME NEW e \in Puts, NEW entity \in Entity(e)
    PROVE  entity \in Int
<1>1. CASE e.tag \in PairTags
  <2>1. e.hi \in Int /\ e.lo \in Int /\ UInt16 \in Int
      BY <1>1, PutsByTag, PoolAssumption
  <2>2. entity = e.hi * UInt16 + e.lo
      BY <1>1 DEF Entity, Pack, PairTags, WideTags, PointerTags, ReferenceTags,
                  ResolvedTags
  <2>3. QED
      BY <2>1, <2>2
<1>2. CASE e.tag \in WideTags
  <2>1. e.hi \in Int /\ e.lo \in Int /\ Word \in Int
      BY <1>2, PutsByTag, WordsType, WordType
  <2>2. entity = e.hi * Word + e.lo
      BY <1>2 DEF Entity, WideEntity, PairTags, WideTags, PointerTags,
                  ReferenceTags, ResolvedTags
  <2>3. QED
      BY <2>1, <2>2
<1>3. CASE e.tag = "Float"
  <2>1. e.lo \in Int /\ Word \in Int
      BY <1>3, PutsByTag, WordsType, WordType
  <2>2. \E w \in Words : entity = w * Word + e.lo
      BY <1>3 DEF Entity, FloatEntity, PairTags, WideTags, PointerTags,
                  ReferenceTags, ResolvedTags
  <2>3. QED
      BY <2>1, <2>2, WordsType
<1>4. CASE e.tag \in PointerTags
  <2>1. e.lo \in Int
      BY <1>4, PutsByTag, SymbolsType
  <2>2. entity = -e.lo
      BY <1>4 DEF Entity, Pointer, PairTags, WideTags, PointerTags,
                  ReferenceTags, ResolvedTags
  <2>3. QED
      BY <2>1, <2>2
<1>5. CASE e.tag \in IndexLike \cup {"Integer"}
  <2>1. e.lo \in Int
      BY <1>5, PutsByTag, WordsType, PoolAssumption
  <2>2. entity = e.lo
      BY <1>5 DEF Entity, PairTags, WideTags, PointerTags, IndexLike, IndexTags,
                  ReferenceTags, ResolvedTags
  <2>3. QED
      BY <2>1, <2>2
<1>6. QED
    BY <1>1, <1>2, <1>3, <1>4, <1>5
    DEF Puts, PairTags, IndexLike, PointerTags

------------------------------------------------------------------------------
(* The inductive invariant: a slot that was written has the tag and one of  *)
(* the entities of its last put.                                            *)

StoredInv ==
    \A n \in written :
        /\ put[n] \in Puts
        /\ tags[n] = put[n].tag
        /\ entities[n] \in Entity(put[n])

AccessInv == TypeOK /\ StoredInv

LEMMA AccessInit == Init => AccessInv
<1> SUFFICES ASSUME Init PROVE AccessInv
    OBVIOUS
<1>1. tags \in [Slots -> ConstantType] /\ entities \in [Slots -> Int]
    BY PoolAssumption DEF Init, Wild, Pointer
<1>2. QED
    BY <1>1, PoolAssumption DEF Init, AccessInv, TypeOK, StoredInv

LEMMA PutKeepsInv ==
    ASSUME AccessInv, NEW n \in 0 .. UInt16 - 1, NEW e \in Puts, Put(n, e)
    PROVE  AccessInv'
<1>1. n \in Slots
    BY AccessAssumption, PoolAssumption
    DEF Put, Slots, isValidIndex, AccessInv, TypeOK
<1>2. PICK entity \in Entity(e) : putAt(n, e.tag, entity)
    BY DEF Put
<1>3. entity \in Int /\ e.tag \in ConstantType
    BY EntityType, PutsByTag DEF ConstantType
<1>4. /\ size' = size /\ Slots' = Slots
      /\ tags' = [tags EXCEPT ![n] = e.tag]
      /\ entities' = [entities EXCEPT ![n] = entity]
      /\ written' = written \cup {n}
      /\ put' = [put EXCEPT ![n] = e]
      /\ status' = status
    BY <1>2 DEF Put, putAt, Slots
<1>5. TypeOK'
    BY <1>1, <1>3, <1>4 DEF AccessInv, TypeOK
<1>6. StoredInv'
  <2> SUFFICES ASSUME NEW k \in written'
               PROVE  /\ put'[k] \in Puts
                      /\ tags'[k] = put'[k].tag
                      /\ entities'[k] \in Entity(put'[k])
      BY DEF StoredInv, Entity
  <2>1. CASE k = n
      BY <1>1, <1>2, <1>4, <2>1 DEF AccessInv, TypeOK
  <2>2. CASE k # n
      BY <1>1, <1>4, <2>2 DEF AccessInv, TypeOK, StoredInv
  <2>3. QED
      BY <2>1, <2>2
<1>7. QED
    BY <1>5, <1>6 DEF AccessInv

LEMMA AccessStep == AccessInv /\ [Next]_vars => AccessInv'
<1> SUFFICES ASSUME AccessInv, [Next]_vars PROVE AccessInv'
    OBVIOUS
<1>1. ASSUME NEW n \in 0 .. UInt16 - 1, PutOutside(n) \/ PutAsserts(n)
      PROVE  AccessInv'
  <2>1. UNCHANGED <<poolVars, put>>
      BY <1>1 DEF PutOutside, PutAsserts
  <2>2. TypeOK' /\ StoredInv'
      BY <1>1, <2>1
      DEF AccessInv, TypeOK, StoredInv, PutOutside, PutAsserts, poolVars, Slots
  <2>3. QED
      BY <2>2 DEF AccessInv
<1>2. CASE UNCHANGED vars
    BY <1>2 DEF AccessInv, TypeOK, StoredInv, vars, poolVars, Slots
<1>3. QED
    BY <1>1, <1>2, PutKeepsInv DEF Next, Done

LEMMA AccessInvariant == Spec => []AccessInv
BY AccessInit, AccessStep, PTL DEF Spec

(* The pool keeps the shape its size asks for, whatever is put where.       *)
THEOREM AccessTypeCorrect == Spec => []TypeOK
<1>1. AccessInv => TypeOK
    BY DEF AccessInv
<1>2. QED
    BY <1>1, AccessInvariant, PTL

------------------------------------------------------------------------------
(* What the getters return.                                                 *)

(* Entries with two operands.                                               *)
LEMMA GetsPairs ==
    ASSUME NEW n, NEW e \in Puts, e.tag \in PairTags, entities[n] \in Entity(e)
    PROVE  /\ Low(entities[n]) = e.lo
           /\ High(entities[n]) % UInt16 = e.hi
           /\ e.tag = "MethodHandle" => High(entities[n]) % UInt8 = e.hi
<1>1. /\ e.hi \in 0 .. UInt16 - 1 /\ e.lo \in 0 .. UInt16 - 1
      /\ e.tag = "MethodHandle" => e.hi \in 0 .. UInt8 - 1
    BY PutsByTag, PoolAssumption DEF UInt8
<1>2. entities[n] = Pack(e.hi, e.lo)
    BY DEF Entity, PairTags, WideTags, PointerTags, ReferenceTags, ResolvedTags
<1>3. Low(entities[n]) = e.lo /\ High(entities[n]) = e.hi
    BY <1>1, <1>2, PackIsInvertible, PoolAssumption
<1>4. UInt16 \in Nat \ {0} /\ UInt8 \in Nat \ {0}
    BY PoolAssumption DEF UInt8
<1>5. QED
    BY <1>1, <1>3, <1>4, ModBelow

(* Entries with one operand, and 64-bit numbers.                            *)
LEMMA GetsSingles ==
    ASSUME NEW n, NEW e \in Puts, entities[n] \in Entity(e)
    PROVE  /\ e.tag \in IndexLike => Low(entities[n]) = e.lo /\ e.hi = 0
           /\ e.tag \in {"Integer", "Float"} =>
                 entities[n] % Word = e.lo /\ e.hi = 0
           /\ e.tag \in WideTags =>
                 entities[n] % Word = e.lo /\ entities[n] \div Word = e.hi
           /\ e.tag \in PointerTags => -entities[n] = e.lo /\ e.hi = 0
<1> USE DEF Entity, FloatEntity, WideEntity, PairTags, WideTags, PointerTags,
            IndexLike, IndexTags, ReferenceTags, ResolvedTags
<1>1. ASSUME e.tag \in IndexLike
      PROVE  Low(entities[n]) = e.lo /\ e.hi = 0
  <2>1. entities[n] = e.lo
      BY <1>1
  <2>2. e.hi = 0 /\ e.lo \in 0 .. UInt16 - 1
      BY <1>1, PutsByTag
  <2>3. QED
      BY <2>1, <2>2, ModBelow, PoolAssumption DEF Low
<1>2. ASSUME e.tag = "Integer"
      PROVE  entities[n] % Word = e.lo /\ e.hi = 0
  <2>1. entities[n] = e.lo
      BY <1>2
  <2>2. e.hi = 0 /\ e.lo \in 0 .. Word - 1
      BY <1>2, PutsByTag, WordsType
  <2>3. QED
      BY <2>1, <2>2, ModBelow, WordType
<1>3. ASSUME e.tag = "Float"
      PROVE  entities[n] % Word = e.lo /\ e.hi = 0
  <2>1. PICK w \in Words : entities[n] = w * Word + e.lo
      BY <1>3
  <2>2. e.hi = 0 /\ e.lo \in 0 .. Word - 1 /\ w \in Int
      BY <1>3, PutsByTag, WordsType
  <2>3. QED
      BY <2>1, <2>2, DivModUnique, WordType
<1>4. ASSUME e.tag \in WideTags
      PROVE  entities[n] % Word = e.lo /\ entities[n] \div Word = e.hi
  <2>1. entities[n] = e.hi * Word + e.lo
      BY <1>4
  <2>2. e.hi \in Int /\ e.lo \in 0 .. Word - 1
      BY <1>4, PutsByTag, WordsType
  <2>3. QED
      BY <2>1, <2>2, DivModUnique, WordType
<1>5. ASSUME e.tag \in PointerTags
      PROVE  -entities[n] = e.lo /\ e.hi = 0
  <2>1. entities[n] = -e.lo
      BY <1>5 DEF Pointer
  <2>2. e.hi = 0 /\ e.lo \in Int
      BY <1>5, PutsByTag, SymbolsType
  <2>3. QED
      BY <2>1, <2>2
<1>6. QED
    BY <1>1, <1>2, <1>3, <1>4, <1>5

(* Every getter gives back what was put, at every width of the words and    *)
(* whatever was put into the slot before.                                   *)
THEOREM GettersAreRight == Spec => []GetsWhatWasPut
<1>1. AccessInv => GetsWhatWasPut
  <2> SUFFICES ASSUME AccessInv, NEW n \in written
               PROVE  LET Gets(accepted, lo, hi) ==
                              tags[n] \in accepted =>
                                  /\ put[n].tag = tags[n]
                                  /\ put[n].lo = lo /\ put[n].hi = hi
                      IN  /\ Gets(ReferenceTags, getRefClassIndexAt(n),
                                  getRefNameAndTypeIndexAt(n))
                          /\ Gets({"NameAndType"},
                                  getNameAndTypeDescriptorIndexAt(n),
                                  getNameAndTypeNameIndexAt(n))
                          /\ Gets({"MethodHandle"},
                                  getMethodHandleReferenceIndexAt(n),
                                  getMethodHandleReferenceKindAt(n))
                          /\ Gets({"InvokeDynamic"},
                                  getInvokeDynamicNameAndTypeIndexAt(n),
                                  getInvokeDynamicBootstrapMethodAttrIndexAt(n))
                          /\ Gets(IndexLike, getIndexAt(n), 0)
                          /\ Gets({"Integer"}, getIntegerAt(n), 0)
                          /\ Gets({"Float"}, getFloatAt(n), 0)
                          /\ Gets(WideTags, getWideAt(n) % Word,
                                  getWideAt(n) \div Word)
                          /\ Gets({"Utf8"}, -getSymbolAt(n), 0)
                          /\ Gets(isClassOrUnresolvedClass, -getClassAt(n), 0)
      BY DEF GetsWhatWasPut
  <2> DEFINE e == put[n]
  <2>1. e \in Puts /\ tags[n] = e.tag /\ entities[n] \in Entity(e)
      BY DEF AccessInv, StoredInv
  <2> HIDE DEF e
  <2>2. e.tag \in PairTags =>
            /\ Low(entities[n]) = e.lo
            /\ High(entities[n]) % UInt16 = e.hi
            /\ e.tag = "MethodHandle" => High(entities[n]) % UInt8 = e.hi
      BY <2>1, GetsPairs
  <2>3. /\ e.tag \in IndexLike => Low(entities[n]) = e.lo /\ e.hi = 0
        /\ e.tag \in {"Integer", "Float"} =>
              entities[n] % Word = e.lo /\ e.hi = 0
        /\ e.tag \in WideTags =>
              entities[n] % Word = e.lo /\ entities[n] \div Word = e.hi
        /\ e.tag \in PointerTags => -entities[n] = e.lo /\ e.hi = 0
      BY <2>1, GetsSingles
  <2>4. tags[n] # "Class"
      BY <2>1, PutsByTag
      DEF StoredTags, IndexTags, ResolvedTags, ReferenceTags, NumericTags,
          WideTags
  <2>5. tags[n] \in {"Utf8", "UnresolvedClass"} =>
            -entities[n] = e.lo /\ e.hi = 0
      BY <2>1, <2>3 DEF PointerTags, ResolvedTags
  <2>6. QED
      BY <2>1, <2>2, <2>3, <2>4, <2>5
      DEF e, PairTags, getRefClassIndexAt, getRefNameAndTypeIndexAt,
          getNameAndTypeDescriptorIndexAt, getNameAndTypeNameIndexAt,
          getMethodHandleReferenceIndexAt, getMethodHandleReferenceKindAt,
          getInvokeDynamicNameAndTypeIndexAt,
          getInvokeDynamicBootstrapMethodAttrIndexAt, getIndexAt, getIntegerAt,
          getFloatAt, getWideAt, getSymbolAt, getClassAt,
          isClassOrUnresolvedClass
<1>2. QED
    BY <1>1, AccessInvariant, PTL
==============================================================================
