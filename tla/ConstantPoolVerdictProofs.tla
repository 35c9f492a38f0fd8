---------------------- MODULE ConstantPoolVerdictProofs ----------------------
(****************************************************************************)
(* What the constant pool holds, and that the second pass judges it right:  *)
(* theorems about ConstantPoolParser, for every value of its constants.     *)
(****************************************************************************)
EXTENDS ConstantPoolParserProofs

USE DEF UInt8

PairTags == ReferenceTags \cup {"NameAndType", "InvokeDynamic"}

(* The kind of a method handle is a byte.                                   *)
HandleInv ==
    \A n \in written :
        tags[n] = "MethodHandle" => entities[n] \in 0 .. UInt8 * UInt16 - 1

(* What nobody has written is wild.                                         *)
WildInv == \A n \in Slots \ written : entities[n] = Wild

EntityInv == EntityMatchesTag /\ HandleInv /\ WildInv

(* An entry that the second pass has left behind names what it should,      *)
(* however the entries that it names are rewritten afterwards, or a slot    *)
(* that nobody wrote and whose garbage decided.                             *)
Decided(r) == r.to \in Slots \ written /\ tags[r.to] # "None"

SoundReferences(n) == \A r \in References(n) : Satisfied(r) \/ Decided(r)

CheckedInv ==
    phase \in {"resolve", "resolved"} =>
        \A n \in written :
            (phase = "resolve" => n <= i) /\ tags[n] \in CheckedTags =>
                SoundReferences(n)

------------------------------------------------------------------------------
(* Entities.                                                                *)

LEMMA Widths == UInt16 \in Nat \ {0} /\ UInt8 \in Nat \ {0}
BY PoolAssumption

(* What the first pass stores agrees with the tag it stores.                *)
LEMMA StoredEntityMatches ==
    ASSUME NEW e, IsEntry(e), e.kind # "Unknown", NEW n \in Int
    PROVE  /\ StoredTag(e.kind) \in PairTags =>
                 StoredEntity(n, e) \in 0 .. UInt16 * UInt16 - 1
           /\ StoredTag(e.kind) = "MethodHandle" =>
                 StoredEntity(n, e) \in 0 .. UInt8 * UInt16 - 1
           /\ StoredTag(e.kind) \in IndexTags \cup {"MethodType"} =>
                 StoredEntity(n, e) \in 0 .. UInt16 - 1
           /\ StoredTag(e.kind) = "Utf8" =>
                 e.kind = "Utf8" /\ StoredEntity(n, e) = Pointer(n)
           /\ StoredTag(e.kind) \notin ResolvedTags
<1>1. /\ e.a \in 0 .. UInt16 - 1 \/ e.kind = "MethodHandle"
      /\ e.kind = "MethodHandle" => e.a \in 0 .. UInt8 - 1
      /\ e.b \in 0 .. UInt16 - 1
    BY DEF IsEntry
<1>2. CASE e.kind \in ReferenceTags
  <2>1. StoredEntity(n, e) = e.b * UInt16 + e.a
      BY <1>2 DEF StoredEntity, Pack, ReferenceTags
  <2>2. StoredEntity(n, e) \in 0 .. UInt16 * UInt16 - 1
      BY <1>1, <1>2, <2>1, Widths, PackBelow DEF ReferenceTags
  <2>3. QED
      BY <1>2, <2>2
      DEF StoredTag, ReferenceTags, IndexTags, ResolvedTags
<1>3. CASE e.kind \in {"NameAndType", "InvokeDynamic"}
  <2>1. StoredEntity(n, e) = e.a * UInt16 + e.b
      BY <1>3 DEF StoredEntity, Pack, ReferenceTags
  <2>2. e.a \in 0 .. UInt16 - 1 /\ e.b \in 0 .. UInt16 - 1
      BY <1>1, <1>3
  <2>3. StoredEntity(n, e) \in 0 .. UInt16 * UInt16 - 1
      BY <2>1, <2>2, Widths, PackBelow
  <2>4. QED
      BY <1>3, <2>3 DEF StoredTag, IndexTags, ResolvedTags
<1>4. CASE e.kind = "MethodHandle"
  <2>1. StoredEntity(n, e) = e.a * UInt16 + e.b
      BY <1>4 DEF StoredEntity, Pack, ReferenceTags
  <2>2. StoredEntity(n, e) \in 0 .. UInt8 * UInt16 - 1
      BY <1>1, <1>4, <2>1, Widths, PackBelow
  <2>3. QED
      BY <1>4, <2>2
      DEF StoredTag, PairTags, ReferenceTags, IndexTags, ResolvedTags
<1>5. CASE e.kind \notin ReferenceTags \cup
                          {"NameAndType", "InvokeDynamic", "MethodHandle"}
    BY <1>1, <1>5
    DEF StoredEntity, StoredTag, PairTags, ReferenceTags, IndexTags,
        ResolvedTags, IsEntry, EntryKinds, NumericTags, WideTags
<1>6. QED
    BY <1>2, <1>3, <1>4, <1>5

LEMMA InternAdds ==
    ASSUME NEW n, NEW text, Intern(n, text)
    PROVE  /\ symbols \subseteq symbols'
           /\ \E s \in symbols' : s.owner = n
<1>1. [owner |-> n, text |-> text].owner = n
    OBVIOUS
<1>2. QED
    BY <1>1 DEF Intern

(* Steps that leave the pool alone.                                         *)
LEMMA PoolKeepsEntities ==
    ASSUME EntityInv, UNCHANGED poolVars, symbols \subseteq symbols'
    PROVE  EntityInv'
BY DEF EntityInv, EntityMatchesTag, HandleInv, WildInv, poolVars, Slots

LEMMA HeaderKeepsEntities == EntityInv /\ Header => EntityInv'
<1> SUFFICES ASSUME EntityInv, Header PROVE EntityInv'
    OBVIOUS
<1>1. CASE ParseCount
    BY <1>1
    DEF ParseCount, Allocate, EntityInv, EntityMatchesTag, HandleInv, WildInv,
        Slots
<1>2. CASE ParseMagic \/ ParseVersion \/ HeaderTruncated
    BY <1>2, PoolKeepsEntities
    DEF ParseMagic, ParseVersion, HeaderTruncated, symbolVars
<1>3. QED
    BY <1>1, <1>2 DEF Header

LEMMA ScanKeepsEntities == IInv /\ EntityInv /\ Scan => EntityInv'
<1> SUFFICES ASSUME IInv, EntityInv, Scan PROVE EntityInv'
    OBVIOUS
<1>1. ASSUME NEW e \in Entries, ScanEntry(e) PROVE EntityInv'
  <2> DEFINE m == i + 1
             tag == StoredTag(e.kind)
             entity == StoredEntity(m, e)
  <2>1. /\ phase = "scan" /\ m \in Slots /\ m \in Int /\ m \notin written
        /\ written' = written \cup {m} /\ Slots' = Slots
        /\ \A n \in Slots : n # m =>
              tags'[n] = tags[n] /\ entities'[n] = entities[n]
      BY <1>1, ScanEntryStores DEF Slots
  <2>2. tags'[m] = tag /\ entities'[m] = entity
    <3>1. NextSlot = m
        BY <1>1, NextSlotValue DEF IInv, ScanInv, ScanEntry, Scanning, isValidIndex
    <3>2. QED
        BY <1>1, <2>1, <3>1 DEF ScanEntry, putAt, IInv, TypeOK
  <2>3. IsEntry(e) /\ e.kind # "Unknown"
      BY <1>1, ParserAssumption DEF ScanEntry
  <2>4. /\ tag \in PairTags => entity \in 0 .. UInt16 * UInt16 - 1
        /\ tag = "MethodHandle" => entity \in 0 .. UInt8 * UInt16 - 1
        /\ tag \in IndexTags \cup {"MethodType"} => entity \in 0 .. UInt16 - 1
        /\ tag = "Utf8" => e.kind = "Utf8" /\ entity = Pointer(m)
        /\ tag \notin ResolvedTags
      BY <2>1, <2>3, StoredEntityMatches
  <2>5. /\ symbols \subseteq symbols'
        /\ e.kind = "Utf8" => \E s \in symbols' : s.owner = m
    <3>1. NextSlot = m
        BY <1>1, NextSlotValue DEF IInv, ScanInv, ScanEntry, Scanning, isValidIndex
    <3>2. QED
        BY <1>1, <3>1, InternAdds DEF ScanEntry, symbolVars
  <2>6. \A n \in written : n \in Slots /\ n # m /\ tags[n] \notin ResolvedTags
      BY <2>1 DEF IInv, TypeOK, ScanInv, ScannedTags
  <2> HIDE DEF m, tag, entity
  <2>7. EntityMatchesTag'
    <3> SUFFICES ASSUME NEW n \in written'
                 PROVE  /\ tags'[n] = "Utf8" =>
                              /\ entities'[n] = Pointer(n)
                              /\ \E s \in symbols' : s.owner = n
                        /\ tags'[n] \in ResolvedTags => FALSE
                        /\ tags'[n] \in IndexTags \cup {"MethodType"} =>
                              entities'[n] \in 0 .. UInt16 - 1
                        /\ tags'[n] \in PairTags =>
                              entities'[n] \in 0 .. UInt16 * UInt16 - 1
        BY DEF EntityMatchesTag, PairTags, Pointer
    <3>1. CASE n = m
        BY <2>2, <2>4, <2>5, <3>1
    <3>2. CASE n # m
        BY <2>1, <2>5, <2>6, <3>2 DEF EntityInv, EntityMatchesTag, PairTags
    <3>3. QED
        BY <3>1, <3>2
  <2>8. HandleInv'
      BY <2>1, <2>2, <2>4, <2>6 DEF EntityInv, HandleInv
  <2>9. WildInv'
      BY <2>1 DEF EntityInv, WildInv
  <2>10. QED
      BY <2>7, <2>8, <2>9 DEF EntityInv
<1>2. ASSUME NEW e \in Entries, ScanAsserts(e) PROVE EntityInv'
    BY <1>2, PoolKeepsEntities, InternAdds DEF ScanAsserts, symbolVars
<1>3. ASSUME \/ \E e \in Entries : ScanTruncated(e) \/ ScanUnknown(e)
             \/ ScanFaults \/ ScanEnds
      PROVE  EntityInv'
    BY <1>3, PoolKeepsEntities
    DEF ScanTruncated, ScanUnknown, ScanFaults, ScanEnds, symbolVars
<1>4. QED
    BY <1>1, <1>2, <1>3 DEF Scan

(* The symbol that an index is replaced by.                                 *)
LEMMA IndexNamesSymbol ==
    ASSUME IInv, EntityInv, NEW from, NEW to, ResolveIndex(from, to)
    PROVE  /\ entities' = [entities EXCEPT ![i + 1] = NamedSymbol(i + 1)]
           /\ tags' = [tags EXCEPT ![i + 1] = to] /\ tags[i + 1] = from
           /\ i + 1 \in written /\ i + 1 \in Slots
           /\ written' = written /\ Slots' = Slots /\ symbols' = symbols
           /\ \/ /\ NamedSymbol(i + 1) = Wild
                 /\ \E u \in Slots \ written : tags[u] = "Utf8"
              \/ \E u \in written :
                    tags[u] = "Utf8" /\ NamedSymbol(i + 1) = Pointer(u)
<1> DEFINE u == getIndexAt(i + 1)
<1>1. TypeOK /\ phase = "resolve" /\ i \in Nat /\ i + 1 < size
    BY PoolAssumption DEF IInv, TypeOK, ResolveIndex, Resolving
<1>2. i + 1 \in written /\ i + 1 \in Slots
    BY <1>1 DEF IInv, ResolveInv, TypeOK
<1>3. u \in Int
    BY <1>1, <1>2, Widths DEF getIndexAt, Low, TypeOK
<1>4. u \in Slots /\ tags[u] = "Utf8"
    BY <1>1, <1>3 DEF ResolveIndex, Names, isValidCpIndex, Slots, TypeOK
<1>5. NamedSymbol(i + 1) = entities[u]
    BY DEF NamedSymbol
<1> HIDE DEF u
<1>6. \/ /\ NamedSymbol(i + 1) = Wild
         /\ \E v \in Slots \ written : tags[v] = "Utf8"
      \/ \E v \in written :
            tags[v] = "Utf8" /\ NamedSymbol(i + 1) = Pointer(v)
  <2>1. ASSUME u \in written PROVE NamedSymbol(i + 1) = Pointer(u)
      BY <1>4, <1>5, <2>1 DEF EntityInv, EntityMatchesTag
  <2>2. ASSUME u \notin written
        PROVE  NamedSymbol(i + 1) = Wild /\ u \in Slots \ written
      BY <1>4, <1>5, <2>2 DEF EntityInv, WildInv
  <2>3. QED
      BY <1>4, <2>1, <2>2
<1>7. written' = written /\ Slots' = Slots /\ symbols' = symbols
    BY <1>2 DEF ResolveIndex, putAt, Continue, symbolVars, Slots
<1>8. QED
    BY <1>2, <1>6, <1>7 DEF ResolveIndex, putAt

LEMMA ResolveKeepsEntities == IInv /\ EntityInv /\ ResolvePool => EntityInv'
<1> SUFFICES ASSUME IInv, EntityInv, ResolvePool PROVE EntityInv'
    OBVIOUS
<1>1. ASSUME NEW from \in IndexTags, NEW to \in ResolvedTags,
             ResolveIndex(from, to)
      PROVE  EntityInv'
  <2> DEFINE m == i + 1
             symbol == NamedSymbol(m)
  <2>1. /\ entities' = [entities EXCEPT ![m] = symbol]
        /\ tags' = [tags EXCEPT ![m] = to] /\ tags[m] = from
        /\ m \in written /\ m \in Slots
        /\ written' = written /\ Slots' = Slots /\ symbols' = symbols
        /\ \/ symbol = Wild /\ written # Slots
           \/ \E u \in written : tags[u] = "Utf8" /\ symbol = Pointer(u)
      BY <1>1, IndexNamesSymbol
  <2> HIDE DEF m, symbol
  <2>2. /\ \A n \in Slots : n # m =>
              tags'[n] = tags[n] /\ entities'[n] = entities[n]
        /\ tags'[m] = to /\ entities'[m] = symbol
        /\ written \subseteq Slots
      BY <2>1 DEF IInv, TypeOK
  <2>3. \A u \in written : tags[u] = "Utf8" => u # m /\ tags'[u] = "Utf8"
      BY <2>1, <2>2 DEF IndexTags
  <2>4. /\ to # "Utf8" /\ to \notin PairTags
        /\ to \notin IndexTags \cup {"MethodType"} /\ to # "MethodHandle"
      BY DEF ResolvedTags, PairTags, ReferenceTags, IndexTags
  <2>5. EntityMatchesTag'
    <3> SUFFICES ASSUME NEW n \in written
                 PROVE  /\ tags'[n] = "Utf8" =>
                              /\ entities'[n] = Pointer(n)
                              /\ \E s \in symbols : s.owner = n
                        /\ tags'[n] \in ResolvedTags =>
                              \/ entities'[n] = Wild /\ written # Slots
                              \/ \E u \in written :
                                    /\ tags'[u] = "Utf8"
                                    /\ entities'[n] = Pointer(u)
                        /\ tags'[n] \in IndexTags \cup {"MethodType"} =>
                              entities'[n] \in 0 .. UInt16 - 1
                        /\ tags'[n] \in PairTags =>
                              entities'[n] \in 0 .. UInt16 * UInt16 - 1
        BY <2>1 DEF EntityMatchesTag, PairTags, Pointer, Wild
    <3>1. CASE n = m
        BY <2>1, <2>2, <2>3, <2>4, <3>1
    <3>2. CASE n # m
        BY <2>2, <2>3, <3>2 DEF EntityInv, EntityMatchesTag, PairTags
    <3>3. QED
        BY <3>1, <3>2
  <2>6. HandleInv'
      BY <2>1, <2>2, <2>4 DEF EntityInv, HandleInv
  <2>7. WildInv'
      BY <2>1, <2>2 DEF EntityInv, WildInv, Wild
  <2>8. QED
      BY <2>5, <2>6, <2>7 DEF EntityInv
<1>2. CASE ResolveClassIndex \/ ResolveStringIndex
    BY <1>1, <1>2
    DEF ResolveClassIndex, ResolveStringIndex, IndexTags, ResolvedTags
<1>3. CASE ~(ResolveClassIndex \/ ResolveStringIndex)
    BY <1>3, PoolKeepsEntities
    DEF ResolvePool, ResolvePlain, ResolveWide, ResolveChecked, ResolveCrashes,
        ResolveRejects, ResolveEnds, Continue, symbolVars
<1>4. QED
    BY <1>2, <1>3

LEMMA EntityInvariant == Spec => [](IInv /\ HandInv /\ EntityInv)
<1>1. Init => EntityInv
    BY DEF Init, EntityInv, EntityMatchesTag, HandleInv, WildInv, Slots
<1>2. IInv /\ EntityInv /\ [Next]_vars => EntityInv'
  <2>1. EntityInv /\ UNCHANGED vars => EntityInv'
      BY PoolKeepsEntities DEF vars, symbolVars
  <2>2. QED
      BY <2>1, HeaderKeepsEntities, ScanKeepsEntities, ResolveKeepsEntities
      DEF Next, Done
<1>3. QED
    BY <1>1, <1>2, InvInit, InvStep, HandInvariant, PTL DEF Spec

(* Tag and entity of a slot agree, for every file: the tag may be trusted   *)
(* to tell an index from a pointer, and a resolved slot points to the       *)
(* symbol of a Utf8 slot unless it followed a slot that nobody wrote.       *)
THEOREM TagsTellTheTruth == Spec => []EntityMatchesTag
<1>1. EntityInv => EntityMatchesTag
    BY DEF EntityInv
<1>2. QED
    BY <1>1, EntityInvariant, PTL

------------------------------------------------------------------------------
(* The checks and the references.                                           *)

(* What a method handle may refer to is what the parser lets it.            *)
LEMMA HandleKindsAgree ==
    ASSUME TypeOK, NEW kind \in Int
    PROVE  HandleTargets(kind) = HandleKinds(kind)
<1>1. majorVersion \in Nat
    BY ParserAssumption DEF TypeOK
<1>2. CASE kind \in {6, 7} /\ majorVersion < JAVA_8_VERSION
    BY <1>1, <1>2
    DEF HandleTargets, HandleKinds, MethodTargets, ReferenceTags, JAVA_8_VERSION
<1>3. CASE kind \in {6, 7} /\ ~(majorVersion < JAVA_8_VERSION)
    BY <1>1, <1>3
    DEF HandleTargets, HandleKinds, MethodTargets, ReferenceTags, JAVA_8_VERSION
<1>4. CASE kind \notin {6, 7}
    BY <1>4 DEF HandleTargets, HandleKinds, ReferenceTags
<1>5. QED
    BY <1>2, <1>3, <1>4

(* While the second pass runs, every entry has a tag that a put stores.     *)
LEMMA ResolvingTags ==
    ASSUME IInv, HandInv, phase = "resolve", NEW n \in written
    PROVE  n \in Slots /\ n \in Int /\ tags[n] \in StoredTags
<1>1. n \in Slots /\ n \in Int /\ i \in Int
    BY PoolAssumption DEF IInv, TypeOK, Slots
<1>2. CASE n <= i
    BY <1>1, <1>2 DEF HandInv, BehindIsFinal, FinalTags
<1>3. CASE n > i
    BY <1>1, <1>3 DEF IInv, ResolveInv, ScannedTags
<1>4. QED
    BY <1>1, <1>2, <1>3

(* A check asks what the reference asks, of every slot that was written:    *)
(* for a kind of entry that the pass does not rewrite ...                   *)
LEMMA NamesPlain ==
    ASSUME IInv, HandInv, phase = "resolve", NEW to \in Int, NEW kinds,
           kinds \cap (IndexTags \cup ResolvedTags \cup {"None"}) = {}
    PROVE  LET r == Reference(to, kinds)
           IN  /\ Names(to, kinds) => Satisfied(r) \/ Decided(r)
               /\ Satisfied(r) => Names(to, kinds)
<1>1. size \in Int /\ written \subseteq Slots
    BY DEF IInv, TypeOK
<1>2. Declared(to) \in kinds <=> tags[to] \in kinds
    BY DEF Declared, IndexTags, ResolvedTags
<1>3. /\ Satisfied(Reference(to, kinds)) <=>
            to \in written /\ Declared(to) \in kinds
      /\ Decided(Reference(to, kinds)) <=>
            to \in Slots \ written /\ tags[to] # "None"
    BY DEF Satisfied, Decided, Reference
<1>4. QED
    BY <1>1, <1>2, <1>3 DEF Names, isValidCpIndex, Slots

(* ... and for a class, whether it has been rewritten or not.               *)
LEMMA NamesClass ==
    ASSUME IInv, HandInv, phase = "resolve", NEW to \in Int
    PROVE  LET r == Reference(to, {"ClassIndex"})
           IN  /\ Names(to, isClassOrIndex) => Satisfied(r) \/ Decided(r)
               /\ Satisfied(r) => Names(to, isClassOrIndex)
<1>1. size \in Int /\ written \subseteq Slots
    BY DEF IInv, TypeOK
<1>2. to \in written => tags[to] # "Class"
    BY ResolvingTags
    DEF StoredTags, IndexTags, ResolvedTags, ReferenceTags, NumericTags, WideTags
<1>3. Declared(to) = "ClassIndex" <=> tags[to] \in {"ClassIndex", "UnresolvedClass"}
    BY DEF Declared
<1>4. /\ Satisfied(Reference(to, {"ClassIndex"})) <=>
            to \in written /\ Declared(to) = "ClassIndex"
      /\ Decided(Reference(to, {"ClassIndex"})) <=>
            to \in Slots \ written /\ tags[to] # "None"
    BY DEF Satisfied, Decided, Reference
<1>5. QED
    BY <1>1, <1>2, <1>3, <1>4
    DEF Names, isValidCpIndex, Slots, isClassOrIndex, isClassOrUnresolvedClass

(* The getters' truncations lose nothing of what the first pass stored.     *)
LEMMA Operands ==
    ASSUME NEW e
    PROVE  /\ e \in 0 .. UInt16 * UInt16 - 1 =>
                 /\ High(e) = e \div UInt16 /\ High(e) % UInt16 = e \div UInt16
                 /\ Low(e) = e % UInt16
                 /\ e \div UInt16 \in Int /\ e % UInt16 \in Int
           /\ e \in 0 .. UInt8 * UInt16 - 1 =>
                 /\ High(e) % UInt8 = e \div UInt16
                 /\ Low(e) = e % UInt16
                 /\ e \div UInt16 \in Int /\ e % UInt16 \in Int
           /\ e \in 0 .. UInt16 - 1 => Low(e) = e /\ NamedBy(e) = e
<1>1. ASSUME NEW k \in Nat \ {0}, e \in 0 .. k * UInt16 - 1
      PROVE  /\ (e \div UInt16) % k = e \div UInt16
             /\ e \div UInt16 \in Int /\ e % UInt16 \in Int
  <2>1. e \div UInt16 \in 0 .. k - 1 /\ e % UInt16 \in 0 .. UInt16 - 1
      BY <1>1, Widths, DivBelow
  <2> DEFINE d == e \div UInt16
  <2> HIDE DEF d
  <2>2. d \in 0 .. k - 1 => d % k = d
      BY ModBelow
  <2>3. QED
      BY <2>1, <2>2 DEF d
<1>2. ASSUME e \in 0 .. UInt16 - 1 PROVE e % UInt16 = e /\ NamedBy(e) = e
    BY <1>2, Widths, ModBelow DEF NamedBy
<1>3. QED
    BY <1>1, <1>2, Widths DEF High, Low

(* The references of an entry whose operands are indices still, in the      *)
(* parser's own terms.                                                      *)
LEMMA ReferencesAre ==
    ASSUME TypeOK, EntityInv, NEW n \in written
    PROVE  /\ tags[n] \in ReferenceTags =>
                 References(n) =
                    {Reference(getRefClassIndexAt(n), {"ClassIndex"}),
                     Reference(getRefNameAndTypeIndexAt(n), {"NameAndType"})}
           /\ tags[n] = "NameAndType" =>
                 References(n) =
                    {Reference(getNameAndTypeNameIndexAt(n), {"Utf8"}),
                     Reference(getNameAndTypeDescriptorIndexAt(n), {"Utf8"})}
           /\ tags[n] = "InvokeDynamic" =>
                 References(n) =
                    {Reference(getInvokeDynamicNameAndTypeIndexAt(n),
                               {"NameAndType"})}
           /\ tags[n] = "MethodHandle" =>
                 References(n) =
                    {Reference(getMethodHandleReferenceIndexAt(n),
                        HandleTargets(getMethodHandleReferenceKindAt(n)))}
           /\ tags[n] \in IndexTags \cup {"MethodType"} =>
                 References(n) = {Reference(getIndexAt(n), {"Utf8"})}
<1> DEFINE e == entities[n]
<1>1. /\ tags[n] \in PairTags => e \in 0 .. UInt16 * UInt16 - 1
      /\ tags[n] = "MethodHandle" => e \in 0 .. UInt8 * UInt16 - 1
      /\ tags[n] \in IndexTags \cup {"MethodType"} => e \in 0 .. UInt16 - 1
    BY DEF EntityInv, EntityMatchesTag, HandleInv, PairTags
<1> HIDE DEF e
<1>2. CASE tags[n] \in ReferenceTags
  <2>1. Declared(n) = tags[n]
      BY <1>2 DEF Declared, ReferenceTags
  <2>2. References(n) =
           {Reference(e % UInt16, {"ClassIndex"}),
            Reference(e \div UInt16, {"NameAndType"})}
      BY <1>2, <2>1 DEF References, ReferenceTags, IndexTags, e
  <2>3. Low(e) = e % UInt16 /\ High(e) % UInt16 = e \div UInt16
      BY <1>1, <1>2, Operands DEF PairTags
  <2>4. QED
      BY <1>2, <2>2, <2>3
      DEF e, getRefClassIndexAt, getRefNameAndTypeIndexAt, ReferenceTags,
          IndexTags
<1>3. CASE tags[n] = "NameAndType"
  <2>1. References(n) =
           {Reference(e % UInt16, {"Utf8"}), Reference(e \div UInt16, {"Utf8"})}
      BY <1>3 DEF References, Declared, ReferenceTags, IndexTags, e
  <2>2. Low(e) = e % UInt16 /\ High(e) % UInt16 = e \div UInt16
      BY <1>1, <1>3, Operands DEF PairTags
  <2>3. QED
      BY <1>3, <2>1, <2>2
      DEF e, getNameAndTypeNameIndexAt, getNameAndTypeDescriptorIndexAt,
          ReferenceTags, IndexTags
<1>4. CASE tags[n] = "InvokeDynamic"
  <2>1. References(n) = {Reference(e % UInt16, {"NameAndType"})}
      BY <1>4 DEF References, Declared, ReferenceTags, IndexTags, e
  <2>2. QED
      BY <1>4, <2>1
      DEF e, getInvokeDynamicNameAndTypeIndexAt, Low, ReferenceTags, IndexTags
<1>5. CASE tags[n] = "MethodHandle"
  <2>1. References(n) = {Reference(e % UInt16, HandleKinds(e \div UInt16))}
      BY <1>5 DEF References, Declared, ReferenceTags, IndexTags, e
  <2>2. /\ Low(e) = e % UInt16 /\ High(e) % UInt8 = e \div UInt16
        /\ e \div UInt16 \in Int
      BY <1>1, <1>5, Operands
  <2>3. HandleTargets(High(e) % UInt8) = HandleKinds(e \div UInt16)
      BY <2>2, HandleKindsAgree
  <2>4. QED
      BY <1>5, <2>1, <2>2, <2>3
      DEF e, getMethodHandleReferenceIndexAt, getMethodHandleReferenceKindAt,
          ReferenceTags, IndexTags
<1>6. CASE tags[n] \in IndexTags \cup {"MethodType"}
  <2>1. Declared(n) = tags[n]
      BY <1>6 DEF Declared, IndexTags
  <2>2. References(n) = {Reference(NamedBy(e), {"Utf8"})}
      BY <1>6, <2>1 DEF References, ReferenceTags, IndexTags, e
  <2>3. Low(e) = e /\ NamedBy(e) = e
      BY <1>1, <1>6, Operands
  <2>4. QED
      BY <1>6, <2>2, <2>3 DEF e, getIndexAt, ReferenceTags, IndexTags
<1>7. QED
    BY <1>2, <1>3, <1>4, <1>5, <1>6

(* Entries of the other kinds refer to nothing.                             *)
LEMMA NoReferences ==
    ASSUME NEW n, tags[n] \in StoredTags,
           tags[n] \notin CheckedTags \cup IndexTags \cup ResolvedTags
    PROVE  References(n) = {}
<1>1. Declared(n) = tags[n]
    BY DEF Declared, ResolvedTags
<1>2. QED
    BY <1>1 DEF References, CheckedTags, IndexTags

(* An operand is an index, whatever the entity.                             *)
LEMMA OperandsAreInts ==
    ASSUME TypeOK, EntityInv, NEW n \in written
    PROVE  /\ getIndexAt(n) \in Int
           /\ getRefClassIndexAt(n) \in Int
           /\ getRefNameAndTypeIndexAt(n) \in Int
           /\ getNameAndTypeNameIndexAt(n) \in Int
           /\ getNameAndTypeDescriptorIndexAt(n) \in Int
           /\ getMethodHandleReferenceKindAt(n) \in Int
           /\ getMethodHandleReferenceIndexAt(n) \in Int
           /\ getInvokeDynamicNameAndTypeIndexAt(n) \in Int
<1>1. entities[n] \in Int
    BY DEF TypeOK
<1>2. Low(entities[n]) \in Int /\ High(entities[n]) \in Int
    BY <1>1, Widths DEF Low, High
<1>3. High(entities[n]) % UInt16 \in Int /\ High(entities[n]) % UInt8 \in Int
    BY <1>2, Widths
<1>4. QED
    BY <1>2, <1>3
    DEF getIndexAt, getRefClassIndexAt, getRefNameAndTypeIndexAt,
        getNameAndTypeNameIndexAt, getNameAndTypeDescriptorIndexAt,
        getMethodHandleReferenceKindAt, getMethodHandleReferenceIndexAt,
        getInvokeDynamicNameAndTypeIndexAt

(* The kinds that a check may ask for, classes apart.                       *)
LEMMA KindsArePlain ==
    LET rewritten == IndexTags \cup ResolvedTags \cup {"None"}
    IN  /\ {"Utf8"} \cap rewritten = {} /\ {"NameAndType"} \cap rewritten = {}
        /\ \A kind : HandleKinds(kind) \cap rewritten = {}
BY DEF IndexTags, ResolvedTags, HandleKinds, ReferenceTags

(* The verdict on one entry: its checks pass if it names what it should,    *)
(* and only then, slots that no entry was written to set apart.             *)
LEMMA ChecksAgree ==
    ASSUME IInv, HandInv, EntityInv, phase = "resolve",
           NEW n \in written, tags[n] \in CheckedTags
    PROVE  /\ ChecksPass(n) => SoundReferences(n)
           /\ (\A r \in References(n) : Satisfied(r)) => ChecksPass(n)
<1> USE OperandsAreInts, KindsArePlain DEF IInv
<1>1. CASE tags[n] \in ReferenceTags
  <2> DEFINE class == getRefClassIndexAt(n)
             nat == getRefNameAndTypeIndexAt(n)
  <2>1. References(n) = {Reference(class, {"ClassIndex"}),
                         Reference(nat, {"NameAndType"})}
      BY <1>1, ReferencesAre
  <2>2. ChecksPass(n) <=>
            Names(class, isClassOrIndex) /\ Names(nat, {"NameAndType"})
      BY <1>1 DEF ChecksPass, ReferenceTags
  <2>3. class \in Int /\ nat \in Int
      OBVIOUS
  <2> HIDE DEF class, nat
  <2>4. /\ Reference(class, {"ClassIndex"}).to = class
        /\ Reference(nat, {"NameAndType"}).to = nat
      BY DEF Reference
  <2>5. QED
      BY <2>1, <2>2, <2>3, <2>4, NamesClass, NamesPlain DEF SoundReferences
<1>2. CASE tags[n] = "NameAndType"
  <2> DEFINE name == getNameAndTypeNameIndexAt(n)
             desc == getNameAndTypeDescriptorIndexAt(n)
  <2>1. References(n) = {Reference(name, {"Utf8"}), Reference(desc, {"Utf8"})}
      BY <1>2, ReferencesAre
  <2>2. ChecksPass(n) <=> Names(name, {"Utf8"}) /\ Names(desc, {"Utf8"})
      BY <1>2 DEF ChecksPass, ReferenceTags
  <2>3. name \in Int /\ desc \in Int
      OBVIOUS
  <2> HIDE DEF name, desc
  <2>4. /\ Reference(name, {"Utf8"}).to = name
        /\ Reference(desc, {"Utf8"}).to = desc
      BY DEF Reference
  <2>5. QED
      BY <2>1, <2>2, <2>3, <2>4, NamesPlain DEF SoundReferences
<1>3. CASE tags[n] \in {"MethodHandle", "MethodType", "InvokeDynamic"}
  <2>1. PICK to \in Int,
                kinds \in SUBSET (ReferenceTags \cup {"Utf8", "NameAndType"}) :
           /\ References(n) = {Reference(to, kinds)}
           /\ ChecksPass(n) <=> Names(to, kinds)
           /\ kinds \cap (IndexTags \cup ResolvedTags \cup {"None"}) = {}
    <3>1. CASE tags[n] = "MethodHandle"
      <4> DEFINE targets == HandleTargets(getMethodHandleReferenceKindAt(n))
      <4>1. targets = HandleKinds(getMethodHandleReferenceKindAt(n))
          BY HandleKindsAgree
      <4>2. targets \cap (IndexTags \cup ResolvedTags \cup {"None"}) = {}
          BY <4>1
      <4>3. ChecksPass(n) <=> Names(getMethodHandleReferenceIndexAt(n), targets)
          BY <3>1 DEF ChecksPass, ReferenceTags
      <4>4. References(n) = {Reference(getMethodHandleReferenceIndexAt(n), targets)}
          BY <3>1, ReferencesAre
      <4>5. targets \subseteq ReferenceTags
          BY <4>1 DEF HandleKinds
      <4>6. QED
          BY <4>2, <4>3, <4>4, <4>5
    <3>2. CASE tags[n] = "MethodType"
      <4>1. ChecksPass(n) <=> Names(getIndexAt(n), {"Utf8"})
          BY <3>2 DEF ChecksPass, ReferenceTags
      <4>2. References(n) = {Reference(getIndexAt(n), {"Utf8"})}
          BY <3>2, ReferencesAre
      <4>3. QED
          BY <4>1, <4>2
    <3>3. CASE tags[n] = "InvokeDynamic"
      <4>1. ChecksPass(n) <=>
               Names(getInvokeDynamicNameAndTypeIndexAt(n), {"NameAndType"})
          BY <3>3 DEF ChecksPass, ReferenceTags
      <4>2. References(n) = {Reference(getInvokeDynamicNameAndTypeIndexAt(n),
                                       {"NameAndType"})}
          BY <3>3, ReferencesAre
      <4>3. QED
          BY <4>1, <4>2
    <3>4. QED
        BY <1>3, <3>1, <3>2, <3>3
  <2>2. Reference(to, kinds).to = to
      BY DEF Reference
  <2>3. QED
      BY <2>1, <2>2, NamesPlain DEF SoundReferences
<1>4. QED
    BY <1>1, <1>2, <1>3 DEF CheckedTags

(* An index that is well-formed is accepted.                                *)
LEMMA IndexAgrees ==
    ASSUME IInv, HandInv, EntityInv, phase = "resolve",
           NEW n \in written, tags[n] \in IndexTags,
           \A r \in References(n) : Satisfied(r)
    PROVE  Names(getIndexAt(n), {"Utf8"})
<1>1. References(n) = {Reference(getIndexAt(n), {"Utf8"})}
    BY ReferencesAre DEF IInv
<1>2. getIndexAt(n) \in Int
    BY OperandsAreInts DEF IInv
<1>3. QED
    BY <1>1, <1>2, KindsArePlain, NamesPlain

------------------------------------------------------------------------------
(* The verdict.                                                             *)

(* What leaves the pool and the version alone leaves every verdict alone.   *)
LEMMA SamePoolSameVerdict ==
    ASSUME UNCHANGED <<poolVars, majorVersion>>
    PROVE  /\ \A n : SoundReferences(n)' <=> SoundReferences(n)
           /\ WellFormed' <=> WellFormed
<1>1. /\ tags' = tags /\ entities' = entities /\ written' = written
      /\ size' = size /\ majorVersion' = majorVersion
    BY DEF poolVars
<1>2. \A n : Declared(n)' = Declared(n)
    BY <1>1 DEF Declared
<1>3. \A kind : HandleKinds(kind)' = HandleKinds(kind)
    BY <1>1 DEF HandleKinds
<1>4. \A n : References(n)' = References(n)
    BY <1>1, <1>2, <1>3 DEF References
<1>5. \A r : (Satisfied(r)' <=> Satisfied(r)) /\ (Decided(r)' <=> Decided(r))
    BY <1>1, <1>2 DEF Satisfied, Decided, Slots
<1>6. QED
    BY <1>1, <1>4, <1>5 DEF SoundReferences, WellFormed, Slots

(* Rewriting an entry changes neither what it was declared as nor what the  *)
(* entries that are left alone refer to.                                    *)
LEMMA RewritingKeepsReferences ==
    ASSUME IInv, ResolvePool, phase' = "resolve",
           NEW n \in written, n # i + 1, SoundReferences(n)
    PROVE  SoundReferences(n)'
<1>1. /\ i + 1 \in written /\ written' = written /\ Slots' = Slots
      /\ written \subseteq Slots /\ n \in Slots
      /\ tags'[n] = tags[n] /\ entities'[n] = entities[n]
    BY ResolveStores DEF IInv, TypeOK, Slots
<1>2. majorVersion' = majorVersion
    BY DEF ResolvePool, ResolvePlain, ResolveWide, ResolveChecked,
           ResolveClassIndex, ResolveStringIndex, ResolveIndex, Continue,
           ResolveCrashes, ResolveRejects, ResolveEnds
<1>3. \A m \in written : Declared(m)' = Declared(m)
  <2> SUFFICES ASSUME NEW m \in written PROVE Declared(m)' = Declared(m)
      OBVIOUS
  <2>1. CASE tags'[m] = tags[m]
      BY <2>1 DEF Declared
  <2>2. CASE <<tags[m], tags'[m]>> \in {<<"ClassIndex", "UnresolvedClass">>,
                                        <<"StringIndex", "String">>}
      BY <2>2 DEF Declared
  <2>3. QED
      BY <1>1, <2>1, <2>2, ResolveStores
<1>4. \A kind : HandleKinds(kind)' = HandleKinds(kind)
    BY <1>2 DEF HandleKinds
<1>5. References(n)' = References(n)
    BY <1>1, <1>3, <1>4 DEF References
<1>6. \A r : Satisfied(r) \/ Decided(r) => Satisfied(r)' \/ Decided(r)'
  <2>1. \A m \in Slots \ written : tags'[m] = tags[m]
      BY <1>1, ResolveStores
  <2>2. QED
      BY <1>1, <1>3, <2>1 DEF Satisfied, Decided
<1>7. QED
    BY <1>1, <1>5, <1>6 DEF SoundReferences

LEMMA ResolveKeepsChecked ==
    IInv /\ HandInv /\ EntityInv /\ CheckedInv /\ ResolvePool => CheckedInv'
<1> SUFFICES ASSUME IInv, HandInv, EntityInv, CheckedInv, ResolvePool
             PROVE  CheckedInv'
    OBVIOUS
<1>1. CASE phase' = "resolve"
  <2>1. /\ phase = "resolve" /\ i \in Nat /\ i + 1 \in written
        /\ written' = written /\ written \subseteq Slots
      BY <1>1, ResolveStores DEF IInv, TypeOK
  <2> SUFFICES ASSUME NEW n \in written, n <= i', tags'[n] \in CheckedTags
               PROVE  SoundReferences(n)'
      BY <1>1, <2>1 DEF CheckedInv
  <2>2. n \in Int /\ n \in Slots
      BY <2>1 DEF Slots
  <2>3. CASE n = i + 1
    <3>1. tags[i + 1] \in CheckedTags
        BY <1>1, <2>3, ResolveStores
        DEF CheckedTags, ReferenceTags
    <3>2. ResolveChecked
        BY <1>1, <3>1
        DEF ResolvePool, ResolvePlain, ResolveWide, ResolveClassIndex,
            ResolveStringIndex, ResolveIndex, ResolveCrashes, ResolveRejects,
            ResolveEnds, End, CheckedTags, ReferenceTags, WideTags
    <3>3. SoundReferences(n)
        BY <2>1, <2>3, <3>1, <3>2, ChecksAgree DEF ResolveChecked
    <3>4. UNCHANGED <<poolVars, majorVersion>>
        BY <3>2 DEF ResolveChecked, Continue
    <3>5. QED
        BY <3>3, <3>4, SamePoolSameVerdict
  <2>4. CASE n # i + 1
    <3>1. tags'[n] = tags[n]
        BY <1>1, <2>2, <2>4, ResolveStores
    <3>2. n <= i
        BY <1>1, <2>1, <2>2, <2>4, ResolveStores DEF HandInv, UpperHalvesFree
    <3>3. SoundReferences(n)
        BY <2>1, <3>1, <3>2 DEF CheckedInv
    <3>4. QED
        BY <1>1, <2>4, <3>3, RewritingKeepsReferences
  <2>5. QED
      BY <2>3, <2>4
<1>2. CASE ResolveEnds
  <2>1. /\ phase = "resolve" /\ phase' = "resolved" /\ i + 1 >= size
        /\ UNCHANGED <<poolVars, majorVersion>>
        /\ tags' = tags /\ written' = written
      BY <1>2 DEF ResolveEnds, End, poolVars
  <2>2. i \in Int /\ size \in Int /\ written \subseteq 1 .. size - 1
      BY PoolAssumption DEF IInv, TypeOK, Slots
  <2>3. \A n \in written : n <= i
      BY <2>1, <2>2
  <2>4. QED
      BY <2>1, <2>3, SamePoolSameVerdict DEF CheckedInv
<1>3. CASE phase' \notin {"resolve", "resolved"}
    BY <1>3 DEF CheckedInv
<1>4. QED
  <2>1. ResolvePool => phase' \in {"resolve", "crashed", "bad_reference"}
                       \/ ResolveEnds
      BY DEF ResolvePool, ResolvePlain, ResolveWide, ResolveChecked,
             ResolveClassIndex, ResolveStringIndex, ResolveIndex, Resolving,
             Continue, ResolveCrashes, ResolveRejects, End
  <2>2. QED
      BY <1>1, <1>2, <1>3, <2>1

(* The second pass rejects an entry only for a reference of its own.        *)
LEMMA RejectsKeep ==
    IInv /\ HandInv /\ EntityInv /\ ResolveRejects => RejectsOnlyIllFormed'
<1> SUFFICES ASSUME IInv, HandInv, EntityInv, ResolveRejects
             PROVE  RejectsOnlyIllFormed'
    OBVIOUS
<1>1. /\ phase = "resolve" /\ Resolving
      /\ UNCHANGED <<poolVars, majorVersion>>
    BY DEF ResolveRejects, Resolving
<1>2. i + 1 \in written
    BY <1>1, PoolAssumption DEF IInv, TypeOK, ResolveInv, Resolving
<1>3. ~(\A r \in References(i + 1) : Satisfied(r))
    BY <1>1, <1>2, ChecksAgree, IndexAgrees DEF ResolveRejects
<1>4. ~WellFormed
    BY <1>2, <1>3 DEF WellFormed
<1>5. QED
    BY <1>1, <1>4, SamePoolSameVerdict DEF RejectsOnlyIllFormed

LEMMA VerdictInvariant ==
    Spec => [](/\ IInv /\ HandInv /\ EntityInv
               /\ CheckedInv /\ RejectsOnlyIllFormed)
<1>1. Init => CheckedInv /\ RejectsOnlyIllFormed
    BY DEF Init, CheckedInv, RejectsOnlyIllFormed
<1>2. /\ IInv /\ HandInv /\ EntityInv /\ CheckedInv /\ RejectsOnlyIllFormed
      /\ [Next]_vars
      => CheckedInv' /\ RejectsOnlyIllFormed'
  <2> SUFFICES ASSUME IInv, HandInv, EntityInv, CheckedInv,
                      RejectsOnlyIllFormed, [Next]_vars
               PROVE  CheckedInv' /\ RejectsOnlyIllFormed'
      OBVIOUS
  <2>1. CASE UNCHANGED vars
    <3>1. UNCHANGED <<poolVars, majorVersion>> /\ phase' = phase /\ i' = i
        BY <2>1 DEF vars
    <3>2. tags' = tags /\ written' = written
        BY <3>1 DEF poolVars
    <3>3. QED
        BY <3>1, <3>2, SamePoolSameVerdict DEF CheckedInv, RejectsOnlyIllFormed
  <2>2. CASE Header
    <3>1. phase' \notin {"resolve", "resolved", "bad_reference"}
        BY <2>2
        DEF Header, ParseMagic, ParseVersion, ParseCount, HeaderTruncated, End
    <3>2. QED
        BY <3>1 DEF CheckedInv, RejectsOnlyIllFormed
  <2>3. CASE Scan
    <3>1. CASE ScanEnds
      <4>1. phase' = "resolve" /\ i' = 0 /\ written' = written
          BY <3>1 DEF ScanEnds, poolVars
      <4>2. \A n \in written : ~(n <= 0)
          BY DEF IInv, TypeOK, Slots
      <4>3. QED
          BY <4>1, <4>2 DEF CheckedInv, RejectsOnlyIllFormed
    <3>2. CASE ~ScanEnds
      <4>1. phase' \notin {"resolve", "resolved", "bad_reference"}
          BY <2>3, <3>2
          DEF Scan, ScanEntry, Scanning, ScanAsserts, ScanTruncated,
              ScanUnknown, ScanFaults, End
      <4>2. QED
          BY <4>1 DEF CheckedInv, RejectsOnlyIllFormed
    <3>3. QED
        BY <3>1, <3>2
  <2>4. CASE ResolvePool
    <3>1. CheckedInv'
        BY <2>4, ResolveKeepsChecked
    <3>2. CASE ResolveRejects
        BY <3>1, <3>2, RejectsKeep
    <3>3. CASE ~ResolveRejects
      <4>1. phase' # "bad_reference"
          BY <2>4, <3>3
          DEF ResolvePool, ResolvePlain, ResolveWide, ResolveChecked,
              ResolveClassIndex, ResolveStringIndex, ResolveIndex, Resolving,
              Continue, ResolveCrashes, ResolveEnds, End
      <4>2. QED
          BY <3>1, <4>1 DEF RejectsOnlyIllFormed
    <3>4. QED
        BY <3>2, <3>3
  <2>5. QED
      BY <2>1, <2>2, <2>3, <2>4 DEF Next, Done
<1>3. QED
    BY <1>1, <1>2, EntityInvariant, InvInit, InvStep, PTL DEF Spec

(* A resolved entry refers to the text that its symbol was made for.        *)
LEMMA ResolvedRefersTo ==
    ASSUME NEW n, tags[n] \in ResolvedTags, NEW r \in References(n)
    PROVE  r.to = NamedBy(entities[n]) /\ r.kinds = {"Utf8"}
<1>1. Declared(n) \in IndexTags
    BY DEF Declared, ResolvedTags, IndexTags
<1>2. r = Reference(NamedBy(entities[n]), {"Utf8"})
    BY <1>1 DEF References, ReferenceTags, IndexTags
<1>3. QED
    BY <1>2 DEF Reference

LEMMA PointerSatisfies ==
    ASSUME TypeOK, NEW n \in written, tags[n] \in ResolvedTags,
           NEW r \in References(n),
           NEW u \in written, tags[u] = "Utf8", entities[n] = Pointer(u)
    PROVE  Satisfied(r)
<1>1. u \in Int /\ u > 0
    BY DEF TypeOK, Slots
<1>2. r.to = u /\ r.kinds = {"Utf8"}
    BY <1>1, ResolvedRefersTo DEF NamedBy, Pointer
<1>3. Declared(u) = "Utf8"
    BY DEF Declared
<1>4. QED
    BY <1>2, <1>3 DEF Satisfied

(* An accepted pool is well-formed, for every file and every order of its   *)
(* entries: only a slot that no entry was written to can be named instead.  *)
THEOREM AcceptedIsWellFormed == Spec => []AcceptsOnlyWellFormed
<1>1. TypeOK /\ HandInv /\ EntityInv /\ CheckedInv => AcceptsOnlyWellFormed
  <2> SUFFICES ASSUME TypeOK, HandInv, EntityInv, CheckedInv,
                      phase = "resolved",
                      NEW n \in written, NEW r \in References(n)
               PROVE  Satisfied(r) \/ r.to \in (Slots \ written) \cup {UInt16}
      BY DEF AcceptsOnlyWellFormed
  <2>1. tags[n] \in StoredTags \ IndexTags
      BY DEF HandInv, HandsOver
  <2>2. CASE tags[n] \in CheckedTags
      BY <2>2 DEF CheckedInv, SoundReferences, Decided
  <2>3. CASE tags[n] \in ResolvedTags
    <3>1. CASE entities[n] = Wild
        BY <2>3, <3>1, ResolvedRefersTo, Widths DEF NamedBy, Wild, Pointer
    <3>2. ASSUME NEW u \in written, tags[u] = "Utf8", entities[n] = Pointer(u)
          PROVE  Satisfied(r)
        BY <2>3, <3>2, PointerSatisfies
    <3>3. QED
        BY <2>3, <3>1, <3>2 DEF EntityInv, EntityMatchesTag
  <2>4. CASE tags[n] \notin CheckedTags \cup ResolvedTags
      BY <2>1, <2>4, NoReferences
  <2>5. QED
      BY <2>2, <2>3, <2>4
<1>2. IInv => TypeOK
    BY DEF IInv
<1>3. QED
    BY <1>1, <1>2, VerdictInvariant, PTL

(* A rejected pool is ill-formed: no file is refused because of the order   *)
(* of its entries, or because a class it names was already resolved.        *)
THEOREM RejectedIsIllFormed == Spec => []RejectsOnlyIllFormed
BY VerdictInvariant, PTL

------------------------------------------------------------------------------
(* What uninitialized tags have to do with it.                              *)

GarbageStays == \A n \in Slots \ written : tags[n] \in Garbage

WildNeedsGarbage ==
    (\E n \in written : tags[n] \in ResolvedTags /\ entities[n] = Wild) =>
        \E n \in Slots \ written : tags[n] = "Utf8"

LEMMA GarbageStep ==
    ASSUME IInv, EntityInv, GarbageStays, WildNeedsGarbage, [Next]_vars
    PROVE  GarbageStays' /\ WildNeedsGarbage'
<1>1. CASE UNCHANGED poolVars
    BY <1>1 DEF GarbageStays, WildNeedsGarbage, poolVars, Slots
<1>2. CASE ParseCount
  <2>1. PICK n \in Sizes : Allocate(n)
      BY <1>2 DEF ParseCount
  <2>2. /\ size' = n /\ tags' \in [1 .. n - 1 -> Garbage] /\ written' = {}
      BY <2>1 DEF Allocate
  <2>3. QED
      BY <2>2 DEF GarbageStays, WildNeedsGarbage, Slots
<1>3. ASSUME NEW e \in Entries, ScanEntry(e)
      PROVE  GarbageStays' /\ WildNeedsGarbage'
  <2> DEFINE m == i + 1
  <2>1. /\ phase = "scan" /\ phase' = "scan"
        /\ written' = written \cup {m} /\ Slots' = Slots
        /\ \A n \in Slots : n # m => tags'[n] = tags[n]
      BY <1>3, ScanEntryStores DEF Slots
  <2> HIDE DEF m
  <2>2. GarbageStays'
      BY <2>1 DEF GarbageStays
  <2>3. IInv'
      BY InvStep
  <2>4. \A n \in written' : tags'[n] \notin ResolvedTags
      BY <2>1, <2>3 DEF IInv, ScanInv, ScannedTags
  <2>5. QED
      BY <2>2, <2>4 DEF WildNeedsGarbage
<1>4. ASSUME NEW from, NEW to, ResolveIndex(from, to)
      PROVE  GarbageStays' /\ WildNeedsGarbage'
  <2> DEFINE m == i + 1
             symbol == NamedSymbol(m)
  <2>1. /\ entities' = [entities EXCEPT ![m] = symbol]
        /\ tags' = [tags EXCEPT ![m] = to]
        /\ m \in written /\ m \in Slots
        /\ written' = written /\ Slots' = Slots
        /\ \/ symbol = Wild /\ \E u \in Slots \ written : tags[u] = "Utf8"
           \/ \E u \in written : tags[u] = "Utf8" /\ symbol = Pointer(u)
      BY <1>4, IndexNamesSymbol
  <2> HIDE DEF m, symbol
  <2>2. /\ \A n \in Slots : n # m =>
              tags'[n] = tags[n] /\ entities'[n] = entities[n]
        /\ entities'[m] = symbol /\ written \subseteq Slots
      BY <2>1 DEF IInv, TypeOK
  <2>3. \A u \in written : Pointer(u) # Wild
      BY <2>2, Widths DEF Pointer, Wild, Slots, IInv, TypeOK
  <2>4. GarbageStays'
      BY <2>1, <2>2 DEF GarbageStays
  <2>5. ASSUME NEW n \in written, tags'[n] \in ResolvedTags,
               entities'[n] = Wild
        PROVE  \E u \in Slots \ written : tags[u] = "Utf8"
    <3>1. CASE n = m
        BY <2>1, <2>2, <2>3, <2>5, <3>1
    <3>2. CASE n # m
        BY <2>2, <2>5, <3>2 DEF WildNeedsGarbage
    <3>3. QED
        BY <3>1, <3>2
  <2>6. (\E u \in Slots \ written : tags[u] = "Utf8") =>
             \E u \in Slots \ written : tags'[u] = "Utf8"
      BY <2>1, <2>2
  <2>7. WildNeedsGarbage'
      BY <2>1, <2>5, <2>6 DEF WildNeedsGarbage, Wild, Pointer
  <2>8. QED
      BY <2>4, <2>7
<1>5. QED
    BY <1>1, <1>2, <1>3, <1>4
    DEF Next, Header, ParseMagic, ParseVersion, HeaderTruncated, Scan,
        ScanAsserts, ScanTruncated, ScanUnknown, ScanFaults, ScanEnds,
        ResolvePool, ResolvePlain, ResolveWide, ResolveChecked,
        ResolveClassIndex, ResolveStringIndex, ResolveCrashes, ResolveRejects,
        ResolveEnds, Done, vars

(* The arrays' missing initializer (ConstantPool.cpp:12) is all that is     *)
(* wrong with the verdict: were every tag of a new pool one that stands for *)
(* no kind of entry, the parser would accept well-formed pools only.        *)
THEOREM InitializedTagsSuffice ==
    ASSUME Garbage \subseteq {"None"}
    PROVE  Spec => []AcceptedPoolIsWellFormed
<1>1. Init => GarbageStays /\ WildNeedsGarbage
    BY DEF Init, GarbageStays, WildNeedsGarbage, Slots
<1>2. /\ IInv /\ HandInv /\ EntityInv /\ CheckedInv
      /\ GarbageStays /\ WildNeedsGarbage
      => AcceptedPoolIsWellFormed
  <2> SUFFICES ASSUME IInv, HandInv, EntityInv, CheckedInv,
                      GarbageStays, WildNeedsGarbage, phase = "resolved",
                      NEW n \in written, NEW r \in References(n)
               PROVE  Satisfied(r)
      BY DEF AcceptedPoolIsWellFormed, WellFormed
  <2>1. \A u \in Slots \ written : tags[u] = "None"
      BY DEF GarbageStays
  <2>2. ~Decided(r)
      BY <2>1 DEF Decided
  <2>3. CASE tags[n] \in CheckedTags
      BY <2>2, <2>3 DEF CheckedInv, SoundReferences
  <2>4. CASE tags[n] \in ResolvedTags
    <3>1. entities[n] # Wild
        BY <2>1, <2>4 DEF WildNeedsGarbage
    <3>2. PICK u \in written : tags[u] = "Utf8" /\ entities[n] = Pointer(u)
        BY <2>4, <3>1 DEF EntityInv, EntityMatchesTag
    <3>3. QED
        BY <2>4, <3>2, PointerSatisfies DEF IInv
  <2>5. CASE tags[n] \notin CheckedTags \cup ResolvedTags
      BY <2>5, NoReferences DEF HandInv, HandsOver
  <2>6. QED
      BY <2>3, <2>4, <2>5
<1>3. QED
    BY <1>1, <1>2, GarbageStep, VerdictInvariant, PTL DEF Spec

------------------------------------------------------------------------------
(* The symbol table.                                                        *)

(* What is known of a symbol: while the first pass runs its owner is a slot *)
(* that the pass has been at; some symbol of its text is in the table, and  *)
(* it is the one that is there exactly if it is the first.                  *)
SharedInv ==
    phase # "asserted" =>
        \A s \in symbols :
            /\ s.owner \in Nat
            /\ phase \in {"magic", "version", "count", "scan"} => s.owner <= i
            /\ \E t \in symbolTable : t.text = s.text
            /\ s \in symbolTable <=> IsFirst(s)

LEMMA InternShares ==
    ASSUME NEW n \in Nat, NEW text, Intern(n, text),
           symbolTable \subseteq symbols,
           \A s \in symbols :
               /\ s.owner \in Nat /\ s.owner < n
               /\ \E t \in symbolTable : t.text = s.text
               /\ s \in symbolTable <=> IsFirst(s)
    PROVE  \A s \in symbols' :
               /\ s.owner \in Nat /\ s.owner <= n
               /\ \E t \in symbolTable' : t.text = s.text
               /\ s \in symbolTable' <=> IsFirst(s)'
<1> DEFINE symbol == [owner |-> n, text |-> text]
<1>1. symbol.owner = n /\ symbol.text = text
    OBVIOUS
<1>2. /\ symbols' = symbols \cup {symbol}
      /\ symbolTable' = IF \E s \in symbolTable : s.text = text
                        THEN symbolTable ELSE symbolTable \cup {symbol}
    BY DEF Intern
<1> HIDE DEF symbol
<1>3. symbol \notin symbols
    BY <1>1
<1>4. \A s \in symbols : IsFirst(s)' <=> IsFirst(s)
  <2> SUFFICES ASSUME NEW s \in symbols PROVE IsFirst(s)' <=> IsFirst(s)
      OBVIOUS
  <2>1. s.owner <= symbol.owner
      BY <1>1
  <2>2. QED
      BY <1>2, <2>1 DEF IsFirst
<1>5. symbol \in symbolTable' <=> IsFirst(symbol)'
  <2>1. CASE \E s \in symbolTable : s.text = text
    <3>1. PICK s \in symbolTable : s.text = text
        BY <2>1
    <3>2. s \in symbols /\ ~(symbol.owner <= s.owner)
        BY <1>1
    <3>3. ~IsFirst(symbol)'
        BY <1>1, <1>2, <3>1, <3>2 DEF IsFirst
    <3>4. QED
        BY <1>2, <1>3, <2>1, <3>3
  <2>2. CASE ~ \E s \in symbolTable : s.text = text
    <3>1. \A t \in symbols : t.text # text
        BY <2>2
    <3>2. IsFirst(symbol)'
        BY <1>1, <1>2, <3>1 DEF IsFirst
    <3>3. QED
        BY <1>2, <2>2, <3>2
  <2>3. QED
      BY <2>1, <2>2
<1>6. \A s \in symbols : s \in symbolTable' <=> IsFirst(s)'
    BY <1>2, <1>3, <1>4
<1>7. \A s \in symbols' : \E t \in symbolTable' : t.text = s.text
    BY <1>1, <1>2
<1>8. \A s \in symbols' : s.owner \in Nat /\ s.owner <= n
    BY <1>1, <1>2
<1>9. \A s \in symbols' : s \in symbolTable' <=> IsFirst(s)'
  <2> SUFFICES ASSUME NEW s \in symbols' PROVE s \in symbolTable' <=> IsFirst(s)'
      OBVIOUS
  <2>1. s \in symbols \/ s = symbol
      BY <1>2
  <2>2. QED
      BY <1>5, <1>6, <2>1
<1>10. QED
    BY <1>7, <1>8, <1>9

LEMMA ScanEntryShares ==
    ASSUME IInv, SharedInv, NEW e \in Entries, ScanEntry(e)
    PROVE  SharedInv'
<1>1. IsEntry(e) /\ i \in Nat /\ i <= size /\ phase = "scan" /\ phase' = "scan"
    BY ParserAssumption, PoolAssumption
    DEF ScanEntry, Scanning, IInv, ScanInv, TypeOK
<1>2. NextSlot = i + 1 /\ NextSlot \in Nat /\ NextSlot + 1 < UInt16
    BY <1>1, NextSlotValue, PoolAssumption
    DEF IInv, TypeOK, ScanEntry, Scanning, isValidIndex
<1>3. i' \in Nat /\ i' >= NextSlot
  <2>1. (NextSlot + 1) % UInt16 = NextSlot + 1
      BY <1>2, ModBelow, PoolAssumption
  <2>2. QED
      BY <1>2, <2>1 DEF ScanEntry
<1>4. symbolTable \subseteq symbols
    BY DEF IInv, TypeOK
<1>5. CASE e.kind = "Utf8"
  <2>1. Intern(NextSlot, Text(e))
      BY <1>5 DEF ScanEntry
  <2>2. \A s \in symbols :
            /\ s.owner \in Nat /\ s.owner < NextSlot
            /\ \E t \in symbolTable : t.text = s.text
            /\ s \in symbolTable <=> IsFirst(s)
      BY <1>1, <1>2 DEF SharedInv
  <2>3. \A s \in symbols' :
            /\ s.owner \in Nat /\ s.owner <= NextSlot
            /\ \E t \in symbolTable' : t.text = s.text
            /\ s \in symbolTable' <=> IsFirst(s)'
      BY <1>2, <1>4, <2>1, <2>2, InternShares
  <2>4. QED
      BY <1>1, <1>2, <1>3, <2>3 DEF SharedInv
<1>6. CASE e.kind # "Utf8"
  <2>1. symbols' = symbols /\ symbolTable' = symbolTable
      BY <1>6 DEF ScanEntry, symbolVars
  <2>2. QED
      BY <1>1, <1>2, <1>3, <2>1 DEF SharedInv, IsFirst
<1>7. QED
    BY <1>5, <1>6

LEMMA SharedStep == IInv /\ SharedInv /\ [Next]_vars => SharedInv'
<1> SUFFICES ASSUME IInv, SharedInv, [Next]_vars PROVE SharedInv'
    OBVIOUS
<1> DEFINE Early == {"magic", "version", "count", "scan"}
<1>1. ASSUME NEW e \in Entries, ScanAsserts(e) PROVE SharedInv'
    BY <1>1 DEF ScanAsserts, End, SharedInv
<1>2. ASSUME UNCHANGED symbolVars, phase # "asserted",
             phase' \in Early => phase \in Early /\ i' = i
      PROVE  SharedInv'
    BY <1>2 DEF SharedInv, IsFirst, symbolVars
<1>3. CASE UNCHANGED vars
    BY <1>3 DEF SharedInv, IsFirst, vars, symbolVars
<1>4. CASE Header
    BY <1>2, <1>4
    DEF Header, ParseMagic, ParseVersion, ParseCount, HeaderTruncated, End
<1>5. CASE ScanFaults \/ ScanEnds
    BY <1>2, <1>5 DEF ScanFaults, ScanEnds, Scanning, End
<1>6. ASSUME NEW e \in Entries, ScanTruncated(e) \/ ScanUnknown(e)
      PROVE  SharedInv'
    BY <1>2, <1>6 DEF ScanTruncated, ScanUnknown, Scanning, End
<1>7. CASE ResolvePool
  <2>1. UNCHANGED symbolVars /\ phase = "resolve" /\ phase' \notin Early
      BY <1>7
      DEF ResolvePool, ResolvePlain, ResolveWide, ResolveChecked,
          ResolveClassIndex, ResolveStringIndex, ResolveIndex, Continue,
          ResolveCrashes, ResolveRejects, ResolveEnds, Resolving, End
  <2>2. QED
      BY <1>2, <2>1
<1>8. QED
    BY <1>1, <1>3, <1>4, <1>5, <1>6, <1>7, ScanEntryShares DEF Next, Scan, Done

(* For every file and whatever earlier classes left in the table: a name of *)
(* the pool is the symbol that other classes share exactly if no earlier    *)
(* entry or class had its text.                                             *)
THEOREM FirstSymbolIsTheShared == Spec => []OnlyFirstIsShared
<1>1. Init => SharedInv
  <2> SUFFICES ASSUME Init PROVE SharedInv
      OBVIOUS
  <2>1. symbolTable = symbols /\ i = 0
      BY DEF Init
  <2>2. \A s \in symbols : s.owner = 0
      BY DEF Init
  <2>3. QED
      BY <2>1, <2>2 DEF SharedInv, IsFirst
<1>2. SharedInv => OnlyFirstIsShared
    BY DEF SharedInv, OnlyFirstIsShared
<1>3. QED
    BY <1>1, <1>2, SharedStep, InvInvariant, PTL DEF Spec
==============================================================================
