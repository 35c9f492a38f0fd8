---------------------- MODULE ConstantPoolParserProofs ----------------------
(****************************************************************************)
(* Theorems about ConstantPoolParser, for every value of its constants.     *)
(****************************************************************************)
EXTENDS ConstantPoolParser, DivisionTheorems, TLAPS

USE DEF UInt8

(* The tags that the first pass stores are tags.                            *)
LEMMA StoredTagType ==
    ASSUME NEW e, IsEntry(e), e.kind # "Unknown"
    PROVE  StoredTag(e.kind) \in ConstantType
BY DEF IsEntry, EntryKinds, StoredTag, ConstantType, StoredTags, IndexTags,
       ReferenceTags, NumericTags, WideTags

(* What an entry occupies in the file.                                      *)
LEMMA PayloadBytesType ==
    ASSUME NEW e, IsEntry(e), e.kind # "Unknown"
    PROVE  PayloadBytes(e) \in Nat
<1>1. e.a \in Nat
    BY PoolAssumption DEF IsEntry
<1>2. QED
    BY <1>1 DEF IsEntry, EntryKinds, PayloadBytes, ReferenceTags, NumericTags,
                WideTags

(* An entity is a word.                                                     *)
LEMMA StoredEntityType ==
    ASSUME NEW e, IsEntry(e), NEW n \in Int
    PROVE  StoredEntity(n, e) \in Int
<1>1. e.a \in Int /\ e.b \in Int
    BY PoolAssumption DEF IsEntry
<1>2. Pack(e.a, e.b) \in Int /\ Pack(e.b, e.a) \in Int
    BY <1>1, PoolAssumption DEF Pack
<1>3. QED
    BY <1>1, <1>2 DEF StoredEntity, Pointer

(* Storing into a slot keeps the shape of the pool.                         *)
LEMMA PutKeepsShape ==
    ASSUME TypeOK,
           NEW n \in Slots, NEW tag \in ConstantType, NEW entity \in Int,
           putAt(n, tag, entity)
    PROVE  /\ size' = size
           /\ Slots' = Slots
           /\ tags' \in [Slots -> ConstantType]
           /\ entities' \in [Slots -> Int]
           /\ written' \subseteq Slots
BY DEF TypeOK, putAt, Slots

(* What does not touch the pool keeps its shape.                            *)
PoolShape ==
    /\ size \in 0 .. UInt16 - 1
    /\ tags \in [Slots -> ConstantType]
    /\ entities \in [Slots -> Int]
    /\ written \subseteq Slots

LEMMA UnchangedPoolKeepsShape == PoolShape /\ UNCHANGED poolVars => PoolShape'
BY DEF PoolShape, poolVars, Slots

(* Interning keeps the table among the symbols there are.                   *)
LEMMA InternKeepsTable ==
    ASSUME symbolTable \subseteq symbols, NEW n, NEW text, Intern(n, text)
    PROVE  symbolTable' \subseteq symbols'
BY DEF Intern

LEMMA NextSlotType ==
    ASSUME TypeOK, Scanning, isValidIndex(NextSlot)
    PROVE  NextSlot \in Slots
BY PoolAssumption DEF TypeOK, Scanning, isValidIndex, NextSlot, Slots

LEMMA TypeInit == Init => TypeOK
<1> SUFFICES ASSUME Init PROVE TypeOK
    OBVIOUS
<1>1. Slots = {}
    BY DEF Init, Slots
<1>2. tags \in [Slots -> ConstantType] /\ entities \in [Slots -> Int]
    BY <1>1 DEF Init
<1>3. ptr \in Nat /\ end \in 0 .. UInt32 - 1
    BY ParserAssumption DEF Init, OpenReader
<1>4. QED
    BY <1>2, <1>3, PoolAssumption DEF TypeOK, Init, Running

------------------------------------------------------------------------------
(* The type invariant.                                                      *)

LEMMA HeaderKeepsType == TypeOK /\ Header => TypeOK'
<1> SUFFICES ASSUME TypeOK, Header PROVE TypeOK'
    OBVIOUS
<1>1. ptr' \in Nat /\ end' \in 0 .. UInt32 - 1
    BY DEF TypeOK, Header, ParseMagic, ParseVersion, ParseCount,
           HeaderTruncated, Advance, readerVars
<1>2. majorVersion' \in MajorVersions \cup {0}
    BY DEF TypeOK, Header, ParseMagic, ParseVersion, ParseCount,
           HeaderTruncated
<1>3. /\ size' \in 0 .. UInt16 - 1
      /\ tags' \in [Slots' -> ConstantType]
      /\ entities' \in [Slots' -> Int]
      /\ written' \subseteq Slots'
  <2>1. CASE ParseCount
    <3>1. PICK n \in Sizes : Allocate(n)
        BY <2>1 DEF ParseCount
    <3>2. size' = n /\ n \in 0 .. UInt16 - 1 /\ Slots' = 1 .. n - 1
        BY <3>1, ParserAssumption DEF Allocate, Slots
    <3>3. tags' \in [Slots' -> ConstantType]
        BY <3>1, <3>2, PoolAssumption DEF Allocate
    <3>4. entities' \in [Slots' -> Int]
        BY <3>1, <3>2, PoolAssumption DEF Allocate, Wild, Pointer
    <3>5. QED
        BY <3>1, <3>2, <3>3, <3>4 DEF Allocate
  <2>2. CASE ~ParseCount
    <3>1. UNCHANGED poolVars
        BY <2>2 DEF Header, ParseMagic, ParseVersion, HeaderTruncated
    <3>2. QED
        BY <3>1 DEF TypeOK, poolVars, Slots
  <2>3. QED
      BY <2>1, <2>2
<1>4. phase' \in Running \cup Ended
    BY DEF Header, ParseMagic, ParseVersion, ParseCount, HeaderTruncated, End,
           Running, Ended
<1>5. i' \in 0 .. UInt16 /\ symbolTable' \subseteq symbols'
    BY DEF TypeOK, Header, ParseMagic, ParseVersion, ParseCount,
           HeaderTruncated, symbolVars
<1>6. QED
    BY <1>1, <1>2, <1>3, <1>4, <1>5 DEF TypeOK

LEMMA ScanKeepsType == TypeOK /\ Scan => TypeOK'
<1> SUFFICES ASSUME TypeOK, Scan PROVE TypeOK'
    OBVIOUS
<1>1. ASSUME NEW e \in Entries, ScanEntry(e) PROVE TypeOK'
  <2>1. IsEntry(e) /\ e.kind # "Unknown"
      BY <1>1, ParserAssumption DEF ScanEntry
  <2>2. NextSlot \in Slots /\ NextSlot \in Int
      BY <1>1, NextSlotType DEF ScanEntry, Slots
  <2>3. StoredTag(e.kind) \in ConstantType
      BY <2>1, StoredTagType
  <2>4. StoredEntity(NextSlot, e) \in Int
      BY <2>1, <2>2, StoredEntityType
  <2>5. /\ size' = size
        /\ Slots' = Slots
        /\ tags' \in [Slots -> ConstantType]
        /\ entities' \in [Slots -> Int]
        /\ written' \subseteq Slots
      BY <1>1, <2>2, <2>3, <2>4, PutKeepsShape DEF ScanEntry
  <2>6. ptr' \in Nat /\ end' = end
      BY <1>1, <2>1, PayloadBytesType DEF ScanEntry, Advance, TypeOK
  <2>7. i' \in 0 .. UInt16
      BY <1>1, <2>2, PoolAssumption DEF ScanEntry, Slots, TypeOK
  <2>8. symbolTable' \subseteq symbols'
      BY <1>1, InternKeepsTable DEF ScanEntry, TypeOK, symbolVars
  <2>9. QED
      BY <1>1, <2>5, <2>6, <2>7, <2>8 DEF ScanEntry, TypeOK
<1>2. ASSUME NEW e \in Entries, ScanAsserts(e) PROVE TypeOK'
  <2>1. IsEntry(e) /\ e.kind # "Unknown"
      BY <1>2, ParserAssumption DEF ScanAsserts
  <2>2. ptr' \in Nat
      BY <1>2, <2>1, PayloadBytesType DEF ScanAsserts, Advance, TypeOK
  <2>3. symbolTable' \subseteq symbols'
      BY <1>2, InternKeepsTable DEF ScanAsserts, TypeOK, symbolVars
  <2>4. QED
      BY <1>2, <2>2, <2>3
      DEF ScanAsserts, Advance, End, Ended, TypeOK, poolVars, Slots
<1>3. ASSUME NEW e \in Entries, ScanTruncated(e) \/ ScanUnknown(e)
      PROVE  TypeOK'
  <2>1. ptr' \in Nat
      BY <1>3 DEF ScanTruncated, ScanUnknown, Advance, TypeOK
  <2>2. QED
      BY <1>3, <2>1
      DEF ScanTruncated, ScanUnknown, Advance, End, Ended, TypeOK, poolVars,
          symbolVars, Slots
<1>4. CASE ScanFaults \/ ScanEnds
  <2>1. PoolShape'
      BY <1>4, UnchangedPoolKeepsShape DEF ScanFaults, ScanEnds, TypeOK, PoolShape
  <2>2. i' \in 0 .. UInt16 /\ phase' \in Running \cup Ended
      BY <1>4, PoolAssumption
      DEF ScanFaults, ScanEnds, End, Ended, Running, TypeOK
  <2>3. QED
      BY <1>4, <2>1, <2>2
      DEF ScanFaults, ScanEnds, TypeOK, PoolShape, readerVars, symbolVars
<1>5. QED
    BY <1>1, <1>2, <1>3, <1>4 DEF Scan

LEMMA ResolveKeepsType == TypeOK /\ ResolvePool => TypeOK'
<1> SUFFICES ASSUME TypeOK, ResolvePool PROVE TypeOK'
    OBVIOUS
<1>1. CASE ResolvePlain \/ ResolveWide \/ ResolveChecked
  <2>1. PoolShape'
      BY <1>1, UnchangedPoolKeepsShape
      DEF ResolvePlain, ResolveWide, ResolveChecked, TypeOK, PoolShape
  <2>2. i' \in 0 .. UInt16
      BY <1>1, PoolAssumption
      DEF ResolvePlain, ResolveWide, ResolveChecked, UpperHalf, Continue,
          Resolving, TypeOK
  <2>3. QED
      BY <1>1, <2>1, <2>2
      DEF ResolvePlain, ResolveWide, ResolveChecked, Continue, TypeOK,
          PoolShape, readerVars, symbolVars
<1>2. ASSUME NEW from, NEW to \in ConstantType, ResolveIndex(from, to)
      PROVE  TypeOK'
  <2>1. i + 1 \in Slots /\ getIndexAt(i + 1) \in Slots
    <3>1. i + 1 \in Slots
        BY <1>2 DEF ResolveIndex, Resolving, Slots, TypeOK
    <3>2. getIndexAt(i + 1) \in Int
        BY <3>1, PoolAssumption DEF getIndexAt, Low, TypeOK
    <3>3. QED
        BY <1>2, <3>1, <3>2
        DEF ResolveIndex, Names, isValidCpIndex, Slots, TypeOK
  <2>2. NamedSymbol(i + 1) \in Int
      BY <2>1 DEF NamedSymbol, TypeOK
  <2>3. /\ size' = size
        /\ Slots' = Slots
        /\ tags' \in [Slots -> ConstantType]
        /\ entities' \in [Slots -> Int]
        /\ written' \subseteq Slots
      BY <1>2, <2>1, <2>2, PutKeepsShape DEF ResolveIndex
  <2>4. i' \in 0 .. UInt16
      BY <1>2, PoolAssumption DEF ResolveIndex, Continue, Resolving, TypeOK
  <2>5. QED
      BY <1>2, <2>3, <2>4
      DEF ResolveIndex, Continue, TypeOK, readerVars, symbolVars
<1>3. CASE ResolveClassIndex \/ ResolveStringIndex
    BY <1>2, <1>3 DEF ResolveClassIndex, ResolveStringIndex, ConstantType,
                      StoredTags, ResolvedTags
<1>4. CASE ResolveCrashes \/ ResolveRejects \/ ResolveEnds
    BY <1>4
    DEF ResolveCrashes, ResolveRejects, ResolveEnds, End, Ended, TypeOK,
        readerVars, poolVars, symbolVars, Slots
<1>5. QED
    BY <1>1, <1>3, <1>4 DEF ResolvePool

LEMMA TypeStep == TypeOK /\ [Next]_vars => TypeOK'
<1>1. TypeOK /\ UNCHANGED vars => TypeOK'
    BY DEF TypeOK, vars, readerVars, poolVars, symbolVars, Slots
<1>2. QED
    BY <1>1, HeaderKeepsType, ScanKeepsType, ResolveKeepsType DEF Next, Done

(* Type correctness, for every file, pool and menu of entries.              *)
THEOREM TypeCorrect == Spec => []TypeOK
<1>1. Init => TypeOK
    BY TypeInit
<1>2. TypeOK /\ [Next]_vars => TypeOK'
    BY TypeStep
<1>3. QED
    BY <1>1, <1>2, PTL DEF Spec

------------------------------------------------------------------------------
(* The inductive invariant.  The slots of a pool are a chain: an entry is   *)
(* followed, after its one or two slots, by the next entry.  The first pass *)
(* builds the chain up to its counter, the second walks along it.           *)

Width(n) == IF tags[n] \in WideTags THEN 2 ELSE 1

ScannedTags == StoredTags \ ResolvedTags

HeaderInv ==
    phase \in {"magic", "version", "count"} => i = 0 /\ ptr <= end

ScanInv ==
    phase = "scan" =>
        /\ i <= size
        /\ \A n \in written :
              /\ n <= i
              /\ n + Width(n) \in written \/ n + Width(n) = i + 1
              /\ tags[n] \in ScannedTags
        /\ i = 0 => written = {}
        /\ i > 0 => 1 \in written /\ \E n \in written : n + Width(n) = i + 1

ResolveInv ==
    phase = "resolve" =>
        /\ \A n \in written :
              /\ n + Width(n) \in written \/ n + Width(n) >= size
              /\ n > i => tags[n] \in ScannedTags
        /\ i + 1 < size => i + 1 \in written

(* While the first pass has stayed in the buffer, the next tag is in it,    *)
(* unless a Class entry has just been read.                                 *)
CursorInv ==
    phase = "scan" /\ ptr >= end /\ ptr <= end =>
        i > 0 /\ tags[i] = "ClassIndex"

IInv ==
    /\ TypeOK
    /\ HeaderInv
    /\ ScanInv
    /\ ResolveInv
    /\ AssertsOnlyOnWrap
    /\ CursorInv

LEMMA RemainingInside ==
    ASSUME TypeOK, NEW p \in Nat, p <= end
    PROVE  remaining(p) = end - p
<1>1. end - p \in 0 .. UInt32 - 1
    BY UInt32Assumption DEF TypeOK
<1>2. QED
    BY <1>1, ModBelow, UInt32Assumption DEF remaining

(* The counter of the first pass is the next slot, or it wraps.             *)
LEMMA NextSlotValue ==
    ASSUME TypeOK, i <= size
    PROVE  \/ i + 1 < UInt16 /\ NextSlot = i + 1
           \/ i + 1 = UInt16 /\ NextSlot = 0
<1>1. i \in Nat /\ i + 1 <= UInt16
    BY PoolAssumption DEF TypeOK
<1>2. CASE i + 1 < UInt16
    BY <1>1, <1>2, ModBelow, PoolAssumption DEF NextSlot
<1>3. CASE i + 1 = UInt16
  <2>1. UInt16 % UInt16 = 0
      BY PoolAssumption
  <2>2. QED
      BY <1>3, <2>1 DEF NextSlot
<1>4. QED
    BY <1>1, <1>2, <1>3, PoolAssumption

(* An entry that the reader has ensured ends inside the buffer, and before  *)
(* the last byte of it unless it is a Class entry.                          *)
LEMMA EnsuredEntryEndsInside ==
    ASSUME TypeOK, NEW e, IsEntry(e), e.kind # "Unknown", ptr < end,
           EntryEnsured(ptr + 1, e)
    PROVE  /\ ptr + 1 + PayloadBytes(e) <= end
           /\ e.kind # "Class" => ptr + 1 + PayloadBytes(e) < end
<1>1. ptr \in Nat /\ end \in Nat /\ ptr + 1 <= end
    BY UInt32Assumption DEF TypeOK
<1>2. remaining(ptr + 1) = end - (ptr + 1)
    BY <1>1, RemainingInside
<1>3. CASE e.kind = "Class"
  <2>1. PayloadBytes(e) = 2
      BY <1>3 DEF PayloadBytes, ReferenceTags, WideTags
  <2>2. remaining(ptr + 1) >= 2
      BY <1>3 DEF EntryEnsured, ensure
  <2>3. QED
      BY <1>1, <1>2, <1>3, <2>1, <2>2
<1>4. CASE e.kind = "Utf8"
  <2>1. e.a \in Nat /\ PayloadBytes(e) = 2 + e.a
      BY <1>4, PoolAssumption
      DEF IsEntry, PayloadBytes, ReferenceTags, WideTags
  <2>2. remaining(ptr + 1) >= 2 /\ remaining(ptr + 3) >= e.a + 1
    <3>1. remaining(ptr + 1) >= 2 /\ remaining((ptr + 1) + 2) >= e.a + 1
        BY <1>4 DEF EntryEnsured, ensure
    <3>2. (ptr + 1) + 2 = ptr + 3
        BY <1>1
    <3>3. QED
        BY <3>1, <3>2
  <2>3. ptr + 3 <= end
      BY <1>1, <1>2, <2>2
  <2>4. remaining(ptr + 3) = end - (ptr + 3)
      BY <1>1, <2>3, RemainingInside
  <2>5. QED
      BY <1>1, <2>1, <2>2, <2>4
<1>5. CASE e.kind \notin {"Class", "Utf8"}
  <2>1. remaining(ptr + 1) >= PayloadBytes(e) + 1
      BY <1>5 DEF EntryEnsured, ensure
  <2>2. PayloadBytes(e) \in Nat
      BY PayloadBytesType
  <2>3. QED
      BY <1>1, <1>2, <2>1, <2>2
<1>6. QED
    BY <1>3, <1>4, <1>5

------------------------------------------------------------------------------
(* The inductive invariant is invariant.                                    *)

LEMMA InvInit == Init => IInv
<1> SUFFICES ASSUME Init PROVE IInv
    OBVIOUS
<1>1. TypeOK
    BY TypeInit
<1>2. phase = "magic" /\ i = 0 /\ ptr = 0
    BY DEF Init, OpenReader
<1>3. ptr <= end
    BY <1>1, <1>2, UInt32Assumption DEF TypeOK
<1>4. QED
    BY <1>1, <1>2, <1>3
    DEF IInv, HeaderInv, ScanInv, ResolveInv, AssertsOnlyOnWrap, CursorInv

(* The header leaves the cursor inside the buffer and the pool without      *)
(* entries.                                                                 *)
LEMMA HeaderKeepsInv == IInv /\ Header => IInv'
<1> SUFFICES ASSUME IInv, Header PROVE IInv'
    OBVIOUS
<1>1. TypeOK /\ TypeOK'
    BY HeaderKeepsType DEF IInv
<1>2. i = 0 /\ i' = 0 /\ ptr \in Nat /\ end \in Nat /\ ptr <= end
    BY <1>1, UInt32Assumption
    DEF IInv, HeaderInv, Header, ParseMagic, ParseVersion, ParseCount,
        HeaderTruncated, TypeOK
<1>3. remaining(ptr) = end - ptr
    BY <1>1, <1>2, RemainingInside
<1>4. CASE ParseMagic \/ ParseVersion \/ HeaderTruncated
  <2>1. ptr' <= end'
      BY <1>2, <1>3, <1>4
      DEF ParseMagic, ParseVersion, HeaderTruncated, ensure, Advance, readerVars
  <2>2. phase' \in {"version", "count", "bad_magic", "truncated"}
      BY <1>4 DEF ParseMagic, ParseVersion, HeaderTruncated, End
  <2>3. QED
      BY <1>1, <1>2, <2>1, <2>2
      DEF IInv, HeaderInv, ScanInv, ResolveInv, AssertsOnlyOnWrap, CursorInv
<1>5. CASE ParseCount
  <2>1. ptr' < end' /\ ptr' \in Nat /\ end' \in Nat
      BY <1>2, <1>3, <1>5 DEF ParseCount, ensure, Advance
  <2>2. phase' = "scan" /\ written' = {} /\ size' \in Nat
      BY <1>1, <1>5, PoolAssumption DEF ParseCount, Allocate, TypeOK
  <2>3. QED
      BY <1>1, <1>2, <2>1, <2>2
      DEF IInv, HeaderInv, ScanInv, ResolveInv, AssertsOnlyOnWrap, CursorInv
<1>6. QED
    BY <1>4, <1>5 DEF Header

(* One entry more: the chain is longer by its width.                        *)
LEMMA ScanEntryKeepsInv ==
    ASSUME IInv, NEW e \in Entries, ScanEntry(e)
    PROVE  IInv'
<1>1. TypeOK /\ TypeOK'
  <2>1. Scan
      BY DEF Scan, ScanEntry
  <2>2. QED
      BY <2>1, ScanKeepsType DEF IInv
<1>2. IsEntry(e) /\ e.kind # "Unknown" /\ phase = "scan" /\ phase' = "scan"
    BY ParserAssumption DEF ScanEntry, Scanning
<1>3. i <= size /\ i \in Nat /\ size \in Nat /\ size <= UInt16 - 1
    BY <1>1, <1>2, PoolAssumption DEF IInv, ScanInv, TypeOK
<1> PICK m \in Nat : m = i + 1
    BY <1>3
<1>4. NextSlot = m /\ m < size
    BY <1>1, <1>3, NextSlotValue DEF ScanEntry, Scanning, isValidIndex
<1>5. /\ m \in Slots /\ size' = size
      /\ tags' = [tags EXCEPT ![m] = StoredTag(e.kind)]
      /\ written' = written \cup {m}
    BY <1>3, <1>4 DEF ScanEntry, putAt, Slots
<1>6. /\ tags'[m] = StoredTag(e.kind)
      /\ \A n \in written : n # m => tags'[n] = tags[n]
    BY <1>1, <1>5 DEF TypeOK
<1>7. StoredTag(e.kind) \in ScannedTags
    BY <1>2 DEF IsEntry, EntryKinds, StoredTag, ScannedTags, StoredTags,
                IndexTags, ResolvedTags, ReferenceTags, NumericTags, WideTags
<1>8. /\ e.kind \in WideTags => StoredTag(e.kind) \in WideTags /\ i' = m + 1
      /\ e.kind \notin WideTags => StoredTag(e.kind) \notin WideTags /\ i' = m
  <2>1. m + 1 \in 0 .. UInt16 - 1
      BY <1>3, <1>4, PoolAssumption
  <2>2. (NextSlot + 1) % UInt16 = m + 1
      BY <1>4, <2>1, ModBelow, PoolAssumption
  <2>3. QED
      BY <1>4, <2>2 DEF ScanEntry, StoredTag, WideTags
<1>9. m + Width(m)' = i' + 1
    BY <1>3, <1>6, <1>8 DEF Width
<1>10. ScanInv'
  <2>1. i' <= size' /\ i' > 0 /\ i' \in Nat
      BY <1>3, <1>4, <1>5, <1>8
  <2>2. ASSUME NEW n \in written'
        PROVE  /\ n <= i'
               /\ n + Width(n)' \in written' \/ n + Width(n)' = i' + 1
               /\ tags'[n] \in ScannedTags
    <3>1. CASE n = m
        BY <1>3, <1>6, <1>7, <1>8, <1>9, <3>1
    <3>2. CASE n # m
      <4>1. n \in written /\ n \in Nat /\ Width(n)' = Width(n)
          BY <1>1, <1>5, <1>6, <2>2, <3>2 DEF Width, TypeOK, Slots
      <4>2. /\ n <= i
            /\ n + Width(n) \in written \/ n + Width(n) = m
            /\ tags[n] \in ScannedTags
          BY <1>2, <4>1 DEF IInv, ScanInv
      <4>3. QED
          BY <1>3, <1>5, <1>6, <1>8, <3>2, <4>1, <4>2
    <3>3. QED
        BY <3>1, <3>2
  <2>3. 1 \in written'
      BY <1>2, <1>3, <1>5 DEF IInv, ScanInv
  <2>4. QED
      BY <1>5, <1>9, <2>1, <2>2, <2>3 DEF ScanInv
<1>11. CursorInv'
  <2>1. CASE ptr < end
    <3>1. /\ ptr' <= end'
          /\ e.kind # "Class" => ptr' < end'
      <4>1. /\ ptr + 1 + PayloadBytes(e) <= end
            /\ e.kind # "Class" => ptr + 1 + PayloadBytes(e) < end
          BY <1>1, <1>2, <2>1, EnsuredEntryEndsInside DEF ScanEntry
      <4>2. ptr' = ptr + 1 + PayloadBytes(e) /\ end' = end
          BY <1>1, <1>2, PayloadBytesType DEF ScanEntry, Advance, TypeOK
      <4>3. QED
          BY <4>1, <4>2
    <3>2. e.kind = "Class" => i' > 0 /\ tags'[i'] = "ClassIndex"
        BY <1>3, <1>6, <1>8 DEF StoredTag, WideTags
    <3>3. QED
        BY <1>1, <3>1, <3>2, UInt32Assumption DEF CursorInv, TypeOK
  <2>2. CASE ptr >= end
    <3>1. ptr' > end'
        BY <1>1, <1>2, <2>2, PayloadBytesType, UInt32Assumption
        DEF ScanEntry, Advance, TypeOK
    <3>2. QED
        BY <1>1, <3>1, UInt32Assumption DEF CursorInv, TypeOK
  <2>3. QED
      BY <1>1, <2>1, <2>2, UInt32Assumption DEF TypeOK
<1>12. QED
    BY <1>1, <1>2, <1>10, <1>11
    DEF IInv, HeaderInv, ResolveInv, AssertsOnlyOnWrap

(* The assertion fails only where the counter has wrapped: the chain then   *)
(* ends at UInt16, which takes a wide entry in the last slot.               *)
LEMMA ScanAssertsKeepsInv ==
    ASSUME IInv, NEW e \in Entries, ScanAsserts(e)
    PROVE  IInv'
<1>1. TypeOK /\ TypeOK'
  <2>1. Scan
      BY DEF Scan, ScanAsserts
  <2>2. QED
      BY <2>1, ScanKeepsType DEF IInv
<1>2. /\ phase = "scan" /\ phase' = "asserted"
      /\ size' = size /\ tags' = tags /\ written' = written
    BY DEF ScanAsserts, Scanning, End, poolVars
<1>3. i <= size /\ i \in Nat /\ size \in Nat /\ size <= UInt16 - 1
    BY <1>1, <1>2, PoolAssumption DEF IInv, ScanInv, TypeOK
<1>4. i + 1 = UInt16
    BY <1>1, <1>3, NextSlotValue DEF ScanAsserts, Scanning, isValidIndex
<1>5. size = UInt16 - 1 /\ i > 0
    BY <1>3, <1>4, PoolAssumption
<1>6. PICK n \in written : n + Width(n) = i + 1
    BY <1>2, <1>5 DEF IInv, ScanInv
<1>7. n \in Nat /\ n <= size - 1
    BY <1>1, <1>3 DEF TypeOK, Slots
<1>8. n = size - 1 /\ tags[n] \in WideTags
    BY <1>3, <1>4, <1>5, <1>6, <1>7 DEF Width
<1>9. AssertsOnlyOnWrap'
    BY <1>2, <1>5, <1>6, <1>8 DEF AssertsOnlyOnWrap
<1>10. QED
    BY <1>1, <1>2, <1>9 DEF IInv, HeaderInv, ScanInv, ResolveInv, CursorInv

(* The second pass starts where the first did.                              *)
LEMMA ScanEndsKeepsInv == IInv /\ ScanEnds => IInv'
<1> SUFFICES ASSUME IInv, ScanEnds PROVE IInv'
    OBVIOUS
<1>1. TypeOK /\ TypeOK'
    BY ScanKeepsType DEF IInv, Scan
<1>2. /\ phase = "scan" /\ phase' = "resolve" /\ i' = 0
      /\ size' = size /\ tags' = tags /\ written' = written
    BY DEF ScanEnds, poolVars
<1>3. i <= size /\ i \in Nat /\ size \in Nat /\ size <= UInt16 - 1
    BY <1>1, <1>2, PoolAssumption DEF IInv, ScanInv, TypeOK
<1>4. i + 1 >= size
    BY <1>1, <1>3, NextSlotValue, PoolAssumption DEF ScanEnds
<1>5. ASSUME NEW n \in written
      PROVE  /\ n + Width(n) \in written \/ n + Width(n) >= size
             /\ tags[n] \in ScannedTags
    BY <1>2, <1>3, <1>4 DEF IInv, ScanInv
<1>6. 1 < size => 1 \in written
    BY <1>2, <1>3, <1>4 DEF IInv, ScanInv
<1>7. ResolveInv'
    BY <1>2, <1>5, <1>6 DEF ResolveInv, Width
<1>8. QED
    BY <1>1, <1>2, <1>7
    DEF IInv, HeaderInv, ScanInv, AssertsOnlyOnWrap, CursorInv

LEMMA ScanKeepsInv == IInv /\ Scan => IInv'
<1> SUFFICES ASSUME IInv, Scan PROVE IInv'
    OBVIOUS
<1>1. ASSUME \/ \E e \in Entries : ScanTruncated(e) \/ ScanUnknown(e)
             \/ ScanFaults
      PROVE  IInv'
  <2>1. TypeOK'
      BY <1>1, ScanKeepsType DEF IInv
  <2>2. phase' \in {"truncated", "bad_tag", "crashed"}
      BY <1>1 DEF ScanTruncated, ScanUnknown, ScanFaults, End
  <2>3. QED
      BY <2>1, <2>2
      DEF IInv, HeaderInv, ScanInv, ResolveInv, AssertsOnlyOnWrap, CursorInv
<1>2. QED
    BY <1>1, ScanEntryKeepsInv, ScanAssertsKeepsInv, ScanEndsKeepsInv DEF Scan

(* The second pass goes on at the next entry of the chain.                  *)
LEMMA ResolveKeepsInv == IInv /\ ResolvePool => IInv'
<1> SUFFICES ASSUME IInv, ResolvePool PROVE IInv'
    OBVIOUS
<1>1. TypeOK /\ TypeOK'
    BY ResolveKeepsType DEF IInv
<1>2. CASE ResolveCrashes \/ ResolveRejects \/ ResolveEnds
  <2>1. phase' \in {"crashed", "bad_reference", "resolved"}
      BY <1>2 DEF ResolveCrashes, ResolveRejects, ResolveEnds, End
  <2>2. QED
      BY <1>1, <2>1
      DEF IInv, HeaderInv, ScanInv, ResolveInv, AssertsOnlyOnWrap, CursorInv
<1>3. CASE ~(ResolveCrashes \/ ResolveRejects \/ ResolveEnds)
  <2>1. /\ phase = "resolve" /\ phase' = "resolve"
        /\ i + 1 < size /\ i \in Nat /\ size \in Nat
      BY <1>1, <1>3
      DEF ResolvePool, ResolvePlain, ResolveWide, ResolveChecked,
          ResolveClassIndex, ResolveStringIndex, ResolveIndex, Resolving,
          Continue, TypeOK
  <2> PICK m \in Nat : m = i + 1
      BY <2>1
  <2>2. /\ m \in written /\ m \in Slots
        /\ tags[m] \in ScannedTags
        /\ m + Width(m) \in written \/ m + Width(m) >= size
      BY <1>1, <2>1 DEF IInv, ResolveInv, TypeOK
  <2> DEFINE Follows ==
        /\ size' = size /\ written' = written
        /\ i' + 1 = m + Width(m)
        /\ \A n \in written : /\ Width(n)' = Width(n)
                              /\ n # m => tags'[n] = tags[n]
  <2>3. Follows
    <3>1. CASE ResolvePlain \/ ResolveWide \/ ResolveChecked
      <4>1. poolVars' = poolVars
          BY <3>1 DEF ResolvePlain, ResolveWide, ResolveChecked
      <4>2. i' + 1 = m + Width(m)
          BY <2>1, <3>1
          DEF ResolvePlain, ResolveWide, ResolveChecked, Width, Continue,
              UpperHalf, CheckedTags, ReferenceTags, WideTags
      <4>3. QED
          BY <4>1, <4>2 DEF poolVars, Width
    <3>2. ASSUME NEW from, from \notin WideTags,
                 NEW to, to \notin WideTags,
                 ResolveIndex(from, to)
          PROVE  Follows
      <4>1. /\ size' = size /\ written' = written /\ i' = m
            /\ tags[m] = from
            /\ tags' = [tags EXCEPT ![m] = to]
          BY <2>2, <3>2 DEF ResolveIndex, putAt, Continue
      <4>2. /\ tags'[m] = to
            /\ \A n \in written : n # m => tags'[n] = tags[n]
          BY <1>1, <2>2, <4>1 DEF TypeOK
      <4>3. \A n \in written : Width(n)' = Width(n)
          BY <3>2, <4>1, <4>2 DEF Width
      <4>4. QED
          BY <3>2, <4>1, <4>2, <4>3 DEF Width
    <3>3. QED
        BY <1>3, <3>1, <3>2
        DEF ResolvePool, ResolveClassIndex, ResolveStringIndex, WideTags
  <2>4. i' >= m /\ i' \in Nat
    <3>1. i' \in Nat
        BY <1>1, PoolAssumption DEF TypeOK
    <3>2. Width(m) \in 1 .. 2
        BY DEF Width
    <3>3. i' + 1 = m + Width(m)
        BY <2>3
    <3>4. QED
        BY <3>1, <3>2, <3>3
  <2>5. ResolveInv'
    <3>1. ASSUME NEW n \in written'
          PROVE  /\ n + Width(n)' \in written' \/ n + Width(n)' >= size'
                 /\ n > i' => tags'[n] \in ScannedTags
      <4>1. n \in written /\ n \in Nat
          BY <1>1, <2>3 DEF TypeOK, Slots
      <4>2. /\ n + Width(n) \in written \/ n + Width(n) >= size
            /\ n > i => tags[n] \in ScannedTags
          BY <2>1, <4>1 DEF IInv, ResolveInv
      <4>3. n > i' => n # m /\ n > i
          BY <2>1, <2>4, <4>1
      <4>4. QED
          BY <2>3, <4>1, <4>2, <4>3
    <3>2. i' + 1 < size' => i' + 1 \in written'
        BY <2>1, <2>2, <2>3, <2>4 DEF Width
    <3>3. QED
        BY <3>1, <3>2 DEF ResolveInv
  <2>6. QED
      BY <1>1, <2>1, <2>5
      DEF IInv, HeaderInv, ScanInv, AssertsOnlyOnWrap, CursorInv
<1>4. QED
    BY <1>2, <1>3

LEMMA InvStep == IInv /\ [Next]_vars => IInv'
<1>1. IInv /\ UNCHANGED vars => IInv'
  <2> SUFFICES ASSUME IInv, UNCHANGED vars PROVE IInv'
      OBVIOUS
  <2>1. TypeOK'
      BY TypeStep DEF IInv
  <2>2. QED
      BY <2>1
      DEF IInv, HeaderInv, ScanInv, ResolveInv, AssertsOnlyOnWrap, CursorInv,
          Width, vars, readerVars, poolVars, symbolVars
<1>2. QED
    BY <1>1, HeaderKeepsInv, ScanKeepsInv, ResolveKeepsInv DEF Next, Done

LEMMA InvInvariant == Spec => []IInv
BY InvInit, InvStep, PTL DEF Spec

------------------------------------------------------------------------------
(* What the invariant is for.                                               *)

(* No UNREACHABLE() case of the second pass is reached, whatever the file   *)
(* and the uninitialized memory hold: the walk of the second pass stays on  *)
(* the chain that the first has built.                                      *)
THEOREM UnreachableIsUnreachable == Spec => []NoUnreachableCase
<1>1. IInv => NoUnreachableCase
  <2> SUFFICES ASSUME IInv, Resolving PROVE NoUnreachableCase
      BY DEF NoUnreachableCase
  <2>1. i \in Int
      BY PoolAssumption DEF IInv, TypeOK
  <2>2. i + 1 \in written /\ tags[i + 1] \in ScannedTags
      BY <2>1 DEF IInv, ResolveInv, Resolving
  <2>3. QED
      BY <2>2
      DEF NoUnreachableCase, ScannedTags, StoredTags, IndexTags, ResolvedTags,
          ReferenceTags, NumericTags, WideTags
<1>2. QED
    BY <1>1, InvInvariant, PTL

(* The pool's assertion fails only when the counter wraps: one file shape,  *)
(* for any width of the counter.                                            *)
THEOREM AssertionNeedsWrap == Spec => []AssertsOnlyOnWrap
<1>1. IInv => AssertsOnlyOnWrap
    BY DEF IInv
<1>2. QED
    BY <1>1, InvInvariant, PTL

(* The parser leaves the buffer nowhere but after a Class entry, for files  *)
(* of every length and any mixture of entries.                              *)
THEOREM CursorStaysInside == Spec => LeavesBufferOnlyAfterClass
<1> DEFINE Leaves ==
        ptr <= end /\ ptr' > end => ptr = end /\ i > 0 /\ tags[i] = "ClassIndex"
<1>1. ASSUME IInv, [Next]_vars PROVE [Leaves]_vars
  <2> SUFFICES ASSUME ptr <= end, ptr' > end
               PROVE  ptr = end /\ i > 0 /\ tags[i] = "ClassIndex"
      OBVIOUS
  <2>1. TypeOK /\ ptr \in Nat /\ ptr' \in Nat /\ end \in Nat
      BY <1>1, TypeStep, UInt32Assumption DEF IInv, TypeOK
  <2>2. ptr' # ptr
      BY <2>1
  <2>3. CASE Header
    <3>1. remaining(ptr) = end - ptr
        BY <2>1, RemainingInside
    <3>2. ptr' <= end
        BY <2>1, <2>3, <3>1
        DEF Header, ParseMagic, ParseVersion, ParseCount, HeaderTruncated,
            ensure, Advance, readerVars
    <3>3. QED
        BY <2>1, <3>2
  <2>4. ASSUME NEW e \in Entries,
               \/ ScanEntry(e) \/ ScanAsserts(e)
               \/ ScanTruncated(e) \/ ScanUnknown(e)
        PROVE  ptr >= end
    <3> SUFFICES ASSUME ptr < end PROVE ptr' <= end
        BY <2>1
    <3>1. IsEntry(e)
        BY ParserAssumption
    <3>2. CASE ScanEntry(e) \/ ScanAsserts(e)
      <4>1. e.kind # "Unknown" /\ EntryEnsured(ptr + 1, e)
          BY <3>2 DEF ScanEntry, ScanAsserts
      <4>2. ptr + 1 + PayloadBytes(e) <= end /\ PayloadBytes(e) \in Nat
          BY <2>1, <3>1, <4>1, EnsuredEntryEndsInside, PayloadBytesType
      <4>3. e.kind = "Utf8" => 2 <= PayloadBytes(e)
          BY <3>1, PoolAssumption
          DEF IsEntry, PayloadBytes, ReferenceTags, WideTags
      <4>4. QED
          BY <2>1, <3>2, <4>2, <4>3 DEF ScanEntry, ScanAsserts, Advance
    <3>3. CASE ScanTruncated(e) \/ ScanUnknown(e)
      <4>1. remaining(ptr + 1) = end - (ptr + 1)
          BY <2>1, RemainingInside
      <4>2. QED
          BY <2>1, <3>3, <4>1 DEF ScanTruncated, ScanUnknown, Advance, ensure
    <3>4. QED
        BY <2>4, <3>2, <3>3
  <2>5. CASE Scan
    <3>1. PICK e \in Entries : \/ ScanEntry(e) \/ ScanAsserts(e)
                              \/ ScanTruncated(e) \/ ScanUnknown(e)
        BY <2>2, <2>5 DEF Scan, ScanFaults, ScanEnds, readerVars
    <3>2. phase = "scan"
        BY <3>1 DEF ScanEntry, ScanAsserts, ScanTruncated, ScanUnknown, Scanning
    <3>3. ptr >= end
        BY <2>4, <3>1
    <3>4. QED
        BY <1>1, <2>1, <3>2, <3>3 DEF IInv, CursorInv
  <2>6. CASE ResolvePool \/ Done \/ UNCHANGED vars
      BY <2>2, <2>6
      DEF ResolvePool, ResolvePlain, ResolveWide, ResolveChecked,
          ResolveClassIndex, ResolveStringIndex, ResolveIndex, ResolveCrashes,
          ResolveRejects, ResolveEnds, Continue, Done, vars, readerVars
  <2>7. QED
      BY <1>1, <2>3, <2>5, <2>6 DEF Next
<1>2. QED
    BY <1>1, InvInvariant, PTL DEF Spec, LeavesBufferOnlyAfterClass
------------------------------------------------------------------------------
(* What the second pass leaves.  A slot behind its counter has a final tag, *)
(* also the one that a wide entry makes it step over: no entry is there.    *)

FinalTags == StoredTags \ IndexTags

NoPoolYet == phase \in {"magic", "version", "count"} => size = 0

UpperHalvesFree ==
    phase \in {"scan", "resolve"} =>
        \A n \in written : tags[n] \in WideTags => n + 1 \notin written

BehindIsFinal ==
    phase = "resolve" => \A n \in written : n <= i => tags[n] \in FinalTags

HandInv == NoPoolYet /\ UpperHalvesFree /\ BehindIsFinal /\ HandsOver

LEMMA HeaderKeepsHand == IInv /\ HandInv /\ Header => HandInv'
<1> SUFFICES ASSUME HandInv, Header PROVE HandInv'
    OBVIOUS
<1>1. CASE ParseCount
    BY <1>1
    DEF ParseCount, Allocate, HandInv, NoPoolYet, UpperHalvesFree,
        BehindIsFinal, HandsOver
<1>2. CASE ParseMagic \/ ParseVersion \/ HeaderTruncated
    BY <1>2
    DEF ParseMagic, ParseVersion, HeaderTruncated, End, poolVars, HandInv,
        NoPoolYet, UpperHalvesFree, BehindIsFinal, HandsOver
<1>3. QED
    BY <1>1, <1>2 DEF Header

(* An entry is stored one past the counter, where no upper half can be: the *)
(* chain of the entries ends there.                                         *)
LEMMA ScanEntryStores ==
    ASSUME IInv, NEW e \in Entries, ScanEntry(e)
    PROVE  /\ phase = "scan" /\ phase' = "scan" /\ i \in Nat
           /\ i + 1 \in Slots /\ i + 1 \notin written /\ size' = size
           /\ written' = written \cup {i + 1}
           /\ \A n \in Slots : n # i + 1 =>
                 tags'[n] = tags[n] /\ entities'[n] = entities[n]
           /\ \A n \in written : n \in Nat /\ n <= i
           /\ \A n \in written : tags[n] \in WideTags => n + 1 # i + 1
<1>1. TypeOK /\ phase = "scan" /\ phase' = "scan"
    BY DEF ScanEntry, Scanning, IInv
<1>2. i <= size /\ i \in Nat /\ size \in Nat
    BY <1>1, PoolAssumption DEF IInv, ScanInv, TypeOK
<1>3. NextSlot = i + 1 /\ i + 1 < size
    BY <1>1, <1>2, NextSlotValue DEF ScanEntry, Scanning, isValidIndex
<1>4. /\ i + 1 \in Slots /\ size' = size /\ written' = written \cup {i + 1}
      /\ tags' = [tags EXCEPT ![i + 1] = StoredTag(e.kind)]
      /\ entities' = [entities EXCEPT ![i + 1] = StoredEntity(i + 1, e)]
    BY <1>2, <1>3 DEF ScanEntry, putAt, Slots
<1>5. \A n \in Slots : n # i + 1 =>
          tags'[n] = tags[n] /\ entities'[n] = entities[n]
    BY <1>1, <1>4 DEF TypeOK
<1>6. \A n \in written : n \in Nat /\ n <= i
    BY <1>1 DEF IInv, ScanInv, TypeOK, Slots
<1>7. i + 1 \notin written
    BY <1>2, <1>6
<1>8. ASSUME NEW n \in written, tags[n] \in WideTags PROVE n + 1 # i + 1
  <2>1. n + 2 \in written \/ n + 2 = i + 1
      BY <1>1, <1>8 DEF IInv, ScanInv, Width
  <2>2. n + 2 <= i + 1
      BY <1>2, <1>6, <2>1
  <2>3. QED
      BY <1>2, <1>6, <2>2
<1>9. QED
    BY <1>1, <1>2, <1>4, <1>5, <1>6, <1>7, <1>8

LEMMA ScanKeepsHand == IInv /\ HandInv /\ Scan => HandInv'
<1> SUFFICES ASSUME IInv, HandInv, Scan PROVE HandInv'
    OBVIOUS
<1>1. ASSUME NEW e \in Entries, ScanEntry(e) PROVE HandInv'
  <2> PICK m \in Nat : m = i + 1
      BY <1>1, ScanEntryStores
  <2>1. /\ phase = "scan" /\ phase' = "scan" /\ m \notin written
        /\ written' = written \cup {m}
        /\ \A n \in Slots : n # m => tags'[n] = tags[n]
        /\ \A n \in written : n \in Nat /\ n < m
        /\ \A n \in written : tags[n] \in WideTags => n + 1 # m
        /\ written \subseteq Slots
      BY <1>1, ScanEntryStores DEF IInv, TypeOK
  <2>2. ASSUME NEW n \in written', tags'[n] \in WideTags
        PROVE  n + 1 \notin written'
    <3>1. CASE n = m
        BY <2>1, <3>1
    <3>2. CASE n # m
      <4>1. n \in written /\ tags[n] \in WideTags
          BY <2>1, <2>2, <3>2
      <4>2. QED
          BY <2>1, <4>1 DEF HandInv, UpperHalvesFree
    <3>3. QED
        BY <3>1, <3>2
  <2>3. QED
      BY <2>1, <2>2
      DEF HandInv, NoPoolYet, UpperHalvesFree, BehindIsFinal, HandsOver
<1>2. CASE ScanEnds
  <2>1. /\ phase = "scan" /\ phase' = "resolve" /\ i' = 0
        /\ written' = written /\ tags' = tags
      BY <1>2 DEF ScanEnds, poolVars
  <2>2. \A n \in written : n \in Nat /\ n > 0
      BY DEF IInv, TypeOK, Slots
  <2>3. QED
      BY <2>1, <2>2
      DEF HandInv, NoPoolYet, UpperHalvesFree, BehindIsFinal, HandsOver
<1>3. ASSUME \/ \E e \in Entries :
                   ScanAsserts(e) \/ ScanTruncated(e) \/ ScanUnknown(e)
             \/ ScanFaults
      PROVE  HandInv'
  <2>1. phase' \in {"asserted", "truncated", "bad_tag", "crashed"}
      BY <1>3 DEF ScanAsserts, ScanTruncated, ScanUnknown, ScanFaults, End
  <2>2. QED
      BY <2>1
      DEF HandInv, NoPoolYet, UpperHalvesFree, BehindIsFinal, HandsOver
<1>4. QED
    BY <1>1, <1>2, <1>3 DEF Scan

(* What a step of the second pass that goes on does.                        *)
LEMMA ResolveStores ==
    ASSUME IInv, ResolvePool, phase' = "resolve"
    PROVE  /\ phase = "resolve" /\ i \in Nat
           /\ i + 1 \in written /\ i + 1 \in Slots
           /\ size' = size /\ written' = written
           /\ \A n \in Slots : n # i + 1 =>
                 tags'[n] = tags[n] /\ entities'[n] = entities[n]
           /\ \/ /\ <<tags[i + 1], tags'[i + 1]>> \in
                       {<<"ClassIndex", "UnresolvedClass">>,
                        <<"StringIndex", "String">>}
                 /\ i' = i + 1
              \/ /\ tags'[i + 1] = tags[i + 1]
                 /\ entities'[i + 1] = entities[i + 1]
                 /\ tags[i + 1] \in FinalTags
                 /\ i' = i + 1 \/ (tags[i + 1] \in WideTags /\ i' = i + 2)
<1>1. TypeOK /\ phase = "resolve" /\ Resolving
    BY DEF IInv, ResolvePool, ResolvePlain, ResolveWide, ResolveChecked,
           ResolveClassIndex, ResolveStringIndex, ResolveIndex, Resolving,
           ResolveCrashes, ResolveRejects, ResolveEnds, End
<1>2. i \in Nat /\ i + 1 < size
    BY <1>1, PoolAssumption DEF TypeOK, Resolving
<1>3. i + 1 \in written /\ i + 1 \in Slots
    BY <1>1, <1>2 DEF IInv, ResolveInv, TypeOK
<1>4. CASE ResolvePlain \/ ResolveWide \/ ResolveChecked
  <2>1. /\ size' = size /\ written' = written
        /\ tags' = tags /\ entities' = entities
      BY <1>4 DEF ResolvePlain, ResolveWide, ResolveChecked, poolVars
  <2>2. i' = i + 1 \/ (tags[i + 1] \in WideTags /\ i' = i + 2)
    <3>1. CASE ResolveWide
      <4>1. tags[i + 1] \in WideTags /\ i' = (i + 1) + 1
          BY <3>1 DEF ResolveWide, UpperHalf, Continue
      <4>2. (i + 1) + 1 = i + 2
          BY <1>2
      <4>3. QED
          BY <4>1, <4>2
    <3>2. CASE ResolvePlain \/ ResolveChecked
        BY <3>2 DEF ResolvePlain, ResolveChecked, Continue
    <3>3. QED
        BY <1>4, <3>1, <3>2
  <2>3. tags[i + 1] \in ScannedTags
      BY <1>1, <1>2, <1>3 DEF IInv, ResolveInv
  <2>4. tags[i + 1] \notin IndexTags
      BY <1>4
      DEF ResolvePlain, ResolveWide, ResolveChecked, IndexTags, WideTags,
          CheckedTags, ReferenceTags
  <2>5. QED
      BY <1>1, <1>2, <1>3, <2>1, <2>2, <2>3, <2>4 DEF ScannedTags, FinalTags
<1>5. ASSUME NEW from, NEW to, ResolveIndex(from, to)
      PROVE  /\ size' = size /\ written' = written /\ i' = i + 1
             /\ tags[i + 1] = from /\ tags'[i + 1] = to
             /\ \A n \in Slots : n # i + 1 =>
                   tags'[n] = tags[n] /\ entities'[n] = entities[n]
  <2>1. /\ size' = size /\ written' = written \cup {i + 1}
        /\ tags' = [tags EXCEPT ![i + 1] = to]
        /\ entities' = [entities EXCEPT ![i + 1] = NamedSymbol(i + 1)]
        /\ i' = i + 1 /\ tags[i + 1] = from
      BY <1>5 DEF ResolveIndex, putAt, Continue
  <2>2. QED
      BY <1>1, <1>3, <2>1 DEF TypeOK
<1>6. CASE ResolveClassIndex \/ ResolveStringIndex
    BY <1>1, <1>2, <1>3, <1>5, <1>6 DEF ResolveClassIndex, ResolveStringIndex
<1>7. CASE ResolveCrashes \/ ResolveRejects \/ ResolveEnds
    BY <1>7 DEF ResolveCrashes, ResolveRejects, ResolveEnds, End
<1>8. QED
    BY <1>4, <1>6, <1>7 DEF ResolvePool

LEMMA ResolveKeepsHand == IInv /\ HandInv /\ ResolvePool => HandInv'
<1> SUFFICES ASSUME IInv, HandInv, ResolvePool PROVE HandInv'
    OBVIOUS
<1>1. CASE phase' = "resolve"
  <2> PICK m \in Nat : m = i + 1
      BY <1>1, ResolveStores
  <2>1. /\ phase = "resolve" /\ i \in Nat /\ m \in written
        /\ written' = written /\ written \subseteq Slots
        /\ \A n \in written : n # m => tags'[n] = tags[n]
        /\ tags'[m] \in FinalTags
        /\ tags'[m] \in WideTags => tags[m] \in WideTags
        /\ i' = m \/ (tags[m] \in WideTags /\ i' = m + 1)
    <3>1. /\ phase = "resolve" /\ i \in Nat /\ m \in written
          /\ written' = written /\ written \subseteq Slots
          /\ \A n \in written : n # m => tags'[n] = tags[n]
      <4>1. /\ phase = "resolve" /\ i \in Nat /\ m \in written
            /\ written' = written
            /\ \A n \in Slots : n # m => tags'[n] = tags[n]
          BY <1>1, ResolveStores
      <4>2. written \subseteq Slots
          BY DEF IInv, TypeOK
      <4>3. QED
          BY <4>1, <4>2
    <3>2. CASE tags'[m] \in {"UnresolvedClass", "String"} /\ i' = m
        BY <3>1, <3>2
        DEF FinalTags, StoredTags, IndexTags, ResolvedTags, WideTags
    <3>3. CASE /\ tags'[m] = tags[m] /\ tags[m] \in FinalTags
               /\ i' = i + 1 \/ (tags[m] \in WideTags /\ i' = i + 2)
        BY <3>1, <3>3
    <3>4. \/ tags'[m] \in {"UnresolvedClass", "String"} /\ i' = m
          \/ /\ tags'[m] = tags[m] /\ tags[m] \in FinalTags
             /\ i' = i + 1 \/ (tags[m] \in WideTags /\ i' = i + 2)
        BY <1>1, ResolveStores
    <3>5. QED
        BY <3>2, <3>3, <3>4
  <2>2. UpperHalvesFree'
      BY <2>1 DEF HandInv, UpperHalvesFree
  <2>3. ASSUME NEW n \in written, n <= i' PROVE tags'[n] \in FinalTags
    <3>1. n \in Nat
        BY <2>1 DEF Slots
    <3>2. n # m + 1 \/ i' = m
        BY <2>1 DEF HandInv, UpperHalvesFree
    <3>3. n = m \/ n <= i
        BY <2>1, <2>3, <3>1, <3>2
    <3>4. QED
        BY <2>1, <3>1, <3>3 DEF HandInv, BehindIsFinal
  <2>4. QED
      BY <1>1, <2>1, <2>2, <2>3 DEF HandInv, NoPoolYet, BehindIsFinal, HandsOver
<1>2. CASE ResolveEnds
  <2>1. /\ phase = "resolve" /\ phase' = "resolved" /\ i + 1 >= size
        /\ written' = written /\ tags' = tags
      BY <1>2 DEF ResolveEnds, End, poolVars
  <2>2. i \in Int /\ size \in Int /\ written \subseteq 1 .. size - 1
      BY PoolAssumption DEF IInv, TypeOK, Slots
  <2>3. \A n \in written : n <= i
      BY <2>1, <2>2
  <2>4. HandsOver'
      BY <2>1, <2>3 DEF HandInv, BehindIsFinal, HandsOver, FinalTags
  <2>5. QED
      BY <2>1, <2>4 DEF HandInv, NoPoolYet, UpperHalvesFree, BehindIsFinal
<1>3. CASE ResolveCrashes \/ ResolveRejects
  <2>1. phase' \in {"crashed", "bad_reference"}
      BY <1>3 DEF ResolveCrashes, ResolveRejects, End
  <2>2. QED
      BY <2>1
      DEF HandInv, NoPoolYet, UpperHalvesFree, BehindIsFinal, HandsOver
<1>4. CASE ~(ResolveEnds \/ ResolveCrashes \/ ResolveRejects)
  <2>1. phase' = "resolve"
      BY <1>4
      DEF ResolvePool, ResolvePlain, ResolveWide, ResolveChecked,
          ResolveClassIndex, ResolveStringIndex, ResolveIndex, Resolving,
          Continue
  <2>2. QED
      BY <1>1, <2>1
<1>5. QED
    BY <1>2, <1>3, <1>4

LEMMA HandInvariant == Spec => [](IInv /\ HandInv)
<1>1. Init => HandInv
    BY DEF Init, HandInv, NoPoolYet, UpperHalvesFree, BehindIsFinal, HandsOver
<1>2. IInv /\ HandInv /\ [Next]_vars => HandInv'
  <2>1. HandInv /\ UNCHANGED vars => HandInv'
      BY DEF HandInv, NoPoolYet, UpperHalvesFree, BehindIsFinal, HandsOver,
             vars, poolVars
  <2>2. QED
      BY <2>1, HeaderKeepsHand, ScanKeepsHand, ResolveKeepsHand DEF Next, Done
<1>3. QED
    BY <1>1, <1>2, InvInit, InvStep, PTL DEF Spec

(* Every entry of an accepted pool has its final tag: what the parse of the *)
(* class body starts from, for every file.                                  *)
THEOREM PoolIsHandedOver == Spec => []HandsOver
<1>1. HandInv => HandsOver
    BY DEF HandInv
<1>2. QED
    BY <1>1, HandInvariant, PTL

(* No pass stores to a slot twice, or to one that is not its own to store.  *)
THEOREM SlotsAreStoredOnce == Spec => SlotLifecycle
<1> DEFINE Changes(n) == <<tags[n], entities[n]>>' # <<tags[n], entities[n]>>
           Allowed(n) ==
              \/ phase = "scan" /\ n \notin written
              \/ /\ phase = "resolve" /\ n \in written
                 /\ <<tags[n], tags'[n]>> \in
                       {<<"ClassIndex", "UnresolvedClass">>,
                        <<"StringIndex", "String">>}
           Lifecycle ==
              \A n \in Slots : size' = size /\ Changes(n) => Allowed(n)
<1>1. ASSUME IInv, HandInv, [Next]_vars PROVE [Lifecycle]_vars
  <2> SUFFICES ASSUME NEW n \in Slots, size' = size, Changes(n)
               PROVE  Allowed(n)
      OBVIOUS
  <2>1. ~(UNCHANGED poolVars)
      BY DEF poolVars
  <2>2. CASE ParseCount
    <3>1. size = 0
        BY <1>1, <2>2 DEF ParseCount, HandInv, NoPoolYet
    <3>2. QED
        BY <3>1 DEF Slots
  <2>3. ASSUME NEW e \in Entries, ScanEntry(e) PROVE Allowed(n)
      BY <1>1, <2>3, ScanEntryStores
  <2>4. CASE ResolvePool
    <3>1. phase' = "resolve"
        BY <2>1, <2>4
        DEF ResolvePool, ResolvePlain, ResolveWide, ResolveChecked,
            ResolveClassIndex, ResolveStringIndex, ResolveIndex, Resolving,
            ResolveCrashes, ResolveRejects, ResolveEnds, Continue
    <3>2. QED
        BY <1>1, <2>4, <3>1, ResolveStores
  <2>5. QED
      BY <1>1, <2>1, <2>2, <2>3, <2>4
      DEF Next, Header, ParseMagic, ParseVersion, HeaderTruncated, Scan,
          ScanAsserts, ScanTruncated, ScanUnknown, ScanFaults, ScanEnds, Done,
          vars
<1>2. QED
    BY <1>1, HandInvariant, PTL DEF Spec, SlotLifecycle

(* Every step brings the parse nearer to its end, for files and pools of    *)
(* every size.                                                              *)
THEOREM ParseMovesOn == Spec => EveryStepMovesOn
<1> DEFINE Moves == \/ phase' \in Ended
                    \/ Rank[phase'] > Rank[phase]
                    \/ phase' = phase /\ i' > i
<1>1. ASSUME IInv, [Next]_vars PROVE [Moves]_vars
  <2>1. CASE Header
      BY <2>1
      DEF Header, ParseMagic, ParseVersion, ParseCount, HeaderTruncated, End,
          Rank, Ended
  <2>2. ASSUME NEW e \in Entries, ScanEntry(e) PROVE Moves
    <3>1. phase' = phase /\ TypeOK /\ i \in Nat
        BY <1>1, <2>2, PoolAssumption DEF IInv, TypeOK, ScanEntry
    <3>2. NextSlot = i + 1 /\ i + 1 < size
        BY <1>1, <2>2, <3>1, NextSlotValue
        DEF IInv, ScanInv, ScanEntry, Scanning, isValidIndex
    <3>3. i + 2 \in 0 .. UInt16 - 1
        BY <3>1, <3>2, PoolAssumption DEF TypeOK
    <3>4. (i + 2) % UInt16 = i + 2
        BY <3>3, ModBelow, PoolAssumption
    <3>5. i' \in {i + 1, i + 2}
      <4>1. (i + 1) + 1 = i + 2
          BY <3>1
      <4>2. QED
          BY <2>2, <3>2, <3>4, <4>1 DEF ScanEntry
    <3>6. QED
        BY <3>1, <3>5
  <2>3. ASSUME \/ \E e \in Entries :
                     ScanAsserts(e) \/ ScanTruncated(e) \/ ScanUnknown(e)
               \/ ScanFaults \/ ScanEnds
        PROVE  Moves
      BY <2>3
      DEF ScanAsserts, ScanTruncated, ScanUnknown, ScanFaults, ScanEnds, End,
          Rank, Ended
  <2>4. CASE ResolvePool
    <3>1. CASE phase' = "resolve"
        BY <1>1, <2>4, <3>1, ResolveStores
    <3>2. CASE phase' # "resolve"
        BY <2>4, <3>2
        DEF ResolvePool, ResolvePlain, ResolveWide, ResolveChecked,
            ResolveClassIndex, ResolveStringIndex, ResolveIndex, Resolving,
            Continue, ResolveCrashes, ResolveRejects, ResolveEnds, End, Ended
    <3>3. QED
        BY <3>1, <3>2
  <2>5. QED
      BY <1>1, <2>1, <2>2, <2>3, <2>4 DEF Next, Scan, Done
<1>2. QED
    BY <1>1, InvInvariant, PTL DEF Spec, EveryStepMovesOn
==============================================================================
