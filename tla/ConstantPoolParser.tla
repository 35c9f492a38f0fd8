------------------------- MODULE ConstantPoolParser -------------------------
(****************************************************************************)
(* ClassFileParser::parse() of src/src/classfile/ClassFileParser.cpp from   *)
(* the magic number to the end of parseConstantPool(): the header, the      *)
(* first pass (parseConstantPoolEntities), which reads the entries and      *)
(* fills the pool, and the second, which checks the references between      *)
(* entries and replaces the indices of classes and strings by symbols.      *)
(*                                                                          *)
(* One parser runs, on one thread.  A pass is one step per slot.  The file  *)
(* is chosen as it is read: its length when the reader opens it, an entry   *)
(* when its tag is read.  A thrown ClassFormatError, an assertion that      *)
(* aborts and a wild read that kills the process each end in a phase.       *)
(****************************************************************************)
EXTENDS ClassFileReader, ConstantPool

CONSTANTS
    Lens,           \* Lengths of class files.
    Sizes,          \* Values of constant_pool_count.
    MajorVersions,  \* Values of major_version.
    Entries,        \* The pool entries a file may hold.
    EarlierTexts    \* Texts that the symbol table holds at the start.

JAVA_8_VERSION == 52

(* An entry has the tag `kind' and operands a and b in the order of the     *)
(* file.  For Utf8, a is the length and b tells texts of one length apart.  *)
(* "Unknown" is any tag byte the parser has no case for.                    *)
EntryKinds ==
    {"Class", "String", "Utf8", "NameAndType", "MethodHandle", "MethodType",
     "InvokeDynamic", "Unknown"} \cup ReferenceTags \cup NumericTags

IsEntry(e) ==
    /\ e = [kind |-> e.kind, a |-> e.a, b |-> e.b]
    /\ e.kind \in EntryKinds
    /\ e.a \in 0 .. IF e.kind = "MethodHandle" THEN UInt8 - 1 ELSE UInt16 - 1
    /\ e.b \in 0 .. UInt16 - 1

ASSUME ParserAssumption ==
    /\ Lens \subseteq 0 .. UInt32 - 1
    /\ Sizes \subseteq 0 .. UInt16 - 1
    /\ MajorVersions \subseteq Nat
    /\ \A e \in Entries : IsEntry(e)

VARIABLES
    phase,          \* Where parse() is, or how it ended.
    i,              \* The loop counter of the pass that runs.
    majorVersion,
    symbols,        \* Every Symbol object there is: [owner, text].
    symbolTable     \* Those that the global SymbolTable holds.

symbolVars == <<symbols, symbolTable>>
vars == <<readerVars, poolVars, phase, i, majorVersion, symbolVars>>

Running == {"magic", "version", "count", "scan", "resolve"}
Ended ==
    {"resolved", "bad_magic", "truncated", "bad_tag", "bad_reference",
     "asserted", "crashed"}

(* A Symbol is named by the slot it was created for; a Symbol an earlier    *)
(* class interned has the owner 0.                                          *)
Text(e) == <<e.a, e.b>>

(* Mutant of Intern: the table is not searched.                             *)
Intern_Always(n, text) ==
    LET symbol == [owner |-> n, text |-> text]
    IN  /\ symbols' = symbols \cup {symbol}
        /\ symbolTable' = symbolTable \cup {symbol}

(* Symbol::create, then SymbolTable::putSymbol, which does nothing if an    *)
(* equal symbol is there.                                                   *)
Intern(n, text) ==
    LET symbol == [owner |-> n, text |-> text]
    IN  /\ symbols' = symbols \cup {symbol}
        /\ symbolTable' =
              IF \E s \in symbolTable : s.text = text THEN symbolTable
              ELSE symbolTable \cup {symbol}

Init ==
    /\ \E len \in Lens : OpenReader(len)
    /\ size = 0 /\ tags = <<>> /\ entities = <<>> /\ written = {}
    /\ phase = "magic"
    /\ i = 0
    /\ majorVersion = 0
    /\ symbols = {[owner |-> 0, text |-> t] : t \in EarlierTexts}
    /\ symbolTable = symbols

End(how) == phase' = how

------------------------------------------------------------------------------
(* The header.                                                              *)

ParseMagic ==
    /\ phase = "magic"
    /\ ensure(ptr, 4)
    /\ phase' \in {"version", "bad_magic"}
    /\ Advance(4)
    /\ UNCHANGED <<poolVars, i, majorVersion, symbolVars>>

ParseVersion ==
    /\ phase = "version"
    /\ ensure(ptr, 4)
    /\ phase' = "count"
    /\ majorVersion' \in MajorVersions
    /\ Advance(4)
    /\ UNCHANGED <<poolVars, i, symbolVars>>

ParseCount ==
    /\ phase = "count"
    /\ ensure(ptr, 3)
    /\ phase' = "scan"
    /\ \E n \in Sizes : Allocate(n)
    /\ Advance(2)
    /\ UNCHANGED <<i, majorVersion, symbolVars>>

HeaderTruncated ==
    /\ \/ phase \in {"magic", "version"} /\ ~ensure(ptr, 4)
       \/ phase = "count" /\ ~ensure(ptr, 3)
    /\ End("truncated")
    /\ UNCHANGED <<readerVars, poolVars, i, majorVersion, symbolVars>>

------------------------------------------------------------------------------
(* The first pass.  Its counter is a uint16_t.                              *)

NextSlot == (i + 1) % UInt16

(* Mutant of Scanning: the bound of the pool's assertion for the loop's.    *)
Scanning_Inclusive == phase = "scan" /\ NextSlot <= size

Scanning == phase = "scan" /\ NextSlot < size

(* Bytes of the entry after its tag.                                        *)
PayloadBytes(e) ==
    CASE e.kind \in {"Class", "String", "MethodType"} -> 2
      [] e.kind = "MethodHandle" -> 3
      [] e.kind \in ReferenceTags \cup {"NameAndType", "InvokeDynamic"} -> 4
      [] e.kind \in {"Integer", "Float"} -> 4
      [] e.kind \in WideTags -> 8
      [] e.kind = "Utf8" -> 2 + e.a

(* Mutant of EntryEnsured: the operands only, for every entry.              *)
EntryEnsured_NoNextTag(p, e) ==
    IF e.kind = "Utf8" THEN ensure(p, 2) /\ ensure(p + 2, e.a)
                       ELSE ensure(p, PayloadBytes(e))

(* What the parser ensures, with the cursor p after the tag: the operands   *)
(* and one byte more, the next tag.  A Class entry asks for its operand     *)
(* only, in readU16.                                                        *)
EntryEnsured(p, e) ==
    CASE e.kind = "Class" -> ensure(p, 2)
      [] e.kind = "Utf8"  -> ensure(p, 2) /\ ensure(p + 2, e.a + 1)
      [] OTHER            -> ensure(p, PayloadBytes(e) + 1)

(* Mutant of StoredTag: the tag of the file as it is.                       *)
StoredTag_Raw(kind) == kind

(* putClassIndexAt and putStringIndexAt store tags of the VM's own.         *)
StoredTag(kind) ==
    CASE kind = "Class"  -> "ClassIndex"
      [] kind = "String" -> "StringIndex"
      [] OTHER           -> kind

StoredEntity(n, e) ==
    CASE e.kind = "Utf8" -> Pointer(n)
      [] e.kind \in ReferenceTags -> Pack(e.b, e.a)
      [] e.kind \in {"NameAndType", "MethodHandle", "InvokeDynamic"} ->
            Pack(e.a, e.b)
      [] OTHER -> e.a

(* The tag is read without an ensure: when the cursor has reached the end,  *)
(* or passed it, the entry is whatever follows the buffer, or the read is   *)
(* the end of the process (ScanFaults).                                     *)
ScanEntry(e) ==
    /\ Scanning
    /\ e.kind # "Unknown"
    /\ EntryEnsured(ptr + 1, e)
    /\ isValidIndex(NextSlot)
    /\ putAt(NextSlot, StoredTag(e.kind), StoredEntity(NextSlot, e))
    /\ IF e.kind = "Utf8" THEN Intern(NextSlot, Text(e))
                          ELSE UNCHANGED symbolVars
    /\ i' = IF e.kind \in WideTags THEN (NextSlot + 1) % UInt16 ELSE NextSlot
    /\ Advance(1 + PayloadBytes(e))
    /\ UNCHANGED <<phase, majorVersion>>

(* putTagAt asserts before it stores.  A Utf8 entry is interned first.      *)
ScanAsserts(e) ==
    /\ Scanning
    /\ e.kind # "Unknown"
    /\ EntryEnsured(ptr + 1, e)
    /\ ~isValidIndex(NextSlot)
    /\ IF e.kind = "Utf8" THEN Intern(NextSlot, Text(e))
                          ELSE UNCHANGED symbolVars
    /\ End("asserted")
    /\ Advance(1 + IF e.kind = "Utf8" THEN 2 ELSE PayloadBytes(e))
    /\ UNCHANGED <<poolVars, i, majorVersion>>

ScanTruncated(e) ==
    /\ Scanning
    /\ e.kind # "Unknown"
    /\ ~EntryEnsured(ptr + 1, e)
    /\ End("truncated")
    /\ Advance(1 + IF e.kind = "Utf8" /\ ensure(ptr + 1, 2) THEN 2 ELSE 0)
    /\ UNCHANGED <<poolVars, i, majorVersion, symbolVars>>

ScanUnknown(e) ==
    /\ Scanning
    /\ e.kind = "Unknown"
    /\ End("bad_tag")
    /\ Advance(1)
    /\ UNCHANGED <<poolVars, i, majorVersion, symbolVars>>

ScanFaults ==
    /\ Scanning
    /\ ptr >= end
    /\ End("crashed")
    /\ UNCHANGED <<readerVars, poolVars, i, majorVersion, symbolVars>>

ScanEnds ==
    /\ phase = "scan"
    /\ NextSlot >= size
    /\ phase' = "resolve"
    /\ i' = 0
    /\ UNCHANGED <<readerVars, poolVars, majorVersion, symbolVars>>

------------------------------------------------------------------------------
(* The second pass.  Its counter is an int.                                 *)

Resolving == phase = "resolve" /\ i + 1 < size

(* ClassFileParser::isValidCpIndex, which is not ConstantPool's             *)
(* isValidIndex, and the tag the parser asks for.                           *)
isValidCpIndex(n) == n > 0 /\ n < size

Names(n, expected) == isValidCpIndex(n) /\ tags[n] \in expected

(* Mutants of MethodTargets: Java 8 unknown; the version not asked for.     *)
MethodTargets_Old == {"Methodref"}
MethodTargets_AnyVersion == {"Methodref", "InterfaceMethodref"}

(* Interfaces have had methods that can be invoked so since Java 8.         *)
MethodTargets ==
    IF majorVersion < JAVA_8_VERSION THEN {"Methodref"}
    ELSE {"Methodref", "InterfaceMethodref"}

(* What a method handle's kind may refer to.                                *)
HandleTargets(kind) ==
    CASE kind \in 1 .. 4    -> {"Fieldref"}
      [] kind \in {5, 8}    -> {"Methodref"}
      [] kind \in {6, 7}    -> MethodTargets
      [] kind = 9           -> {"InterfaceMethodref"}
      [] OTHER              -> {}

CheckedTags ==
    ReferenceTags \cup
    {"NameAndType", "MethodHandle", "MethodType", "InvokeDynamic"}

ChecksPass(n) ==
    \/ /\ tags[n] \in ReferenceTags
       /\ Names(getRefClassIndexAt(n), isClassOrIndex)
       /\ Names(getRefNameAndTypeIndexAt(n), {"NameAndType"})
    \/ /\ tags[n] = "NameAndType"
       /\ Names(getNameAndTypeNameIndexAt(n), {"Utf8"})
       /\ Names(getNameAndTypeDescriptorIndexAt(n), {"Utf8"})
    \/ /\ tags[n] = "MethodHandle"
       /\ Names(getMethodHandleReferenceIndexAt(n),
                HandleTargets(getMethodHandleReferenceKindAt(n)))
    \/ /\ tags[n] = "MethodType"
       /\ Names(getIndexAt(n), {"Utf8"})
    \/ /\ tags[n] = "InvokeDynamic"
       /\ Names(getInvokeDynamicNameAndTypeIndexAt(n), {"NameAndType"})

Continue(nextI) ==
    /\ i' = nextI
    /\ UNCHANGED <<readerVars, phase, majorVersion, symbolVars>>

ResolvePlain ==
    /\ Resolving
    /\ tags[i + 1] \in {"Utf8", "Unicode", "Integer", "Float"}
    /\ UNCHANGED poolVars
    /\ Continue(i + 1)

(* Mutant of UpperHalf: the upper half is taken for an entry.               *)
UpperHalf_None(n) == n

(* The slot after a Long or Double, which holds no entry.                   *)
UpperHalf(n) == n + 1

ResolveWide ==
    /\ Resolving
    /\ tags[i + 1] \in WideTags
    /\ UNCHANGED poolVars
    /\ Continue(UpperHalf(i + 1))

ResolveChecked ==
    /\ Resolving
    /\ tags[i + 1] \in CheckedTags
    /\ ChecksPass(i + 1)
    /\ UNCHANGED poolVars
    /\ Continue(i + 1)

(* Mutant of NamedSymbol: the index stays where the symbol belongs.         *)
NamedSymbol_Index(n) == entities[n]

(* getSymbolAt of the slot that n names.                                    *)
NamedSymbol(n) == entities[getIndexAt(n)]

(* getSymbolAt follows the entity of the slot the index names.  If that     *)
(* slot was never written, and its garbage tag passed for Utf8, it follows  *)
(* a wild pointer: the process dies, or the symbol is wild as well.         *)
ResolveIndex(from, to) ==
    /\ Resolving
    /\ tags[i + 1] = from
    /\ Names(getIndexAt(i + 1), {"Utf8"})
    /\ putAt(i + 1, to, NamedSymbol(i + 1))
    /\ Continue(i + 1)

(* Mutants of ResolveClassIndex: the tag is not replaced; and of            *)
(* ResolveStringIndex: the tag of the neighbouring case.                    *)
ResolveClassIndex_Kept     == ResolveIndex("ClassIndex", "ClassIndex")
ResolveStringIndex_AsClass == ResolveIndex("StringIndex", "UnresolvedClass")

ResolveClassIndex  == ResolveIndex("ClassIndex", "UnresolvedClass")
ResolveStringIndex == ResolveIndex("StringIndex", "String")

ResolveCrashes ==
    /\ Resolving
    /\ tags[i + 1] \in IndexTags
    /\ Names(getIndexAt(i + 1), {"Utf8"})
    /\ NamedSymbol(i + 1) = Wild
    /\ End("crashed")
    /\ UNCHANGED <<readerVars, poolVars, i, majorVersion, symbolVars>>

ResolveRejects ==
    /\ Resolving
    /\ \/ tags[i + 1] \in CheckedTags /\ ~ChecksPass(i + 1)
       \/ tags[i + 1] \in IndexTags /\ ~Names(getIndexAt(i + 1), {"Utf8"})
    /\ End("bad_reference")
    /\ UNCHANGED <<readerVars, poolVars, i, majorVersion, symbolVars>>

ResolveEnds ==
    /\ phase = "resolve"
    /\ i + 1 >= size
    /\ End("resolved")
    /\ UNCHANGED <<readerVars, poolVars, i, majorVersion, symbolVars>>

(* The parse is over: nothing happens any more.                             *)
Done ==
    /\ phase \in Ended
    /\ UNCHANGED vars

Header == ParseMagic \/ ParseVersion \/ ParseCount \/ HeaderTruncated

Scan ==
    \/ \E e \in Entries : \/ ScanEntry(e)
                          \/ ScanAsserts(e)
                          \/ ScanTruncated(e)
                          \/ ScanUnknown(e)
    \/ ScanFaults
    \/ ScanEnds

ResolvePool ==
    \/ ResolvePlain \/ ResolveWide \/ ResolveChecked
    \/ ResolveClassIndex \/ ResolveStringIndex
    \/ ResolveCrashes \/ ResolveRejects \/ ResolveEnds

Next == Header \/ Scan \/ ResolvePool \/ Done

(* One thread runs parse() to its end.                                      *)
Spec == Init /\ [][Next]_vars /\ WF_vars(Next)

------------------------------------------------------------------------------
(* Properties.                                                              *)

(* The type invariant: the pool's arrays have the slots the count asked     *)
(* for, an entity is never below Wild, and the counter of either pass ends  *)
(* at most one past the slot after the last.                                *)
TypeOK ==
    /\ ptr \in Nat /\ end \in 0 .. UInt32 - 1
    /\ size \in 0 .. UInt16 - 1
    /\ tags \in [Slots -> ConstantType]
    /\ entities \in [Slots -> Int]
    /\ written \subseteq Slots
    /\ phase \in Running \cup Ended
    /\ i \in 0 .. UInt16
    /\ majorVersion \in MajorVersions \cup {0}
    /\ symbolTable \subseteq symbols

(* A step moves the cursor out of the buffer only when it starts at its     *)
(* end, having just read a Class entry: every other path through the header *)
(* and the first pass has ensured the byte it is about to read.  A Class    *)
(* entry ensures its two operand bytes in readU16 and not the next tag      *)
(* (ClassFileParser.cpp:585).                                               *)
LeavesBufferOnlyAfterClass ==
    [][ptr <= end /\ ptr' > end => ptr = end /\ i > 0 /\ tags[i] = "ClassIndex"]_vars

(* An assertion of the pool stops the process in one case only: the pool    *)
(* has the largest count there is and a Long or Double in its last slot, so *)
(* that the 16-bit counter of the first pass wraps to slot 0.  No other     *)
(* file makes putTagAt's index invalid.                                     *)
AssertsOnlyOnWrap ==
    phase = "asserted" =>
        /\ size = UInt16 - 1
        /\ size - 1 \in written
        /\ tags[size - 1] \in WideTags

(* The second pass has a case for every slot it stops at: it steps over     *)
(* exactly the slots that the first pass stepped over, whatever uninitial-  *)
(* ized memory holds there, and never meets a slot it has rewritten, so     *)
(* none of its UNREACHABLE() cases is reached.                              *)
NoUnreachableCase ==
    Resolving =>
        /\ i + 1 \in written
        /\ tags[i + 1] \notin ResolvedTags \cup {"Class", "None"}

(* Tag and entity of a slot agree between any two entries, in both passes:  *)
(* a Utf8 slot points to its own symbol; a resolved slot points to the      *)
(* symbol of a Utf8 slot, or is wild because it followed an unwritten slot; *)
(* a slot that still holds indices holds no pointer.                        *)
EntityMatchesTag ==
    \A n \in written :
        /\ tags[n] = "Utf8" =>
               entities[n] = Pointer(n) /\ \E s \in symbols : s.owner = n
        /\ tags[n] \in ResolvedTags =>
               \/ entities[n] = Wild /\ written # Slots
               \/ \E u \in written : tags[u] = "Utf8" /\ entities[n] = Pointer(u)
        /\ tags[n] \in IndexTags \cup {"MethodType"} =>
               entities[n] \in 0 .. UInt16 - 1
        /\ tags[n] \in ReferenceTags \cup {"NameAndType", "InvokeDynamic"} =>
               entities[n] \in 0 .. UInt16 * UInt16 - 1

(* What parseConstantPool leaves to the rest of the parse (ClassBodyParser  *)
(* begins with it): every entry of the file has a tag whose entity is final *)
(* and no index is left to resolve, wherever in the pool the entry is and   *)
(* whichever entries the pass stepped over.                                 *)
HandsOver ==
    phase = "resolved" =>
        \A n \in written : tags[n] \in StoredTags \ IndexTags

(* What a well-formed pool is, from the declared entries alone and with no  *)
(* order of checking: each reference of an entry names an entry of one of   *)
(* the right kinds.                                                         *)
Declared(n) ==
    CASE tags[n] = "UnresolvedClass" -> "ClassIndex"
      [] tags[n] = "String"          -> "StringIndex"
      [] OTHER                       -> tags[n]

Reference(to, kinds) == [to |-> to, kinds |-> kinds]

(* What a method handle of a kind refers to.                                *)
HandleKinds(kind) ==
    {k \in ReferenceTags :
        \/ kind \in 1 .. 4 /\ k = "Fieldref"
        \/ kind \in 5 .. 8 /\ k = "Methodref"
        \/ kind = 9 /\ k = "InterfaceMethodref"
        \/ /\ kind \in {6, 7}
           /\ k = "InterfaceMethodref"
           /\ majorVersion >= JAVA_8_VERSION}

(* The slot of an entity that is resolved, or is an index still.            *)
NamedBy(entity) == IF entity < 0 THEN -entity ELSE entity

References(n) ==
    LET e == entities[n]
        kind == e \div UInt16
    IN  CASE Declared(n) \in ReferenceTags ->
               {Reference(e % UInt16, {"ClassIndex"}),
                Reference(kind, {"NameAndType"})}
          [] Declared(n) = "NameAndType" ->
               {Reference(e % UInt16, {"Utf8"}), Reference(kind, {"Utf8"})}
          [] Declared(n) \in IndexTags \cup {"MethodType"} ->
               {Reference(NamedBy(e), {"Utf8"})}
          [] Declared(n) = "InvokeDynamic" ->
               {Reference(e % UInt16, {"NameAndType"})}
          [] Declared(n) = "MethodHandle" ->
               {Reference(e % UInt16, HandleKinds(kind))}
          [] OTHER -> {}

Satisfied(r) == r.to \in written /\ Declared(r.to) \in r.kinds

WellFormed == \A n \in written : \A r \in References(n) : Satisfied(r)

(* A pool that the second pass accepts is well-formed, up to references to  *)
(* slots no entry was written to (the upper half of a Long or Double),      *)
(* whose garbage tag decides.  The pass rewrites class and string entries   *)
(* while later entries are still to be checked against them; neither that   *)
(* nor the direction of a reference changes the verdict.                    *)
AcceptsOnlyWellFormed ==
    phase = "resolved" =>
        \A n \in written : \A r \in References(n) :
            Satisfied(r) \/ r.to \in (Slots \ written) \cup {UInt16}

(* A pool that the second pass rejects is not well-formed.                  *)
RejectsOnlyIllFormed ==
    phase = "bad_reference" => ~WellFormed

(* A slot's tag is stored once by the first pass, and changed once at most  *)
(* by the second, from an index to what the index names; entries of other   *)
(* kinds, and slots no entry was written to, keep tag and entity.           *)
SlotLifecycle ==
    [][\A n \in Slots :
          size' = size /\ <<tags[n], entities[n]>>' # <<tags[n], entities[n]>> =>
              \/ phase = "scan" /\ n \notin written
              \/ /\ phase = "resolve" /\ n \in written
                 /\ <<tags[n], tags'[n]>> \in
                       {<<"ClassIndex", "UnresolvedClass">>,
                        <<"StringIndex", "String">>}]_vars

(* Names are compared as pointers (ClazzLoader.cpp:37), and an entry points *)
(* to a symbol of its own, never to an equal one that the table has         *)
(* (ClassFileParser.cpp:654).  A name of the pool, be it a Utf8 entry or a  *)
(* class or string that the second pass resolved to one, is the symbol that *)
(* other classes share through the table exactly if no earlier class and no *)
(* earlier entry had the text: of two equal names one at most is shared.    *)
IsFirst(s) == \A t \in symbols : t.text = s.text => s.owner <= t.owner

OnlyFirstIsShared ==
    phase # "asserted" =>
        \A n \in written : tags[n] \in ResolvedTags \cup {"Utf8"} =>
            \A s \in symbols :
                Pointer(s.owner) = entities[n] => (s \in symbolTable <=> IsFirst(s))

(* ensure() is there to throw "Truncated class file" (ClassFileReader.hpp   *)
(* line 21) before bytes the file does not have are read.                   *)
ReadsOnlyTheFile == ptr <= end

(* putTagAt asserts isValidIndex(index) (ConstantPool.cpp line 22).         *)
PoolIndexIsValid == phase # "asserted"

(* throwValidExceptionAssert stops an entry whose reference does not name   *)
(* an entry of the right kind (ClassFileParser.cpp lines 467 to 474).       *)
AcceptedPoolIsWellFormed == phase = "resolved" => WellFormed

(* Every step ends the parse, begins its next part, or moves the counter of *)
(* the pass on: the first pass's counter, 16 bits wide, wraps in the        *)
(* largest pools (ClassFileParser.cpp:581) but never starts the pass over.  *)
(* With TypeOK's bound on i, a parse takes at most 2 * UInt16 + 5 steps.    *)
Rank == [magic |-> 0, version |-> 1, count |-> 2, scan |-> 3, resolve |-> 4]

EveryStepMovesOn ==
    [][\/ phase' \in Ended
       \/ Rank[phase'] > Rank[phase]
       \/ phase' = phase /\ i' > i]_vars

(* The parse ends: each pass moves forward in every step, and the wrapped   *)
(* counter of the first pass does not start it over.                        *)
Terminates == <>(phase \in Ended)
==============================================================================
