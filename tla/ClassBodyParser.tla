-------------------------- MODULE ClassBodyParser --------------------------
(****************************************************************************)
(* ClassFileParser::parse() of src/src/classfile/ClassFileParser.cpp from   *)
(* the end of parseConstantPool() to its return: flags and names of the     *)
(* class, interfaces, fields, their attributes, and the annotations in      *)
(* these, whose element values nest.                                        *)
(*                                                                          *)
(* The nested loops and recursive calls of the code are a stack of frames,  *)
(* innermost first: a frame is a loop that has `left' iterations to go.  A  *)
(* step is one iteration, up to the loop it enters, or the end of a loop.   *)
(*                                                                          *)
(* - The pool is what an accepted constant pool looks like                  *)
(*   (ConstantPoolParser!HandsOver); it does not change any more.  A slot   *)
(*   that no entry was written to has a garbage tag, and a pointer read     *)
(*   from it is wild: it leads to any text, or to the end of the process.   *)
(*   So does that of a class whose name is in such a slot.                  *)
(* - ptr and end count from the first byte after the pool.  The parser has  *)
(*   not left the buffer there (if it has, see                              *)
(*   ConstantPoolParser!LeavesBufferOnlyAfterClass, no ensure helps any     *)
(*   more).  Bytes are chosen as they are read.                             *)
(* - A throw destroys the parser, so it leaves the cursor where it was.     *)
(*   What nothing reads afterwards (the vector of interfaces, the values    *)
(*   of constants, the attributes found) is left out.                       *)
(****************************************************************************)
EXTENDS ClassFileReader, ConstantTags, Sequences, FiniteSets

CONSTANTS
    Pools,              \* Pools that parseConstantPool may leave.
    Lens,               \* Lengths of what follows the pool.
    ClassFlags,         \* Sets of access flags that a class may have,
    FieldFlags,         \* and a field.
    Counts,             \* Values of the 16-bit counts.
    AttributeLengths    \* Values of an attribute's length.

ClassAccessFlags ==
    {"Public", "Final", "Super", "Interface", "Abstract", "Synthetic",
     "Annotation", "Enum"}

FieldAccessFlags ==
    {"Public", "Private", "Protected", "Static", "Final", "Volatile",
     "Transient", "Synthetic", "Enum"}

AnnotationAttributes ==
    {"RuntimeVisibleAnnotations", "RuntimeInvisibleAnnotations"}

(* The texts that parseFieldAttributes tells apart; "Other" is any other.   *)
Texts ==
    {"ConstantValue", "Synthetic", "Deprecated", "Signature",
     "RuntimeVisibleTypeAnnotations", "RuntimeInvisibleTypeAnnotations",
     "Other"} \cup AnnotationAttributes

(* A slot: its tag, the text if it is Utf8, and whether its entity is wild. *)
Slot == [tag : ConstantType, text : Texts, wild : BOOLEAN]

ASSUME BodyAssumption ==
    /\ Lens \subseteq 0 .. UInt32 - 1
    /\ Pools \subseteq Seq(Slot)
    /\ \A pool \in Pools : \A n \in 1 .. Len(pool) :
          ~pool[n].wild => pool[n].tag \in StoredTags \ IndexTags
    /\ ClassFlags \subseteq SUBSET ClassAccessFlags
    /\ FieldFlags \subseteq SUBSET FieldAccessFlags
    /\ Counts \subseteq Nat
    /\ AttributeLengths \subseteq 0 .. UInt32 - 1

VARIABLES
    cp,             \* The constant pool.
    phase,          \* "header", "fields" (their count), "loops", or an end.
    accessFlags,
    stack,          \* The loops the parser is in.
    attribute       \* History: the attribute that was read last.

bodyVars == <<cp, accessFlags, stack, attribute>>
vars == <<readerVars, phase, bodyVars>>

Ended == {"accepted", "truncated", "bad_format", "crashed"}

(* Is it one of annotations, and where should it end?                       *)
Attribute == [annotations : BOOLEAN, end : Nat]

NoAttribute == [annotations |-> FALSE, end |-> 0]

Init ==
    /\ \E len \in Lens : OpenReader(len)
    /\ cp \in Pools
    /\ phase = "header"
    /\ accessFlags = {}
    /\ stack = <<>>
    /\ attribute = NoAttribute

------------------------------------------------------------------------------
(* Indices into the pool.                                                   *)

Indices == 0 .. Len(cp) + 1

isValidCpIndex(n) == n > 0 /\ n <= Len(cp)

Names(n, expected) == isValidCpIndex(n) /\ cp[n].tag \in expected

(* There is something of these kinds to name.                               *)
Named(expected) == \E n \in Indices : Names(n, expected)

(* What getSymbolAt may find.                                               *)
TextsAt(n) == IF cp[n].wild THEN Texts ELSE {cp[n].text}

(* The loops.                                                               *)
Loops ==
    {"interfaces", "fields", "attributes", "annotations", "pairs", "values"}

InLoop(loops) == phase = "loops" /\ Head(stack).loop \in loops

(* Mutant of Iterating: <= for <.                                           *)
Iterating_OneMore(loops) == InLoop(loops) /\ Head(stack).left >= 0

Iterating(loops) == InLoop(loops) /\ Head(stack).left > 0

Frames == [loop : Loops, left : Nat, flags : {{}} \cup FieldFlags]

Frame(loop, count, flags) == [loop |-> loop, left |-> count, flags |-> flags]

(* The stack when the innermost loop has begun another iteration.           *)
Spent == <<[Head(stack) EXCEPT !.left = @ - 1]>> \o Tail(stack)

Enter(loop, count, flags) == stack' = <<Frame(loop, count, flags)>> \o Spent

Continue == stack' = Spent

(* Mutant of Throw: the failed read is tried again.                         *)
Throw_Retries(how) == UNCHANGED <<phase, readerVars, bodyVars>>

Throw(how) == phase' = how /\ UNCHANGED <<readerVars, bodyVars>>

------------------------------------------------------------------------------
(* parse(), after the pool, and the head of parseInterfaces.                *)

ClassFlagsOK(flags) ==
    /\ IF "Interface" \in flags
       THEN /\ "Abstract" \in flags
            /\ flags \cap {"Final", "Super", "Enum"} = {}
       ELSE /\ "Annotation" \notin flags
            /\ ~("Final" \in flags /\ "Abstract" \in flags)
    /\ "Annotation" \in flags => "Interface" \in flags

(* Flags, this class, super class (0: none) and the count of interfaces,    *)
(* under one ensure.                                                        *)
ClassHeader ==
    /\ phase = "header"
    /\ ensure(ptr, 8)
    /\ \E flags \in ClassFlags : ClassFlagsOK(flags) /\ accessFlags' = flags
    /\ Named({"UnresolvedClass"})
    /\ \E super \in Indices : super = 0 \/ Names(super, isClassOrUnresolvedClass)
    /\ \E count \in Counts :
          /\ ensure(ptr + 8, 2 * count)
          /\ stack' = <<Frame("interfaces", count, {})>>
    /\ phase' = "loops"
    /\ Advance(8)
    /\ UNCHANGED <<cp, attribute>>

Interface ==
    /\ Iterating({"interfaces"})
    /\ Named(isClassOrUnresolvedClass)
    /\ Continue
    /\ Advance(2)
    /\ UNCHANGED <<cp, phase, accessFlags, attribute>>

(* parseFields.                                                             *)
FieldCount ==
    /\ phase = "fields"
    /\ ensure(ptr, 2)
    /\ \E count \in Counts : stack' = <<Frame("fields", count, {})>>
    /\ phase' = "loops"
    /\ Advance(2)
    /\ UNCHANGED <<cp, accessFlags, attribute>>

(* Mutant of FieldFlagsOK: the last branch of the chain is missing.         *)
FieldFlagsOK_NoPrivateCase(flags) ==
    IF "Interface" \in accessFlags
    THEN {"Public", "Final", "Static"} \subseteq flags
    ELSE /\ "Public" \in flags => flags \cap {"Protected", "Private"} = {}
         /\ flags \cap {"Final", "Volatile"} = {}

FieldFlagsOK(flags) ==
    IF "Interface" \in accessFlags
    THEN {"Public", "Final", "Static"} \subseteq flags
    ELSE /\ CASE "Public" \in flags    -> flags \cap {"Protected", "Private"} = {}
              [] "Public" \notin flags /\ "Private" \in flags
                                       -> "Protected" \notin flags
              [] OTHER                 -> TRUE
         /\ flags \cap {"Final", "Volatile"} = {}

(* Mutant of FieldBytes: the count of attributes is not ensured.            *)
FieldBytes_NoCount == 6

(* Flags, name, descriptor and the count of attributes.                     *)
FieldBytes == 8

Field ==
    /\ Iterating({"fields"})
    /\ ensure(ptr, FieldBytes)
    /\ Named({"Utf8"})
    /\ \E flags \in FieldFlags, count \in Counts :
          FieldFlagsOK(flags) /\ Enter("attributes", count, flags)
    /\ attribute' = NoAttribute
    /\ Advance(8)
    /\ UNCHANGED <<cp, phase, accessFlags>>

------------------------------------------------------------------------------
(* parseFieldAttributes.                                                    *)

(* The next attribute has this name and length, and its bytes are there.    *)
AttributeIs(names, len) ==
    /\ Iterating({"attributes"})
    /\ ensure(ptr, 6)
    /\ ensure(ptr + 6, len)
    /\ \E n \in Indices, name \in names :
          /\ Names(n, {"Utf8"})
          /\ name \in TextsAt(n)
          /\ attribute' = [annotations |-> name \in AnnotationAttributes,
                           end |-> ptr + 6 + len]
    /\ UNCHANGED <<cp, phase, accessFlags>>

IsStatic == "Static" \in Head(stack).flags

(* Mutant of ConstantValueLength: a longer attribute passes.                *)
ConstantValueLength_Any(len) == len >= 2

ConstantValueLength(len) == len = 2

ConstantValueAttribute ==
    \E len \in AttributeLengths :
        /\ AttributeIs({"ConstantValue"}, len)
        /\ IsStatic
        /\ ConstantValueLength(len)
        /\ Named(isConstantValueType)
        /\ Continue
        /\ Advance(8)

MarkerAttribute ==
    /\ AttributeIs({"Synthetic", "Deprecated"}, 0)
    /\ Continue
    /\ Advance(6)

(* parseSignatureAttribute.                                                 *)
SignatureAttribute ==
    /\ AttributeIs({"Signature"}, 2)
    /\ Named({"Utf8"})
    /\ Continue
    /\ Advance(8)

SkippedNames ==
    {"RuntimeVisibleTypeAnnotations", "RuntimeInvisibleTypeAnnotations",
     "Other"} \cup IF IsStatic THEN {} ELSE {"ConstantValue"}

(* Mutant of SkippedAttribute: the length is taken to count its own bytes.  *)
SkippedAttribute_LengthOnly ==
    \E len \in AttributeLengths :
        /\ AttributeIs(SkippedNames, len)
        /\ Continue
        /\ Advance(len)

SkippedAttribute ==
    \E len \in AttributeLengths :
        /\ AttributeIs(SkippedNames, len)
        /\ Continue
        /\ Advance(6 + len)

(* parseAnnotations, which does not know the length of the attribute.       *)
AnnotationsAttribute ==
    \E len \in AttributeLengths, count \in Counts :
        /\ AttributeIs(AnnotationAttributes, len)
        /\ ensure(ptr + 6, 2)
        /\ Enter("annotations", count, {})
        /\ Advance(8)

------------------------------------------------------------------------------
(* parseAnnotation and parseElementValue.                                   *)

Annotation ==
    /\ Iterating({"annotations"})
    /\ ensure(ptr, 4)
    /\ Named({"Utf8"})
    /\ \E count \in Counts : Enter("pairs", count, {})
    /\ Advance(4)
    /\ UNCHANGED <<cp, phase, accessFlags, attribute>>

(* The tag of the constant that an element of each kind names.              *)
ConstantElements ==
    [Byte |-> "Integer", Char |-> "Integer", Double |-> "Double",
     Float |-> "Float", Int |-> "Integer", Long |-> "Long",
     Short |-> "Integer", Boolean |-> "Integer", String |-> "Utf8",
     Class |-> "Utf8"]

(* Name and tag of the next element, and so many bytes after them.  The     *)
(* elements of an array are read with names, as the pairs of an annotation. *)
ElementIs(bytes) ==
    /\ Iterating({"pairs", "values"})
    /\ ensure(ptr, 3)
    /\ Named({"Utf8"})
    /\ ensure(ptr + 3, bytes)
    /\ Advance(3 + bytes)
    /\ UNCHANGED <<cp, phase, accessFlags, attribute>>

ConstantElement ==
    /\ ElementIs(2)
    /\ \E kind \in DOMAIN ConstantElements : Named({ConstantElements[kind]})
    /\ Continue

EnumElement ==
    /\ ElementIs(4)
    /\ Continue

AnnotationElement ==
    /\ ElementIs(4)
    /\ \E count \in Counts : Enter("pairs", count, {})

(* Mutant of ArrayBytes: the count of the values is not consumed.           *)
ArrayBytes_None == 0

ArrayBytes == 2

ArrayElement ==
    /\ ElementIs(ArrayBytes)
    /\ \E count \in Counts : Enter("values", count, {})

------------------------------------------------------------------------------
(* The end of a loop, and of the parse.                                     *)

LoopEnds ==
    /\ InLoop(Loops)
    /\ Head(stack).left = 0
    /\ stack' = Tail(stack)
    /\ phase' = CASE Head(stack).loop = "interfaces" -> "fields"
                  [] Head(stack).loop = "fields"     -> "accepted"
                  [] OTHER                           -> "loops"
    /\ UNCHANGED <<readerVars, cp, accessFlags, attribute>>

(* What an iteration ensures first.  (parseInterfaces has ensured all of    *)
(* its bytes before its loop.)                                              *)
FirstEnsured ==
    [interfaces |-> 0, fields |-> FieldBytes, attributes |-> 6,
     annotations |-> 4, pairs |-> 3, values |-> 3]

Truncated ==
    /\ \/ phase = "header" /\ ~ensure(ptr, 8)
       \/ phase = "header" /\ \E count \in Counts : ~ensure(ptr + 8, 2 * count)
       \/ phase = "fields" /\ ~ensure(ptr, 2)
       \/ Iterating(Loops) /\ ~ensure(ptr, FirstEnsured[Head(stack).loop])
       \/ /\ Iterating({"attributes"})
          /\ \E len \in AttributeLengths \cup {2} : ~ensure(ptr + 6, len)
       \/ Iterating({"pairs", "values"}) /\ ~ensure(ptr + 3, 4)
    /\ Throw("truncated")

(* Every iteration checks an index, and index 0 never passes.               *)
Rejected ==
    /\ \/ phase = "header" /\ ensure(ptr, 8)
       \/ Iterating(Loops) /\ ensure(ptr, FirstEnsured[Head(stack).loop])
    /\ Throw("bad_format")

(* A wild pointer is followed: to the name of this class or of an           *)
(* attribute, a signature or the text of a string element.                  *)
Wild(tag) == \E n \in 1 .. Len(cp) : cp[n].wild /\ cp[n].tag = tag

Crashes ==
    /\ \/ phase = "header" /\ ensure(ptr, 8) /\ Wild("UnresolvedClass")
       \/ Iterating({"attributes"}) /\ ensure(ptr, 6) /\ Wild("Utf8")
       \/ Iterating({"pairs", "values"}) /\ ensure(ptr, 5) /\ Wild("Utf8")
    /\ Throw("crashed")

Done ==
    /\ phase \in Ended
    /\ UNCHANGED vars

parseFieldAttributes ==
    \/ ConstantValueAttribute \/ MarkerAttribute \/ SignatureAttribute
    \/ SkippedAttribute \/ AnnotationsAttribute

parseElementValue ==
    ConstantElement \/ EnumElement \/ AnnotationElement \/ ArrayElement

Next ==
    \/ ClassHeader \/ Interface
    \/ FieldCount \/ Field \/ parseFieldAttributes
    \/ Annotation \/ parseElementValue
    \/ LoopEnds
    \/ Truncated \/ Rejected \/ Crashes
    \/ Done

(* One thread runs the parser; nothing in it waits.                         *)
Spec == Init /\ [][Next]_vars /\ WF_vars(Next)

------------------------------------------------------------------------------
(* Properties.                                                              *)

(* The type invariant.                                                      *)
TypeOK ==
    /\ ptr \in Nat /\ end \in 0 .. UInt32 - 1
    /\ cp \in Pools
    /\ phase \in {"header", "fields", "loops"} \cup Ended
    /\ accessFlags \in {{}} \cup ClassFlags
    /\ stack \in Seq(Frames)
    /\ phase = "loops" => stack # <<>>
    /\ attribute \in Attribute

(* No read leaves the buffer, in any of the loops and however they nest:    *)
(* the batched ensures cover every unchecked read.  (For the constant pool  *)
(* this is false: ConstantPoolParser!ReadsOnlyTheFile.)                     *)
ReadsOnlyTheFile == ptr <= end

(* An attribute ends where its length says, whatever its kind and its       *)
(* contents, when the parser looks for the next one: except an attribute of *)
(* annotations, which may end before or after (ClassFileParser.cpp:258).    *)
AttributesEndWhereDeclared ==
    InLoop({"attributes"}) /\ attribute # NoAttribute =>
        ptr = attribute.end \/ attribute.annotations

(* Annotations and arrays nest as deep as the file says, and so do the      *)
(* calls: the length of the attribute does not bound them.  The file does.  *)
(* Each call reads five bytes, after 30 for the first annotation of a field.*)
DepthBoundedByBytes == Len(stack) > 3 => 5 * (Len(stack) + 2) <= ptr

(* The combinations of flags there may be, in one line for each kind of     *)
(* class or member.                                                         *)
ClassAllowed(flags) ==
    \/ /\ flags \cap {"Interface", "Annotation"} = {}
       /\ ~({"Final", "Abstract"} \subseteq flags)
    \/ /\ {"Interface", "Abstract"} \subseteq flags
       /\ flags \cap {"Final", "Super", "Enum"} = {}

FieldAllowed(flags) ==
    IF "Interface" \in accessFlags
    THEN {"Public", "Static", "Final"} \subseteq flags
    ELSE /\ \A v, w \in flags \cap {"Public", "Private", "Protected"} : v = w
         /\ flags \cap {"Final", "Volatile"} = {}

(* The chains of conditions on flags let through these combinations, and no *)
(* others, and what a class or a field was accepted with stays so while     *)
(* what is in it is parsed.  (With these a class has no final or volatile   *)
(* field at all: ClassFileParser.cpp:199 refuses either, not only both.)    *)
FlagsConsistent ==
    /\ phase = "header" =>
          \A flags \in ClassFlags : ClassFlagsOK(flags) <=> ClassAllowed(flags)
    /\ InLoop({"fields"}) =>
          \A flags \in FieldFlags : FieldFlagsOK(flags) <=> FieldAllowed(flags)
    /\ ClassAllowed(accessFlags)
    /\ \A d \in 1 .. Len(stack) :
          stack[d].loop = "attributes" => FieldAllowed(stack[d].flags)

(* Every step is paid for by a byte of the file, or ends a loop that was    *)
(* entered for one: counts of 65535 that nest cost nothing once the file is *)
(* used up, and a parse takes no more steps than the file has bytes, and    *)
(* one.                                                                     *)
Fuel == (end - ptr) + Len(stack)

EveryStepIsPaidFor == [][phase' \in Ended \/ Fuel' < Fuel]_vars

(* The parse ends: an iteration consumes bytes or enters no loop, so counts *)
(* of 65535 that nest do not keep it running once the file is used up.      *)
Terminates == <>(phase \in Ended)
============================================================================
