---------------------------- MODULE ConstantTags ----------------------------
(****************************************************************************)
(* The tags of constant pool slots: ConstantType of src/src/JVM.hpp, and    *)
(* the predicates that ConstantTag of src/src/ConstantPool.hpp has on them, *)
(* each the set of tags of which it is true.                                *)
(****************************************************************************)

IndexTags     == {"ClassIndex", "StringIndex"}
ResolvedTags  == {"UnresolvedClass", "String"}
ReferenceTags == {"Fieldref", "Methodref", "InterfaceMethodref"}
WideTags      == {"Long", "Double"}
NumericTags   == {"Integer", "Float"} \cup WideTags

(* Tags that the put operations store.                                      *)
StoredTags ==
    IndexTags \cup ResolvedTags \cup ReferenceTags \cup NumericTags \cup
    {"Utf8", "NameAndType", "MethodHandle", "MethodType", "InvokeDynamic"}

(* ... and the values of ConstantType that no put operation stores; "None"  *)
(* stands for every byte that is no ConstantType.                           *)
ConstantType == StoredTags \cup {"Class", "Unicode", "None"}

isClassOrUnresolvedClass == {"Class", "UnresolvedClass"}
isClassOrIndex == isClassOrUnresolvedClass \cup {"ClassIndex"}
isConstantValueType == NumericTags \cup {"String"}
=============================================================================
