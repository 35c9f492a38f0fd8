----------------------- MODULE MCConstantPoolParser -----------------------
(****************************************************************************)
(* Small files for TLC.  Each menu is a set of entries; TLC explores every  *)
(* pool that can be made from it.                                           *)
(****************************************************************************)
EXTENDS ConstantPoolParser

Entry(kind, a, b) == [kind |-> kind, a |-> a, b |-> b]

(* Every kind of entry, for pools of two slots with UInt16 = 4: the counter *)
(* wraps at the largest size, and the file may be cut anywhere.             *)
WideEntries ==
    {Entry("Class", a, 0) : a \in 0 .. 3} \cup
    {Entry("String", a, 0) : a \in {0, 2, 3}} \cup
    {Entry(k, a, b) : k \in {"Fieldref", "Methodref"}, a \in {1, 3}, b \in {2}} \cup
    {Entry("InterfaceMethodref", 2, 1), Entry("InvokeDynamic", 3, 2)} \cup
    {Entry("NameAndType", a, b) : a \in {1, 2}, b \in {1, 3}} \cup
    {Entry("MethodHandle", a, b) : a \in {0, 1, 6, 9, 10}, b \in {1, 2}} \cup
    {Entry("MethodType", a, 0) : a \in {1, 2}} \cup
    {Entry(k, 3, 0) : k \in NumericTags} \cup
    {Entry("Utf8", a, b) : a \in {0, 2}, b \in {0, 1}} \cup
    {Entry("Unknown", 0, 0)}

WideLens == (0 .. 24) \cup {32}

(* Entries that can name each other in pools of up to four slots, with      *)
(* right and wrong kinds and in both directions.                            *)
LinkedEntries ==
    {Entry("Utf8", 1, 0), Entry("Utf8", 1, 1), Entry("Long", 3, 0),
     Entry("Class", 1, 0), Entry("Class", 4, 0), Entry("String", 2, 0),
     Entry("NameAndType", 1, 2), Entry("NameAndType", 4, 4),
     Entry("Fieldref", 3, 2), Entry("Methodref", 2, 3),
     Entry("InterfaceMethodref", 2, 3),
     Entry("MethodHandle", 2, 4), Entry("MethodHandle", 5, 4),
     Entry("MethodHandle", 7, 4), Entry("MethodHandle", 9, 4),
     Entry("MethodType", 1, 0), Entry("InvokeDynamic", 0, 3)}

(* What it takes to make a method handle of every kind resolve, or not:     *)
(* five slots, and one menu for both sides of each boundary of the kind.    *)
HandleEntries ==
    {Entry("Utf8", 1, 0), Entry("Class", 1, 0), Entry("NameAndType", 1, 1)} \cup
    {Entry(k, 2, 3) : k \in ReferenceTags} \cup
    {Entry("MethodHandle", kind, 4) : kind \in {0, 4, 5, 6, 8, 9, 10}}

(* The least that the three disagreements need.                             *)
FewEntries ==
    {Entry("Utf8", 1, 0), Entry("Long", 3, 0), Entry("Class", 3, 0),
     Entry("NameAndType", 1, 3)}

GarbageTags == {"None", "Utf8", "ClassIndex"}
TwoTexts == {<<1, 0>>}
==============================================================================
