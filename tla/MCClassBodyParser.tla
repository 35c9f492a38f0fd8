------------------------- MODULE MCClassBodyParser -------------------------
(****************************************************************************)
(* Pools, flags and lengths for TLC.                                        *)
(****************************************************************************)
EXTENDS ClassBodyParser

Written(tag, text) == [tag |-> tag, text |-> text, wild |-> FALSE]

Unwritten(tag) == [tag |-> tag, text |-> "Other", wild |-> TRUE]

(* A class, the texts that the parser treats differently, a constant that   *)
(* a field may have, and a Double whose upper half was never written: its   *)
(* tag is not one, or asks for a text, or for the name of a class.          *)
SomePools ==
    {<<Written("UnresolvedClass", "Other"), Written("Utf8", "ConstantValue"),
       Written("Utf8", "Synthetic"), Written("Utf8", "Signature"),
       Written("Utf8", "RuntimeVisibleAnnotations"),
       Written("Double", "Other"), Unwritten(garbage)>> :
          garbage \in {"Utf8", "UnresolvedClass"}}

SomeClassFlags ==
    {{"Public", "Super"}, {"Final", "Abstract"}, {"Interface", "Abstract"},
     {"Interface"}, {"Annotation", "Abstract"}, {"Annotation", "Interface"},
     {"Interface", "Abstract", "Enum"}, {"Interface", "Abstract", "Final"}}

SomeFieldFlags ==
    {{}, {"Static"}, {"Public", "Private"}, {"Private", "Protected"},
     {"Final"}, {"Volatile"}, {"Public", "Static", "Final"}}
=============================================================================
