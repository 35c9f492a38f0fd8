---------------------------- MODULE MCSymbolTable ----------------------------
(****************************************************************************)
(* Three texts for TLC: two with the same hash value and one whose hash     *)
(* value is negative as a key.                                              *)
(****************************************************************************)
EXTENDS SymbolTable

SomeTexts == {"main", "niam", "init"}

SomeHashes == [x \in SomeTexts |-> IF x = "init" THEN 13 ELSE 3]
==============================================================================
