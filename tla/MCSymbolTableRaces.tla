------------------------- MODULE MCSymbolTableRaces -------------------------
(****************************************************************************)
(* The texts and hash values of MCSymbolTable, for SymbolTableRaces.        *)
(****************************************************************************)
EXTENDS MCSymbolTable, SymbolTableRaces
=============================================================================
