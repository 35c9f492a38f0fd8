------------------------ MODULE MCConstantPoolAccess ------------------------
(****************************************************************************)
(* Words for TLC: both ends of the range and a number in between.           *)
(****************************************************************************)
EXTENDS ConstantPoolAccess

EndWords == {0, 6, Word - 1}
=============================================================================
