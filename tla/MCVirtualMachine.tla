-------------------------- MODULE MCVirtualMachine --------------------------
(****************************************************************************)
(* Texts for TLC.                                                           *)
(****************************************************************************)
EXTENDS VirtualMachine

SomeTexts == {"main", "init"}
=============================================================================
