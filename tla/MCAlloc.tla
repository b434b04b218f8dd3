------------------------------ MODULE MCAlloc ------------------------------
(* Alloc for TLC *)
EXTENDS Alloc
=============================================================================
