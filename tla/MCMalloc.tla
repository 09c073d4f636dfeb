------------------------------ MODULE MCMalloc ------------------------------
(***************************************************************************)
(* Malloc on a heap of a few cells with metadata of one cell.              *)
(***************************************************************************)
EXTENDS Malloc
=============================================================================
