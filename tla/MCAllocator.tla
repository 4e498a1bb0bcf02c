---------------------------- MODULE MCAllocator ----------------------------
(* Instances of Allocator for TLC: the objects are interchangeable. *)
EXTENDS Allocator, TLC

Symmetry == Permutations(Objects)
=============================================================================
