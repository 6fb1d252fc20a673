----------------------------- MODULE MCLRUCache -----------------------------
(***************************************************************************)
(* LRUCache for TLC.  Keys and handles are interchangeable.                *)
(***************************************************************************)
EXTENDS LRUCache

Symmetry == Permutations(Keys) \cup Permutations(Handles)
=============================================================================
