------------------------ MODULE MCStackMemoryManager ------------------------
(* A TLC instance of StackMemoryManager: each frame doubles the one before. *)
EXTENDS StackMemoryManager

Doubling == [f \in 0 .. 2 |-> 2 * 2 ^ f]
=============================================================================
