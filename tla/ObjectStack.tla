---------------------------- MODULE ObjectStack ----------------------------
(***************************************************************************)
(* What the memory manager of the SAX parser promises to its callers: a    *)
(* stack of byte strings.  An object is pushed, the top one is removed or  *)
(* made longer at its end, and nothing below the top ever changes.  The    *)
(* frames, the offsets and the size words of the implementation do not     *)
(* appear here; StackMemoryManager is shown to implement this module.      *)
(***************************************************************************)
EXTENDS Integers, Sequences

CONSTANTS
    Data,            \* the bytes a caller may store
    Sizes            \* the numbers of bytes callers ask for

VARIABLE stack       \* the objects, bottom first

Request == UNION {[1 .. n -> Data] : n \in Sizes}

Init == stack = << >>

Push == \E bytes \in Request : stack' = Append(stack, bytes)

Pop == /\ stack # << >>
       /\ stack' = SubSeq(stack, 1, Len(stack) - 1)

Grow == /\ stack # << >>
        /\ \E bytes \in Request : stack' = [stack EXCEPT ![Len(stack)] = @ \o bytes]

Next == Push \/ Pop \/ Grow

Spec == Init /\ [][Next]_stack
=============================================================================
