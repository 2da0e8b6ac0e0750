------------------------- MODULE MCSkinControllers --------------------------
(***************************************************************************)
(* Trees of five nodes, with sids and ids that are interchangeable, and of *)
(* three with <node> elements, skins and two instances.                    *)
(***************************************************************************)
EXTENDS SkinControllers, TLC

Distinct(S) == {<<a, b>> : a, b \in S} \ {<<a, a>> : a \in S}

MCJointLists ==
    [areIds : {FALSE}, names : Distinct(Sid)] \union [areIds : BOOLEAN, names : {<<i>> : i \in Id}]
MCRootLists == {<< >>} \union Distinct(Id)

Symmetry == Permutations(Id) \union Permutations(Sid)
=============================================================================
