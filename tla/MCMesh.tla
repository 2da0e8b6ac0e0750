------------------------------- MODULE MCMesh -------------------------------
(***************************************************************************)
(* A small mesh: two sources each of normals and texture coordinates, one  *)
(* that serves as positions and as normals, and r with a stride that is    *)
(* refused for colors.  Of the texture coordinates, u behind t is at a     *)
(* whole number of elements of its stride, and t behind u is not.          *)
(***************************************************************************)
EXTENDS Mesh

MCSources == {"p", "n", "m", "t", "u", "c", "r", "g"}
MCStride == [s \in MCSources |-> CASE s = "t" -> 4 [] s \in {"u", "r"} -> 2 [] OTHER -> 3]
MCCount == [s \in MCSources |-> IF s \in {"p", "n"} THEN 2 ELSE 1]
MCVertexInputs == <<[semantic |-> "POSITION", source |-> "p"]>>

In(semantic, source, offset) == [semantic |-> semantic, source |-> source, offset |-> offset]
Vertex == In("VERTEX", "v", 0)
MCInputLists == {
    <<Vertex, In("NORMAL", "n", 1), In("TEXCOORD", "t", 1)>>,
    <<Vertex, In("NORMAL", "m", 0), In("TEXCOORD", "u", 1), In("TEXCOORD", "t", 0)>>,
    <<In("NORMAL", "p", 1), Vertex>>,
    <<Vertex, In("COLOR", "c", 1), In("COLOR", "r", 0), In("TEXTANGENT", "g", 0), In("COLOR", "missing", 1)>> }
=============================================================================
