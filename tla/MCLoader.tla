------------------------------ MODULE MCLoader ------------------------------
(***************************************************************************)
(* Small documents: two files that refer to each other and a single file,  *)
(* loaded in any order; and those that show the two findings.              *)
(***************************************************************************)
EXTENDS Loader

\* a.dae has a scene, a geometry and a material, b.dae library nodes and an effect.  Both files refer
\* to each other, a.dae to two objects of b.dae.  c.dae stands alone.
MCUri == {"a.dae", "b.dae", "c.dae"}
MCObject == {"scene", "geometry", "material", "nodes", "effect", "scene c", "effect c", "camera c"}
MCFile == [o \in MCObject |->
    CASE o \in {"nodes", "effect"} -> "b.dae" [] o \in {"scene", "geometry", "material"} -> "a.dae"
      [] OTHER -> "c.dae"]
MCKind == [o \in MCObject |->
    CASE o \in {"scene", "scene c"} -> "VISUAL_SCENES" [] o = "geometry" -> "GEOMETRY"
      [] o = "material" -> "MATERIAL" [] o = "nodes" -> "LIBRARY_NODES" [] o = "camera c" -> "CAMERA"
      [] OTHER -> "EFFECT"]
MCReference == [o \in MCObject |->
    CASE o = "scene" -> "nodes" [] o = "nodes" -> "geometry" [] o = "material" -> "effect"
      [] OTHER -> NoObject]
MCFlags == {AllFlags, {"CONTROLLER", "VISUAL_SCENES"}, {"EFFECT", "GEOMETRY"}, {"ANIMATION_LIST", "CAMERA"}}

\* One file, and libxml
MCOneUri == {"a.dae"}
MCOneObject == {"scene", "geometry", "effect", "camera", "animation"}
MCOneFile == [o \in MCOneObject |-> "a.dae"]
MCOneKind == [o \in MCOneObject |->
    CASE o = "scene" -> "VISUAL_SCENES" [] o = "geometry" -> "GEOMETRY" [] o = "effect" -> "EFFECT"
      [] o = "camera" -> "CAMERA" [] OTHER -> "ANIMATION"]
MCOneReference == [o \in MCOneObject |-> IF o = "scene" THEN "geometry" ELSE NoObject]
MCFlagsPasses == {AllFlags, {"VISUAL_SCENES"}, {"EFFECT", "GEOMETRY"}, {"ANIMATION_LIST", "CAMERA"},
                  {"CONTROLLER", "ANIMATION"}}

\* A material, and the effect that it refers to in another file
MCExternalObject == {"material", "effect"}
MCExternalFile == [o \in MCExternalObject |-> IF o = "effect" THEN "b.dae" ELSE "a.dae"]
MCExternalKind == [o \in MCExternalObject |-> IF o = "effect" THEN "EFFECT" ELSE "MATERIAL"]
MCExternalReference == [o \in MCExternalObject |-> IF o = "material" THEN "effect" ELSE NoObject]
MCFlagsExternal == {{"EFFECT", "MATERIAL"}}
=============================================================================
