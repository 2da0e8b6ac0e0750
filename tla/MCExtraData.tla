----------------------------- MODULE MCExtraData -----------------------------
(***************************************************************************)
(* <extra> and <technique> of the schema, and two names that clients use:  *)
(* one of their own and, again, "technique".                               *)
(***************************************************************************)
EXTENDS ExtraData

MCName == {"COLLADA", "extra", "technique", "user"}
MCType == {"COLLADA", "extra", "technique"}
MCSchema == {<<Document, "COLLADA", "COLLADA">>, <<"COLLADA", "extra", "extra">>,
             <<"extra", "technique", "technique">>}
MCGlobalName == {"COLLADA", "extra"}
MCXsAny == {<<"technique", n>> : n \in MCName}
MCOpenToOthers == {"technique"}
MCNamespace == {"collada"}
MCTypeNamespace == [t \in MCType |-> "collada"]
MCFunctionMaps == {MCType}
MCPrefix == {"", "p"}

Plain(n) == [name |-> n, prefix |-> "", attributes |-> FALSE, xmlns |-> NoBindings]
MCRootTag == {[name |-> "COLLADA", prefix |-> "", attributes |-> TRUE,
               xmlns |-> [p \in {""} |-> "collada"]]}
MCTag == MCRootTag \union {Plain(n) : n \in MCName \ {"COLLADA"}}
MCTechnique == {"technique"}
=============================================================================
