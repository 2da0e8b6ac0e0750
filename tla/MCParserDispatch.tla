-------------------------- MODULE MCParserDispatch --------------------------
(***************************************************************************)
(* A part of the COLLADA schema: <extra> below the root, <technique> below *)
(* <extra>, anything below <technique>.                                    *)
(***************************************************************************)
EXTENDS ParserDispatch

MCName == {"COLLADA", "extra", "technique"}
MCType == {"COLLADA", "extra", "technique_type"}
MCSchema == {<<Document, "COLLADA", "COLLADA">>, <<"COLLADA", "extra", "extra">>,
             <<"extra", "technique", "technique_type">>}
MCGlobalName == {"COLLADA", "extra"}
MCXsAny == {}
MCOpenToOthers == {"technique_type"}
MCPrefix == {"", "p"}
MCNamespace == {"collada", "foreign"}
MCTypeNamespace == [t \in MCType |-> "collada"]

\* Everything; the root only; the map of <asset>, which has <extra> but not
\* the type of <technique> (COLLADA 1.5).
MCFunctionMaps == {MCType, {"COLLADA"}, {"COLLADA", "extra"}}

\* A start tag with other attributes than declarations, or with none.
StartTag(n, p, a, b) == [name |-> n, prefix |-> p, attributes |-> a, xmlns |-> b]
Declares(n, p, q, ns) == StartTag(n, p, TRUE, [x \in {q} |-> ns])

MCTag ==
    {StartTag(n, "", FALSE, NoBindings) : n \in MCName}
    \union {Declares(n, "", "", ns) : n \in MCName, ns \in MCNamespace}
    \union {StartTag("extra", p, TRUE, NoBindings) : p \in MCPrefix}
    \union {Declares("COLLADA", "p", "p", "collada"), Declares("extra", "p", "p", "foreign")}
=============================================================================
