--------------------------- MODULE GeminiSchemas ----------------------------
(***************************************************************************)
(* How the JSON schema of a tool is simplified for Gemini, which takes     *)
(* neither references nor unions.  A JSON value is                         *)
(*   [is |-> "dict", of |-> function], [is |-> "list", of |-> sequence] or *)
(*   [is |-> "leaf", of |-> value].                                        *)
(***************************************************************************)
EXTENDS Extraction

Dict(f) == [is |-> "dict", of |-> f]
List(s) == [is |-> "list", of |-> s]
Leaf(v) == [is |-> "leaf", of |-> v]
Without(f, keys) == Restrict(f, DOMAIN f \ keys)

\* References replaced by what they refer to; what stands beside one is kept
\* as it is and wins.
RECURSIVE Dereference(_, _)
Dereference(node, defs) ==
    CASE node.is = "list" -> List([i \in DOMAIN node.of |-> Dereference(node.of[i], defs)])
      [] node.is = "leaf" -> node
      [] node.is = "dict" ->
           LET clean == Without(node.of, {"default", "title"})
           IN  IF "$ref" \in DOMAIN clean /\ clean["$ref"].of \in DOMAIN defs
               THEN Dict(Without(clean, {"$ref"})
                           @@ Dereference(defs[clean["$ref"].of], defs).of)
               ELSE Dict([k \in DOMAIN clean |-> Dereference(clean[k], defs)])

\* The options of a union that are not null, in order.
Alternatives(node) ==
    SelectSeq(node.of["anyOf"].of,
              LAMBDA option : /\ option.is = "dict"
                              /\ "type" \in DOMAIN option.of => option.of["type"].of # "null")

\* The first alternative takes the union's place, unless it says nothing.
Simplifies(node) ==
    /\ "anyOf" \in DOMAIN node.of /\ Alternatives(node) # <<>>
    /\ DOMAIN Head(Alternatives(node)).of # {}

\* An optional value becomes its first alternative, marked nullable.
RECURSIVE SimplifyAnyOf(_)
SimplifyAnyOf(node) ==
    CASE node.is = "list" -> List([i \in DOMAIN node.of |-> SimplifyAnyOf(node.of[i])])
      [] node.is = "leaf" -> node
      [] node.is = "dict" ->
           IF Simplifies(node)
           THEN Dict(("nullable" :> Leaf("true")) @@ Without(node.of, {"anyOf"})
                       @@ SimplifyAnyOf(Head(Alternatives(node))).of)
           ELSE Dict([k \in DOMAIN node.of |-> SimplifyAnyOf(node.of[k])])

\* Mutant: optional values are simplified before references are replaced.
SimplifyThenDereference(schema) ==
    LET defs == IF "$defs" \in DOMAIN schema.of THEN schema.of["$defs"].of ELSE << >>
    IN  Dereference(SimplifyAnyOf(Dict(Without(schema.of, {"$defs"}))), defs)

CleanSchemaForGemini(schema) ==
    LET defs == IF "$defs" \in DOMAIN schema.of THEN schema.of["$defs"].of ELSE << >>
    IN  SimplifyAnyOf(Dereference(Dict(Without(schema.of, {"$defs"})), defs))

-----------------------------------------------------------------------------
(* Properties                                                              *)

\* No reference, title, default, union or null is left anywhere in a value.
RECURSIVE Plain(_)
Plain(node) ==
    IF node.is = "leaf" THEN node.of # "null"
    ELSE /\ node.is = "dict" =>
              DOMAIN node.of \cap {"$defs", "$ref", "title", "default", "anyOf"} = {}
         /\ \A k \in DOMAIN node.of : Plain(node.of[k])

\* What Gemini receives is plain, and the fields it may leave out are those
\* that were optional (providers.py:256-302).
SchemaIsPlain ==
    Sent /\ extraction.settings.provider = "gemini" =>
        LET sent == extraction.request.schema
            Having(schema, key) == {k \in DOMAIN schema.of["properties"].of :
                                      key \in DOMAIN schema.of["properties"].of[k].of}
        IN  /\ Plain(sent)
            /\ Having(sent, "nullable") = Having(extraction.schema, "anyOf")
=============================================================================
