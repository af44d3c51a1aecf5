----------------------------- MODULE QueryShape ------------------------------
(***************************************************************************)
(* What a fingerprint is meant to tell apart: the shape of a query, with   *)
(* sets for the lists whose order and duplicates are of no matter, and     *)
(* nothing for constants, parameters and aliases.  There is no hash in it, *)
(* no order of hashes and no cache.                                        *)
(***************************************************************************)
EXTENDS Fingerprint

Blank == <<"blank">>

RECURSIVE Shape(_, _, _, _)
RECURSIVE FieldShapes(_, _, _, _)

FieldShape(field, node, parent, field_name, depth) ==
  CASE field.how = "text" ->
         IF IsIgnoredField(node, field.name, parent, field_name) THEN Blank
         ELSE <<"text", TextOf(node, field.name)>>
    [] field.how = "node" ->
         IF field.list /\ IsNilList(node[field.name]) THEN <<"nil">>
         ELSE Shape(node[field.name], node, field.name, depth + 1)
    [] field.how = "struct" ->
         LET shapes == FieldShapes(node[field.name], node, field.name, depth + 1)
         IN IF shapes = {} THEN Blank ELSE <<"struct", shapes>>

FieldShapes(node, parent, field_name, depth) ==
  LET fields == {f \in ToSet(FieldsOf[node.tag]) : f.name \in DOMAIN node}
      shapes == {<<f.name, FieldShape(f, node, parent, field_name, depth)>> : f \in fields}
  IN {s \in shapes : s[2] # Blank}

Shape(node, parent, field_name, depth) ==
  IF depth >= MaxDepth \/ IsIgnored(node) THEN Blank
  ELSE IF node.tag \in {"String", "Integer"}
  THEN IF ValueTexts(node) = <<>> THEN Blank ELSE <<"value", ValueTexts(node)>>
  ELSE IF node.tag = "List"
  THEN LET items == [i \in DOMAIN node.items |->
                       Shape(node.items[i], parent, field_name, depth + 1)]
           shown == SelectSeq(items, LAMBDA item : item # Blank)
       IN IF shown = <<>> THEN Blank
          ELSE IF field_name \in InAnyOrder THEN <<"set", ToSet(shown)>>
          ELSE <<"sequence", shown>>
  ELSE <<node.tag, FieldShapes(node, parent, field_name, depth)>>

ShapeOf(query) == Shape(query, Null, "NULL", 0)
-----------------------------------------------------------------------------
BothFinished == finished # <<>> /\ calls = <<>>
SameShape == ShapeOf(finished[1].tree) = ShapeOf(tree)
SameFingerprint == finished[1].fingerprint = Digest(context.hash)

(* Queries of the same shape have the same fingerprint: the order of their *)
(* lists, repeated items, aliases, constants and parameters make no        *)
(* difference, whatever the hashes of the items are.                       *)
SimilarQueriesMatch == BothFinished => (SameShape => SameFingerprint)

(* Queries of different shapes have different fingerprints: the tests of   *)
(* the fingerprint rely on that under "Test uniqueness".                   *)
DifferentQueriesDiffer == BothFinished => (SameFingerprint => SameShape)

(* In a query with no statement inside a statement, CASE inside a CASE or  *)
(* join inside a join it is plain which node a field is of.                *)
RECURSIVE SubNodes(_)
SubNodes(node) ==
  {node} \cup
  UNION (IF node.tag = "List" THEN {SubNodes(item) : item \in ToSet(node.items)}
         ELSE IF node.tag \notin DOMAIN FieldsOf THEN {}
         ELSE {SubNodes(node[f.name]) : f \in
                {f \in ToSet(FieldsOf[node.tag]) : f.how # "text" /\ f.name \in DOMAIN node}})

IsFlat(query) ==
  \A node \in SubNodes(query) :
    /\ node.tag \notin {"SubLink", "RangeSubselect", "WithClause"}
    /\ node.tag \in {"CaseExpr", "JoinExpr"} =>
         \A other \in SubNodes(node) \ {node} : other.tag # node.tag

(* It is plain where the texts in a query end if none holds the name of a  *)
(* node or of a field.                                                     *)
Keywords ==
  DOMAIN FieldsOf \cup {"String", "str", "Integer", "ival"}
  \cup UNION {{f.name : f \in ToSet(FieldsOf[tag])} : tag \in DOMAIN FieldsOf}

Texts(node) ==
  CASE node.tag = "String" -> {node.sval}
    [] node.tag \in DOMAIN FieldsOf ->
         {TextOf(node, f.name) : f \in
            {f \in ToSet(FieldsOf[node.tag]) : f.how = "text" /\ f.name \in DOMAIN node}}
    [] OTHER -> {}

Holds(text, part) ==
  \E i \in 0..(Len(text) - Len(part)) : SubSeq(text, i + 1, i + Len(part)) = part

IsPlain(query) ==
  /\ IsFlat(query)
  /\ \A text \in UNION {Texts(node) : node \in SubNodes(query)}, word \in Keywords :
       ~Holds(text, word)

(* Queries of different shapes have different fingerprints if it is plain  *)
(* where their nodes and their texts end: of nodes _fingerprintNode hashes *)
(* no end (pg_query_fingerprint.c:257-309), and _fingerprintString hashes  *)
(* one text after another with nothing between them (:79-91), so that      *)
(* SELECT a.b and SELECT "aStringstrb" have one fingerprint.               *)
PlainQueriesDiffer ==
  BothFinished =>
    (SameFingerprint /\ IsPlain(finished[1].tree) /\ IsPlain(tree) => SameShape)
=============================================================================
