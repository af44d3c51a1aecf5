----------------------------- MODULE SqlScoping -----------------------------
(***************************************************************************)
(* What the names in a statement mean to PostgreSQL: which range variables *)
(* are tables and which are references to a CTE, and which item of a FROM  *)
(* clause the qualifier of a column belongs to.  This is the definition    *)
(* the analysis is compared with.  It follows the nesting of the           *)
(* statement; the analysis follows the order of the walk.                  *)
(*                                                                         *)
(* The nodes are those of the walk.  A list and a PgQuery.Node are nodes   *)
(* of their own.                                                           *)
(***************************************************************************)
EXTENDS AstWalk, FiniteSets, Functions

CONSTANTS
  Message(_),  \* its kind, which is its name, and the fields that hold no
               \* messages, as far as they matter
  Height(_)    \* a bound on how far the tree goes on below a node

(* A tree is finite.                                                       *)
ASSUME HeightAssumption ==
  \A n \in Nodes :
    Height(n) \in Nat /\ \A kid \in Range(Children(n)) : Height(kid.node) < Height(n)

Kind(node) == Message(node).kind

Field(name) == <<name, -1>>
Index(i) == <<"", i>>

Wrappers == {"list", "Node"}

Inside(nodes) ==
  UNION {IF Kind(n) \in Wrappers THEN {kid.node : kid \in Range(Children(n))} ELSE {n} :
           n \in nodes}

(* The messages in a field, out of the list and the wrappers they are in.  *)
Below(node, field) ==
  Inside(Inside({kid.node : kid \in {k \in Range(Children(node)) : k.at = Field(field)}}))

Kids(node) == Inside(Inside({kid.node : kid \in Range(Children(node))}))

FieldsOf(node) == {kid.at[1] : kid \in Range(Children(node))}

Statements == {"SelectStmt", "InsertStmt", "UpdateStmt", "DeleteStmt", "MergeStmt"}

(* A parse returns a list of statements.                                   *)
ASSUME RootsAssumption ==
  \A t \in Trees :
    /\ Kind(t) = "ParseResult" /\ Len(Children(t)) = 1
    /\ \A kid \in Range(Children(Children(t)[1].node)) : Kind(kid.node) = "RawStmt"

Has(n, kind) == \E kid \in Range(Children(n)) : Kind(kid.node) = kind
IsStatementList(n) == Kind(n) = "list" /\ Has(n, "RawStmt")
IsCteNode(n) == Kind(n) = "Node" /\ Has(n, "CommonTableExpr")
IsCteList(n) ==
  Kind(n) = "list" /\ \E kid \in Range(Children(n)) : IsCteNode(kid.node)

(* Where pg_query.proto and gram.y leave room for a node.                  *)
ASSUME GrammarAssumption ==
  \A n \in Nodes : \A kid \in Range(Children(n)) :
    LET kind == Kind(kid.node) IN
    /\ kind # "ParseResult"
    /\ IsStatementList(kid.node) => Kind(n) = "ParseResult"
    /\ kind = "RawStmt" => Kind(n) = "list"
    /\ kind = "WithClause" => kid.at = Field("with_clause") /\ Kind(n) \in Statements
    /\ IsCteList(kid.node) => kid.at = Field("ctes") /\ Kind(n) = "WithClause"
    /\ IsCteNode(kid.node) => Kind(n) = "list"
    /\ kind = "CommonTableExpr" => Kind(n) = "Node"
    /\ kind = "ParamRef" <=> kid.at = Field("param_ref")
    /\ kind = "TypeCast" <=> kid.at = Field("type_cast")
    /\ kind \in {"ParamRef", "TypeCast"} => Kind(n) = "Node"
    /\ Kind(n) = "Node" => Len(Children(n)) <= 1 /\ kind \notin Wrappers
    /\ Kind(n) = "TypeCast" /\ kid.at = Field("arg") => kind = "Node"

(* A location is an offset into the text or -1, and the number of a        *)
(* placeholder is made out of digits.                                      *)
ASSUME NumbersAssumption ==
  \A n \in Nodes :
    /\ Kind(n) \in {"ParamRef", "TypeName"} => Message(n).location \in Nat \cup {-1}
    /\ Kind(n) = "ParamRef" => Message(n).number \in Nat

(* The name of a table, with its schema if it has one, in one text.        *)
QualifiedName(schema, name) == IF schema = "" THEN name ELSE schema \o "." \o name

TableName(rangeVar) == QualifiedName(Message(rangeVar).schemaname, Message(rangeVar).relname)

(* Tables and CTEs have names.                                             *)
ASSUME NamesAssumption ==
  \A n \in Nodes :
    /\ Kind(n) = "RangeVar" => TableName(n) # ""
    /\ Kind(n) = "CommonTableExpr" => Message(n).ctename \in STRING \ {""}

(* A WITH clause is a list of CTEs, each in its wrapper.                   *)
ASSUME WithAssumption ==
  \A n \in Nodes :
    /\ Kind(n) \in Statements =>
         \A kid \in Range(Children(n)) :
           kid.at = Field("with_clause") => Kind(kid.node) = "WithClause"
    /\ Kind(n) = "WithClause" =>
         \E kid \in Range(Children(n)) :
           /\ kid.at = Field("ctes") /\ Kind(kid.node) = "list"
           /\ \A item \in Range(Children(kid.node)) :
                /\ Kind(item.node) = "Node" /\ Len(Children(item.node)) = 1
                /\ Kind(Children(item.node)[1].node) = "CommonTableExpr"

(* A cast names its type.                                                  *)
ASSUME CastsAssumption ==
  \A n \in Nodes : Kind(n) = "TypeCast" =>
    \E kid \in Range(Children(n)) :
      kid.at = Field("type_name") /\ Kind(kid.node) = "TypeName"

WithClauses(statement) == Below(statement, "with_clause")

Ctes(with) ==
  LET list == CHOOSE k \in Range(Children(with)) : k.at = Field("ctes")
  IN [i \in DOMAIN Children(list.node) |->
        Children(Children(list.node)[i].node)[1].node]

-----------------------------------------------------------------------------
(* What the range variables in a field of a statement are for: they are    *)
(* read, written, created, or none of that.  FOR UPDATE OF names items of  *)
(* the FROM clause.                                                        *)
Reads == {<<"SelectStmt", "from_clause">>, <<"UpdateStmt", "from_clause">>,
          <<"DeleteStmt", "using_clause">>, <<"MergeStmt", "source_relation">>}
Writes == {"InsertStmt", "UpdateStmt", "DeleteStmt", "MergeStmt"} \X {"relation"}
Creates == {<<"SelectStmt", "into_clause">>}

Role(statement, field) ==
  LET of == <<Kind(statement), field>> IN
  CASE of \in Reads -> "read"
    [] of \in Writes -> "written"
    [] of \in Creates -> "created"
    [] OTHER -> "none"

(* Where such a range variable may be inside the field.                    *)
Holders == {"JoinExpr", "RangeTableSample", "IntoClause"}

(* A name with a schema is never that of a CTE, but it can be spelled like *)
(* one: WITH "s.t" AS (...) SELECT ... FROM s.t.                           *)
Use(rangeVar, role, ctes, inCte) ==
  LET m == Message(rangeVar) IN
  [name |-> TableName(rangeVar), at |-> m.location, role |-> role, inCte |-> inCte,
   visible |-> m.schemaname = "" /\ m.relname \in ctes,
   spelledLikeCte |-> TableName(rangeVar) \in ctes]

NamesOf(ctes) == {Message(cte).ctename : cte \in Range(ctes)}

(* What is below a statement, each with the names of the CTEs visible      *)
(* there, which are ctes around the statement.  A CTE sees itself and its  *)
(* later siblings only if the clause is RECURSIVE.                         *)
CteBodies(with, ctes) ==
  UNION {UNION {{[node |-> body, role |-> "none", inCte |-> TRUE,
                  ctes |-> ctes \cup NamesOf(IF Message(with).recursive THEN list
                                             ELSE SubSeq(list, 1, i - 1))] :
                   body \in Kids(list[i])} : i \in DOMAIN list} : list \in {Ctes(with)}}

Parts(statement, ctes, inCte) ==
  {[node |-> n[2], role |-> Role(statement, n[1]), inCte |-> inCte, ctes |-> ctes] :
     n \in UNION {{f} \X Below(statement, f) : f \in FieldsOf(statement) \ {"with_clause"}}}

PartsAndCtes(statement, withs, ctes, inCte) ==
  Parts(statement, ctes \cup UNION {NamesOf(Ctes(w)) : w \in withs}, inCte)
  \cup UNION {CteBodies(w, ctes) : w \in withs}

(* The range variables below a node.                                       *)
Places == [node : Nodes, role : {"read", "written", "created", "none"},
           ctes : SUBSET STRING, inCte : BOOLEAN]

PlacesBelow(place) ==
  IF Kind(place.node) \in Statements
  THEN PartsAndCtes(place.node, WithClauses(place.node), place.ctes, place.inCte)
  ELSE {[place EXCEPT !.node = n, !.role = IF Kind(place.node) \in Holders THEN @ ELSE "none"] :
          n \in Kids(place.node)}

Uses[place \in Places] ==
  IF Kind(place.node) = "RangeVar"
  THEN {Use(place.node, place.role, place.ctes, place.inCte)}
  ELSE UNION {Uses[p] : p \in PlacesBelow(place)}

TableUses(root) == Uses[[node |-> root, role |-> "none", ctes |-> {}, inCte |-> FALSE]]
-----------------------------------------------------------------------------
(* FROM items: the names under which their columns can be had.             *)

ItemName(item) ==
  IF Message(item).alias = "" THEN Message(item).relname ELSE Message(item).alias

Items[node \in Nodes] ==
  CASE Kind(node) \in {"RangeVar", "RangeSubselect"} -> {node}
    [] Kind(node) = "JoinExpr" ->
         UNION {Items[n] : n \in Below(node, "larg") \cup Below(node, "rarg")}
    [] OTHER -> {}

ItemFields == {"relation", "from_clause", "using_clause", "source_relation"}

Level(statement) ==
  [of    |-> Kind(statement),
   items |-> IF Kind(statement) = "InsertStmt" THEN {}
             ELSE UNION {UNION {Items[n] : n \in Below(statement, f)} : f \in ItemFields}]

ItemNames(level) == {ItemName(item) : item \in level.items}

(* What a qualifier can mean: the items of that name in the innermost      *)
(* level that has one, and the kind of statement they belong to.           *)
Lookup(levels, qualifier) ==
  LET has == {i \in DOMAIN levels : qualifier \in ItemNames(levels[i])}
      level == levels[CHOOSE i \in has : \A j \in has : i <= j]
  IN IF has = {} THEN [of |-> "none", items |-> {}]
     ELSE [level EXCEPT !.items = {item \in @ : ItemName(item) = qualifier}]

IsCondition(kind, field) ==
  \/ field = "where_clause" /\ kind \in {"SelectStmt", "UpdateStmt", "DeleteStmt"}
  \/ field = "join_condition"
  \/ field = "condition" /\ kind = "MergeWhenClause"
  \/ field = "quals" /\ kind = "JoinExpr"

(* The qualified columns in the conditions below a node, each with what it *)
(* means.  view.seen are the levels in sight.  A derived table or a CTE    *)
(* sees only view.outer: not the items beside it, whose names are kept in  *)
(* view.beside.                                                            *)
ViewOfField(field, view, level) ==
  CASE field = "with_clause" ->
         [view EXCEPT !.outer = view.seen, !.beside = @ \cup ItemNames(level)]
    [] field \in {"larg", "rarg", "select_stmt"} -> [view EXCEPT !.outer = view.seen]
    [] OTHER -> [view EXCEPT !.seen = <<level>> \o @, !.outer = view.seen]

ViewBelow(node, field, view) ==
  CASE Kind(node) \in Statements -> ViewOfField(field, view, Level(node))
    [] Kind(node) = "RangeSubselect" /\ ~Message(node).lateral ->
         [view EXCEPT !.seen = view.outer, !.beside = @ \cup ItemNames(Head(view.seen))]
    [] OTHER -> view

Column(fields, view) ==
  [column |-> fields[2], means |-> Lookup(view.seen, fields[1]),
   beside |-> fields[1] \in view.beside]

Levels == Seq([of : Statements, items : SUBSET Nodes])
Views == [seen : Levels, outer : Levels, beside : SUBSET STRING]

Columns[node \in Nodes, view \in Views, cond \in BOOLEAN] ==
  IF Kind(node) = "ColumnRef" /\ cond /\ Len(Message(node).fields) = 2
  THEN {Column(Message(node).fields, view)}
  ELSE UNION {UNION {Columns[n, v, cond \/ IsCondition(Kind(node), f)] :
                       n \in Below(node, f), v \in {ViewBelow(node, f, view)}} :
                f \in FieldsOf(node)}

FilterRefs(root) == Columns[root, [seen |-> <<>>, outer |-> <<>>, beside |-> {}], FALSE]
=============================================================================
