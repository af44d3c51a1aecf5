----------------------------- MODULE Fingerprint -----------------------------
(***************************************************************************)
(* pg_query_fingerprint.c: the hash of a parse tree.  The walk feeds the   *)
(* names and values of a node to a running hash, takes the name of a field *)
(* back when what is in the field added nothing, and goes through the      *)
(* lists whose order is of no matter by the hashes of their items, which   *)
(* it keeps in a cache.  The C recursion is a stack of calls to come, and  *)
(* a node is known by its path, which stands for its address: where it is  *)
(* in the tree also gives the depth, the parent and the field that the     *)
(* calls are passed.                                                       *)
(***************************************************************************)
EXTENDS Integers, Sequences, SequencesExt

CONSTANTS
  Nodes,              \* the nodes of the parse trees, the lists among them
  Queries,            \* the parse trees
  MaxDepth,           \* nodes this deep are not looked at (100)
  HashOrders,         \* the orders that the digests may be in
  Precedes(_, _, _),  \* whether one digest is lower than another
  WithoutNumbers(_)   \* a name without its runs of two digits or more

VARIABLES
  order,    \* the order of the hashes, the same for every query
  tree,     \* the parse tree in hand
  calls,    \* what is still to be done for it, the next thing first
  context,  \* the running hash, and whether its tokens are printed
  tokens,   \* the tokens to print
  hashes,   \* of a list that is being hashed: those of its items so far
  listsort_cache,  \* of a list that was hashed: its items by their hashes
  visits,   \* how often each node was looked at (no variable of the code)
  finished  \* the queries that have a fingerprint

vars == <<order, tree, calls, context, tokens, hashes, listsort_cache, visits, finished>>
-----------------------------------------------------------------------------
(* What the generated function of a kind of node does, field by field:     *)
(* hash a text, a node or a list through _fingerprintNode, or a struct     *)
(* whose kind is known and needs no name.                                  *)
Text(name) == [how |-> "text", list |-> FALSE, name |-> name]
Node(name) == [how |-> "node", list |-> FALSE, name |-> name]
Items(name) == [how |-> "node", list |-> TRUE, name |-> name]
Struct(name) == [how |-> "struct", list |-> FALSE, name |-> name]

RawStmtFields == <<Node("stmt")>>

SelectStmtFields ==
  <<Text("all"), Items("distinctClause"), Items("fromClause"), Items("groupClause"),
    Text("groupDistinct"), Node("havingClause"), Struct("intoClause"), Struct("larg"),
    Node("limitCount"), Node("limitOffset"), Text("limitOption"), Items("lockingClause"),
    Text("op"), Struct("rarg"), Items("sortClause"), Items("targetList"),
    Items("valuesLists"), Node("whereClause"), Items("windowClause"), Struct("withClause")>>

InsertStmtFields ==
  <<Items("cols"), Struct("onConflictClause"), Text("override"), Struct("relation"),
    Items("returningList"), Node("selectStmt"), Struct("withClause")>>

RangeVarFields ==
  <<Struct("alias"), Text("catalogname"), Text("inh"), Text("relname"),
    Text("relpersistence"), Text("schemaname")>>

ColumnRefFields == <<Items("fields")>>
A_ExprFields == <<Text("kind"), Node("lexpr"), Items("name"), Node("rexpr")>>
BoolExprFields == <<Items("args"), Text("boolop")>>
ResTargetFields == <<Items("indirection"), Text("name"), Node("val")>>
SubLinkFields == <<Items("operName"), Text("subLinkType"), Node("subselect"), Node("testexpr")>>
RangeSubselectFields == <<Struct("alias"), Text("lateral"), Node("subquery")>>
WithClauseFields == <<Items("ctes"), Text("recursive")>>
CommonTableExprFields ==
  <<Items("aliascolnames"), Text("ctematerialized"), Text("ctename"), Node("ctequery"),
    Struct("cycle_clause"), Struct("search_clause")>>

UpdateStmtFields ==
  <<Items("fromClause"), Struct("relation"), Items("returningList"), Items("targetList"),
    Node("whereClause"), Struct("withClause")>>
DeleteStmtFields ==
  <<Struct("relation"), Items("returningList"), Items("usingClause"), Node("whereClause"),
    Struct("withClause")>>
JoinExprFields ==
  <<Struct("alias"), Text("isNatural"), Struct("join_using_alias"), Text("jointype"),
    Node("larg"), Node("quals"), Node("rarg"), Items("usingClause")>>
CaseExprFields == <<Node("arg"), Items("args"), Node("defresult")>>
CaseWhenFields == <<Node("expr"), Node("result")>>
NullTestFields == <<Node("arg"), Text("argisrow"), Text("nulltesttype")>>
FuncCallFields ==
  <<Text("agg_distinct"), Node("agg_filter"), Items("agg_order"), Text("agg_star"),
    Text("agg_within_group"), Items("args"), Text("func_variadic"), Text("funcformat"),
    Items("funcname"), Struct("over")>>
SortByFields == <<Node("node"), Text("sortby_dir"), Text("sortby_nulls"), Items("useOp")>>
TypeCastFields == <<Node("arg"), Struct("typeName")>>
TypeNameFields ==
  <<Items("arrayBounds"), Items("names"), Text("pct_type"), Text("setof"), Text("typemod"),
    Items("typmods")>>

FieldsOf ==
  [RawStmt |-> RawStmtFields, SelectStmt |-> SelectStmtFields, InsertStmt |-> InsertStmtFields,
   RangeVar |-> RangeVarFields, ColumnRef |-> ColumnRefFields, A_Expr |-> A_ExprFields,
   BoolExpr |-> BoolExprFields, ResTarget |-> ResTargetFields, SubLink |-> SubLinkFields,
   RangeSubselect |-> RangeSubselectFields, WithClause |-> WithClauseFields,
   CommonTableExpr |-> CommonTableExprFields, UpdateStmt |-> UpdateStmtFields,
   DeleteStmt |-> DeleteStmtFields, JoinExpr |-> JoinExprFields, CaseExpr |-> CaseExprFields,
   CaseWhen |-> CaseWhenFields, NullTest |-> NullTestFields, FuncCall |-> FuncCallFields,
   SortBy |-> SortByFields, TypeCast |-> TypeCastFields, TypeName |-> TypeNameFields,
   A_Star |-> <<>>, Alias |-> <<>>]

(* What is in a list or in a field that is no text is a node, and a struct *)
(* is of a kind that has a function.                                       *)
ASSUME NodesAssumption ==
  /\ Queries \subseteq Nodes
  /\ \A n \in Nodes : n.tag = "List" => n.items \in Seq(Nodes)
  /\ \A n \in {m \in Nodes : m.tag \in DOMAIN FieldsOf} :
       \A i \in DOMAIN FieldsOf[n.tag] : LET field == FieldsOf[n.tag][i] IN
         field.how # "text" /\ field.name \in DOMAIN n =>
           /\ n[field.name] \in Nodes
           /\ field.how = "struct" => n[field.name].tag \in DOMAIN FieldsOf

(* The nodes that hash to nothing: constants, for which the switch has no  *)
(* case, parameters, aliases, and casts of constants and parameters.       *)
IsIgnored(node) ==
  \/ node.tag \in {"NULL", "A_Const", "ParamRef", "Alias", "SetToDefault"}
  \/ node.tag = "TypeCast" /\ node.arg.tag \in {"A_Const", "ParamRef"}

(* The name of a column of a SELECT's result is as good as an alias, and a *)
(* temporary table may have any name.                                      *)
IsIgnoredField(node, name, parent, field_name) ==
  \/ /\ node.tag = "ResTarget" /\ name = "name"
     /\ parent.tag = "SelectStmt" /\ field_name = "targetList"
  \/ /\ node.tag = "RangeVar" /\ name = "relname"
     /\ node.relpersistence = "t"

(* Of a name, and of a number that is no constant, such as the bound of an *)
(* array: zero is nothing.                                                 *)
ValueTexts(node) ==
  CASE node.tag = "String" -> <<"String", "str", node.sval>>
    [] node.tag = "Integer" /\ node.ival # "0" -> <<"Integer", "ival", node.ival>>
    [] node.tag = "Integer" /\ node.ival = "0" -> <<>>

(* What is hashed of a field that is no node.                              *)
TextOf(node, name) ==
  CASE node.tag = "RangeVar" /\ name = "relname" -> WithoutNumbers(node.relname)
    [] node.tag = "A_Expr" /\ name = "kind" /\ node.kind \in {"AEXPR_OP_ANY", "AEXPR_IN"} -> "AEXPR_OP"
    [] OTHER -> node[name]

(* The fields whose lists are gone through by the hashes of their items.   *)
InAnyOrder == {"fromClause", "targetList", "cols", "rexpr", "valuesLists", "args"}
-----------------------------------------------------------------------------
(* A path goes by the position of an item in its list, and of a field in   *)
(* the function of its node; the lists in a list are passed its parent and *)
(* field.                                                                  *)
Null == [tag |-> "NULL"]

Inside(at, i) ==
  IF at.node.tag = "List"
  THEN [at EXCEPT !.node = at.node.items[i]]
  ELSE LET name == FieldsOf[at.node.tag][i].name
       IN [node |-> at.node[name], parent |-> at.node, field_name |-> name]

At(path) ==
  LET walk[n \in 0..Len(path)] ==
        IF n = 0 THEN [node |-> tree, parent |-> Null, field_name |-> "NULL"]
        ELSE Inside(walk[n - 1], path[n])
  IN walk[Len(path)]

(* What is to come: a call, or the rest of a loop over the fields of a     *)
(* node or the items of a list.                                            *)
Call(do, path) == [do |-> do, path |-> path]
Loop(do, path, todo) ==
  IF todo = <<>> THEN <<>> ELSE <<[do |-> do, path |-> path, todo |-> todo]>>
Here == Head(calls)
Continue(first) == calls' = first \o Tail(calls)
Rest == Loop(Here.do, Here.path, Tail(Here.todo))
Inner == Append(Here.path, Head(Here.todo))

(* _fingerprintString, for one text after the other.  context.hash is what *)
(* the state of the hash has been fed.                                     *)
FingerprintString(texts) ==
  /\ context' = [context EXCEPT !.hash = @ \o texts]
  /\ tokens' = IF context.write_tokens THEN tokens \o texts ELSE tokens

(* The digest of a hash.  It is of the bytes in a row, in which nothing    *)
(* tells where a text ends.  Different bytes have different digests here.  *)
Digest(texts) == FoldLeft(LAMBDA bytes, text : bytes \o text, "", texts)

(* A table with an entry for a path, be it new or in place of another.     *)
Put(table, path, entry) ==
  [p \in DOMAIN table \cup {path} |-> IF p = path THEN entry ELSE table[p]]

CountVisit ==
  visits' = Put(visits, Here.path,
                IF Here.path \in DOMAIN visits THEN visits[Here.path] + 1 ELSE 1)

(* Those positions up to n that are in a set, one after the other.         *)
InTurn(positions, n) ==
  LET turn[i \in 0..n] ==
        IF i = 0 THEN <<>>
        ELSE IF i \in positions THEN Append(turn[i - 1], i) ELSE turn[i - 1]
  IN turn[n]

(* The fields of a node that its function does something for.              *)
FieldLoop(path) ==
  LET at == At(path)
      fields == FieldsOf[at.node.tag]
      set == {i \in DOMAIN fields :
                /\ fields[i].name \in DOMAIN at.node
                /\ ~IsIgnoredField(at.node, fields[i].name, at.parent, at.field_name)}
  IN Loop("fields", path, InTurn(set, Len(fields)))

Positions(path) == [i \in DOMAIN At(path).node.items |-> i]

(* Where a hash is not the one before it.                                  *)
Unlike(items) ==
  InTurn({i \in DOMAIN items : i = 1 \/ items[i].hash # items[i - 1].hash}, Len(items))

(* Mutant: takes the place among the hashes for the place in the list. *)
SortedPositionsInPlace(items) == Unlike(items)

(* Where the items are in the order of their hashes, without duplicates.   *)
SortedPositions(items) ==
  LET unlike == Unlike(items) IN [j \in DOMAIN unlike |-> items[unlike[j]].list_pos]

(* pg_qsort leaves items of the same hash in any order.                    *)
Sortings(list) ==
  {items \in [DOMAIN list -> {[hash |-> list[i], list_pos |-> i] : i \in DOMAIN list}] :
     /\ \A i, j \in DOMAIN list : items[i].list_pos = items[j].list_pos => i = j
     /\ \A i, j \in DOMAIN list :
          i < j => ~Precedes(order, items[j].hash, items[i].hash)}

FirstCall == <<Call("node", <<>>)>>
NewContext(write_tokens) == [hash |-> <<>>, write_tokens |-> write_tokens]

Init ==
  /\ order \in HashOrders
  /\ tree \in Queries
  /\ calls = FirstCall
  /\ context = NewContext(TRUE)
  /\ tokens = <<>>
  /\ hashes = <<>>
  /\ listsort_cache = <<>>
  /\ visits = <<>>
  /\ finished = <<>>
-----------------------------------------------------------------------------
(* _fingerprintNode and what it calls.                                     *)
AtNode == calls # <<>> /\ Here.do = "node"
IsLookedAt == Len(Here.path) < MaxDepth /\ ~IsIgnored(At(Here.path).node)

IgnoreNode ==
  /\ AtNode /\ ~IsLookedAt
  /\ CountVisit
  /\ Continue(<<>>)
  /\ UNCHANGED <<order, tree, context, tokens, hashes, listsort_cache, finished>>

FingerprintValue ==
  /\ AtNode /\ IsLookedAt /\ At(Here.path).node.tag \in {"String", "Integer"}
  /\ FingerprintString(ValueTexts(At(Here.path).node))
  /\ CountVisit
  /\ Continue(<<>>)
  /\ UNCHANGED <<order, tree, hashes, listsort_cache, finished>>

FingerprintMessage ==
  /\ AtNode /\ IsLookedAt /\ At(Here.path).node.tag \in DOMAIN FieldsOf
  /\ FingerprintString(<<At(Here.path).node.tag>>)
  /\ CountVisit
  /\ Continue(FieldLoop(Here.path))
  /\ UNCHANGED <<order, tree, hashes, listsort_cache, finished>>

(* A generated function that is called as such.                            *)
FingerprintStruct ==
  /\ calls # <<>> /\ Here.do = "struct"
  /\ CountVisit
  /\ Continue(FieldLoop(Here.path))
  /\ UNCHANGED <<order, tree, context, tokens, hashes, listsort_cache, finished>>

AtList == AtNode /\ IsLookedAt /\ At(Here.path).node.tag = "List"

FingerprintList ==
  /\ AtList /\ At(Here.path).field_name \notin InAnyOrder
  /\ CountVisit
  /\ Continue(Loop("items", Here.path, Positions(Here.path)))
  /\ UNCHANGED <<order, tree, context, tokens, hashes, listsort_cache, finished>>

FingerprintCachedList ==
  /\ AtList /\ At(Here.path).field_name \in InAnyOrder
  /\ Here.path \in DOMAIN listsort_cache
  /\ CountVisit
  /\ Continue(Loop("items", Here.path, SortedPositions(listsort_cache[Here.path])))
  /\ UNCHANGED <<order, tree, context, tokens, hashes, listsort_cache, finished>>

FingerprintNewList ==
  /\ AtList /\ At(Here.path).field_name \in InAnyOrder
  /\ Here.path \notin DOMAIN listsort_cache
  /\ hashes' = Put(hashes, Here.path, <<>>)
  /\ CountVisit
  /\ Continue(Loop("hash", Here.path, Positions(Here.path)) \o <<Call("sort", Here.path)>>)
  /\ UNCHANGED <<order, tree, context, tokens, listsort_cache, finished>>

NextItem ==
  /\ calls # <<>> /\ Here.do = "items"
  /\ Continue(<<Call("node", Inner)>> \o Rest)
  /\ UNCHANGED <<order, tree, context, tokens, hashes, listsort_cache, visits, finished>>

(* An item is hashed on its own, in a context that prints no tokens.       *)
HashItem ==
  /\ calls # <<>> /\ Here.do = "hash"
  /\ context' = NewContext(FALSE)
  /\ Continue(<<Call("node", Inner), [do |-> "hashed", path |-> Inner, ctx |-> context]>> \o Rest)
  /\ UNCHANGED <<order, tree, tokens, hashes, listsort_cache, visits, finished>>

(* Mutant: the list's own context is not gone back to. *)
ItemHashedInside ==
  /\ calls # <<>> /\ Here.do = "hashed"
  /\ hashes' = [hashes EXCEPT ![Front(Here.path)] = Append(@, Digest(context.hash))]
  /\ Continue(<<>>)
  /\ UNCHANGED <<order, tree, context, tokens, listsort_cache, visits, finished>>

ItemHashed ==
  /\ calls # <<>> /\ Here.do = "hashed"
  /\ hashes' = [hashes EXCEPT ![Front(Here.path)] = Append(@, Digest(context.hash))]
  /\ context' = Here.ctx
  /\ Continue(<<>>)
  /\ UNCHANGED <<order, tree, tokens, listsort_cache, visits, finished>>

(* Mutant: the context of an item has a cache of its own, which ends with it. *)
SortItemsUncached ==
  /\ calls # <<>> /\ Here.do = "sort"
  /\ \E items \in Sortings(hashes[Here.path]) :
       /\ listsort_cache' = IF context.write_tokens
                            THEN Put(listsort_cache, Here.path, items)
                            ELSE listsort_cache
       /\ Continue(Loop("items", Here.path, SortedPositions(items)))
  /\ UNCHANGED <<order, tree, context, tokens, hashes, visits, finished>>

SortItems ==
  /\ calls # <<>> /\ Here.do = "sort"
  /\ \E items \in Sortings(hashes[Here.path]) :
       /\ listsort_cache' = Put(listsort_cache, Here.path, items)
       /\ Continue(Loop("items", Here.path, SortedPositions(items)))
  /\ UNCHANGED <<order, tree, context, tokens, hashes, visits, finished>>

(* A field of a generated function: a name with a text, or a name that is  *)
(* taken back when nothing follows it.                                     *)
AtField == calls # <<>> /\ Here.do = "fields"
FieldOf(path) == FieldsOf[At(path).parent.tag][Last(path)]
HowOf(path) == FieldOf(path).how

FingerprintText ==
  /\ AtField /\ HowOf(Inner) = "text"
  /\ LET at == At(Inner)
     IN FingerprintString(<<at.field_name, TextOf(at.parent, at.field_name)>>)
  /\ Continue(Rest)
  /\ UNCHANGED <<order, tree, hashes, listsort_cache, visits, finished>>

FingerprintField ==
  /\ AtField
  /\ \E how \in {"node", "struct"} : LET name == At(Inner).field_name IN
       /\ HowOf(Inner) = how
       /\ FingerprintString(<<name>>)
       /\ Continue(<<Call(how, Inner),
                     [do |-> "close", path |-> Inner, prev |-> context.hash,
                      hash |-> Append(context.hash, name)]>> \o Rest)
  /\ UNCHANGED <<order, tree, hashes, listsort_cache, visits, finished>>

IsNilList(node) ==
  node.tag = "List" /\ Len(node.items) = 1 /\ node.items[1].tag = "NULL"

(* A field that is a list is not nothing if there is a NIL in it.          *)
HoldsNil(path) == FieldOf(path).list /\ IsNilList(At(path).node)

(* Mutant: takes a token back in contexts that print none, too. *)
CloseFieldOfAny ==
  /\ calls # <<>> /\ Here.do = "close"
  /\ IF context.hash = Here.hash /\ ~HoldsNil(Here.path)
     THEN /\ context' = [context EXCEPT !.hash = Here.prev]
          /\ tokens' = Front(tokens)
     ELSE UNCHANGED <<context, tokens>>
  /\ Continue(<<>>)
  /\ UNCHANGED <<order, tree, hashes, listsort_cache, visits, finished>>

(* Mutant: a list with nothing but NIL in it is nothing. *)
CloseFieldOfNil ==
  /\ calls # <<>> /\ Here.do = "close"
  /\ IF context.hash = Here.hash
     THEN /\ context' = [context EXCEPT !.hash = Here.prev]
          /\ tokens' = IF context.write_tokens THEN Front(tokens) ELSE tokens
     ELSE UNCHANGED <<context, tokens>>
  /\ Continue(<<>>)
  /\ UNCHANGED <<order, tree, hashes, listsort_cache, visits, finished>>

(* The first text that a node adds is a name, which is not empty, so that  *)
(* the digest is the same as before only if nothing was added.             *)
CloseField ==
  /\ calls # <<>> /\ Here.do = "close"
  /\ IF context.hash = Here.hash /\ ~HoldsNil(Here.path)
     THEN /\ context' = [context EXCEPT !.hash = Here.prev]
          /\ tokens' = IF context.write_tokens THEN Front(tokens) ELSE tokens
     ELSE UNCHANGED <<context, tokens>>
  /\ Continue(<<>>)
  /\ UNCHANGED <<order, tree, hashes, listsort_cache, visits, finished>>

(* The digest of the query, and one query more: nothing is kept.           *)
FinishQuery ==
  /\ calls = <<>> /\ finished = <<>>
  /\ finished' = <<[tree |-> tree, fingerprint |-> Digest(context.hash)]>>
  /\ tree' \in Queries
  /\ calls' = FirstCall
  /\ context' = NewContext(TRUE)
  /\ tokens' = <<>>
  /\ hashes' = <<>>
  /\ listsort_cache' = <<>>
  /\ visits' = <<>>
  /\ UNCHANGED order

Next ==
  \/ IgnoreNode \/ FingerprintValue \/ FingerprintMessage \/ FingerprintStruct
  \/ FingerprintList \/ FingerprintCachedList \/ FingerprintNewList
  \/ NextItem \/ HashItem \/ ItemHashed \/ SortItems
  \/ FingerprintText \/ FingerprintField \/ CloseField
  \/ FinishQuery

Spec == Init /\ [][Next]_vars
-----------------------------------------------------------------------------
TypeOK ==
  /\ order \in HashOrders /\ tree \in Queries
  /\ Len(calls) \in Nat /\ Len(tokens) \in Nat /\ Len(context.hash) \in Nat
  /\ context.write_tokens \in BOOLEAN
  /\ calls = <<>> => context.write_tokens

(* The tokens that are printed spell out what was hashed: what is taken    *)
(* back from one is taken back from the other, and the hashing of items on *)
(* their own leaves no token.                                              *)
TokensSpellFingerprint == context.write_tokens => tokens = context.hash

(* The cache keeps the work linear: a node is looked at once, and once     *)
(* more for each list around it that was sorted.                           *)
SortedAbove(path) ==
  {i \in DOMAIN path : LET at == At(SubSeq(path, 1, i - 1))
                       IN at.node.tag = "List" /\ at.field_name \in InAnyOrder}
WorkIsLinear ==
  \A path \in DOMAIN visits : visits[path] <= 1 + Cardinality(SortedAbove(path))
=============================================================================
