----------------------------- MODULE Normalize -----------------------------
(***************************************************************************)
(* pg_query_normalize once the query is parsed: const_record_walker records *)
(* where the constants are and numbers them, fill_in_constant_lengths finds *)
(* their ends with the lexer, and generate_normalized_query writes the text *)
(* with $n in the place of each.                                           *)
(*                                                                         *)
(* A query is a record with the fields                                     *)
(*   len     length of the text; positions are 0 .. len - 1                *)
(*   tokens  the lexer's tokens in order, each [at, end]                   *)
(*   minus   positions that hold a '-'                                     *)
(*   quotes  positions where a string constant seems to start: a quote, a  *)
(*           dollar, or one of the letters bxne before one of these        *)
(*   walk    what const_record_walker meets, in the order in which it does *)
(* A step of the walk is [op, n, fp]: n is the location of a constant      *)
(* ("const"), of a DefElem with a string argument ("defelem") or of what   *)
(* strstr finds (-1 for NULL, "matching"), or the number of a ParamRef     *)
(* ("param"); fp is the fingerprint of a target or a GROUP BY item         *)
(* ("target_end", "group").                                                *)
(***************************************************************************)
EXTENDS Integers, Sequences, FiniteSets, SequencesExt

CONSTANTS
  Queries,    \* the queries to normalize
  MaxInt,     \* INT_MAX
  Width(_),   \* Width(n): bytes written by sprintf("$%d", n)
  Slack       \* 10: bytes reserved for each constant on top of its own

ASSUME NormalizeAssumption ==
  /\ MaxInt \in Nat \ {0}
  /\ Slack \in Nat
  /\ \A n \in 0 .. MaxInt : Width(n) \in 1 .. (Slack + 1)
  /\ \A n \in -(MaxInt + 1) .. -1 : Width(n) \in Nat

(* Tokens do not overlap and lie within the text; locations are integers.  *)
ASSUME QueriesAssumption ==
  \A q \in Queries :
    /\ q.len \in Nat
    /\ q.tokens \in Seq([at : Nat, end : Nat])
    /\ \A j \in DOMAIN q.tokens :
         q.tokens[j].at < q.tokens[j].end /\ q.tokens[j].end <= q.len
    /\ \A j, k \in DOMAIN q.tokens : j < k => q.tokens[j].end <= q.tokens[k].at
    /\ q.minus \subseteq Nat /\ q.quotes \subseteq Nat
    /\ Len(q.walk) \in Nat /\ DOMAIN q.walk = 1 .. Len(q.walk)
    /\ \A i \in DOMAIN q.walk :
         /\ q.walk[i].op \in {"const", "defelem", "matching"} => q.walk[i].n \in Int
         /\ q.walk[i].op = "param" => q.walk[i].n \in 0 .. MaxInt

VARIABLES
  query,      \* the query being normalized
  phase,      \* "walk", "lengths", "text" or "done"
  pos,        \* next step of the walk
  clocs,      \* clocations: [location, param] in the order recorded
  high,       \* highest_normalize_param_id
  extern,     \* highest_extern_param_id
  refs,       \* param_refs: [on, ids], off when it is NULL
  selects,    \* the SelectStmt frames of the walk, innermost last
  left,       \* indices of clocs not yet reached in location order
  lexed,      \* number of tokens lexed by fill_in_constant_lengths
  lastLoc,    \* last_loc
  sorted,     \* clocs sorted by location, with their lengths: [off, len, param]
  queryLoc,   \* quer_loc
  normLoc,    \* n_quer_loc
  out         \* what was replaced: [off, len, param], param final

walkVars == <<clocs, high, extern, refs, selects>>
lengthVars == <<left, lexed, lastLoc, sorted>>
textVars == <<queryLoc, normLoc, out>>
vars == <<query, phase, pos, walkVars, lengthVars, textVars>>

NoRefs == [on |-> FALSE, ids |-> <<>>]

Init ==
  /\ query \in Queries
  /\ phase = "walk" /\ pos = 1
  /\ clocs = <<>> /\ high = 1 /\ extern = 0 /\ refs = NoRefs /\ selects = <<>>
  /\ left = {} /\ lexed = 0 /\ lastLoc = -1 /\ sorted = <<>>
  /\ queryLoc = 0 /\ normLoc = 0 /\ out = <<>>

-----------------------------------------------------------------------------
(* const_record_walker.                                                    *)

Step == query.walk[pos]

Visit(op) ==
  /\ phase = "walk" /\ pos <= Len(query.walk) /\ Step.op = op
  /\ pos' = pos + 1
  /\ UNCHANGED <<query, phase, lengthVars, textVars>>

(* Mutant: -1 is a location like any other. *)
RecordUnknown(loc) ==
  /\ clocs' = Append(clocs, [location |-> loc, param |-> -high])
  /\ high' = high + 1
  /\ refs' = IF refs.on THEN [refs EXCEPT !.ids = Append(@, -high)] ELSE refs

(* RecordConstLocation: new parameters count down from -1.  Location -1    *)
(* stands for unknown.                                                     *)
Record(loc) ==
  IF loc >= 0
  THEN /\ clocs' = Append(clocs, [location |-> loc, param |-> -high])
       /\ high' = high + 1
       /\ refs' = IF refs.on THEN [refs EXCEPT !.ids = Append(@, -high)] ELSE refs
  ELSE UNCHANGED <<clocs, high, refs>>

VisitConst ==
  /\ Visit("const")
  /\ Record(Step.n)
  /\ UNCHANGED <<extern, selects>>

VisitParamRef ==
  /\ Visit("param")
  /\ extern' = IF Step.n > extern THEN Step.n ELSE extern
  /\ refs' = IF refs.on THEN [refs EXCEPT !.ids = Append(@, Step.n)] ELSE refs
  /\ UNCHANGED <<clocs, high, selects>>

(* record_defelem_arg_location: the first string that seems to start at or *)
(* after the DefElem.                                                      *)
VisitDefElem ==
  /\ Visit("defelem")
  /\ LET found == {i \in query.quotes : i >= Step.n}
     IN  \/ found = {} /\ Record(-1)
         \/ \E i \in found : (\A j \in found : i <= j) /\ Record(i)
  /\ UNCHANGED <<extern, selects>>

(* record_matching_string: the character before what strstr finds. *)
VisitSubscription ==
  /\ Visit("matching")
  /\ Record(Step.n - 1)
  /\ UNCHANGED <<extern, selects>>

(* T_SelectStmt: the frame holds fp_and_param_refs_list, and for the       *)
(* GROUP BY item being walked prev_cloc_count and the entry it matched.    *)
InSelect(op) == selects # <<>> /\ Visit(op)

EnterSelect ==
  /\ Visit("select")
  /\ selects' = Append(selects, [list |-> <<>>, prev |-> 0, match |-> <<>>])
  /\ UNCHANGED <<clocs, high, extern, refs>>

LeaveSelect ==
  /\ InSelect("select_end")
  /\ selects' = Front(selects)
  /\ UNCHANGED <<clocs, high, extern, refs>>

Frame == Last(selects)

EnterTarget ==
  /\ InSelect("target")
  /\ refs' = [on |-> TRUE, ids |-> <<>>]
  /\ UNCHANGED <<clocs, high, extern, selects>>

LeaveTarget ==
  /\ InSelect("target_end")
  /\ selects' = [selects EXCEPT ![Len(selects)].list =
                   Append(@, [fp |-> Step.fp, ids |-> refs.ids])]
  /\ refs' = NoRefs
  /\ UNCHANGED <<clocs, high, extern>>

Matching(list, match) ==
  selects' = [selects EXCEPT ![Len(selects)] =
                [list |-> list, prev |-> Len(clocs), match |-> match]]

(* Mutant: a target that was matched can be matched again. *)
EnterGroupItemAgain ==
  /\ InSelect("group")
  /\ LET list == Frame.list
         same == {i \in DOMAIN list : list[i].fp = Step.fp}
     IN  \/ same = {} /\ Matching(list, <<>>)
         \/ \E m \in same :
              (\A j \in same : m <= j) /\ Matching(list, <<list[m].ids>>)
  /\ UNCHANGED <<clocs, high, extern, refs>>

(* A GROUP BY item takes the first target with its fingerprint off the     *)
(* list.                                                                   *)
EnterGroupItem ==
  /\ InSelect("group")
  /\ LET list == Frame.list
         same == {i \in DOMAIN list : list[i].fp = Step.fp}
     IN  \/ same = {} /\ Matching(list, <<>>)
         \/ \E m \in same :
              /\ \A j \in same : m <= j
              /\ Matching(RemoveAt(list, m), <<list[m].ids>>)
  /\ UNCHANGED <<clocs, high, extern, refs>>

(* Mutant: highest_normalize_param_id is not taken back. *)
LeaveGroupItemHigh ==
  /\ InSelect("group_end")
  /\ LET prev == Frame.prev
         ids == Frame.match[1]
     IN  IF Frame.match # <<>> /\ Len(ids) = Len(clocs) - prev
         THEN clocs' = [i \in DOMAIN clocs |->
                          IF i <= prev THEN clocs[i]
                          ELSE [clocs[i] EXCEPT !.param = ids[i - prev]]]
         ELSE UNCHANGED clocs
  /\ UNCHANGED <<high, extern, refs, selects>>

(* If the matched target has as many parameters as the item has constants, *)
(* the constants get the target's parameters.                              *)
LeaveGroupItem ==
  /\ InSelect("group_end")
  /\ LET prev == Frame.prev
         ids == Frame.match[1]
     IN  IF Frame.match # <<>> /\ Len(ids) = Len(clocs) - prev
         THEN /\ clocs' = [i \in DOMAIN clocs |->
                             IF i <= prev THEN clocs[i]
                             ELSE [clocs[i] EXCEPT !.param = ids[i - prev]]]
              /\ high' = high - Len(ids)
         ELSE UNCHANGED <<clocs, high>>
  /\ UNCHANGED <<extern, refs, selects>>

EndWalk ==
  /\ phase = "walk" /\ pos > Len(query.walk)
  /\ phase' = "lengths"
  /\ left' = DOMAIN clocs
  /\ UNCHANGED <<query, pos, walkVars, lexed, lastLoc, sorted, textVars>>

-----------------------------------------------------------------------------
(* fill_in_constant_lengths.                                               *)

(* Mutant: a location met before is not skipped. *)
FillLengthTwice ==
  /\ phase = "lengths"
  /\ \E r \in left :
       /\ \A s \in left : clocs[r].location <= clocs[s].location
       /\ LET loc == clocs[r].location
              tokens == query.tokens
              next == {j \in lexed + 1 .. Len(tokens) : tokens[j].at >= loc}
              len == IF next = {} THEN 1
                     ELSE tokens[CHOOSE j \in next : \A k \in next : j <= k].end - loc
          IN  sorted' = Append(sorted, [off |-> loc, len |-> len,
                                        param |-> clocs[r].param])
       /\ left' = left \ {r}
  /\ UNCHANGED <<query, phase, pos, walkVars, lexed, lastLoc, textVars>>

(* The next record in the order qsort leaves them, equal locations in any  *)
(* order.  The constant ends with the first token not yet lexed that does  *)
(* not start before it, or with the token after that one if it starts with *)
(* a minus.  Length -1 marks a location met before, and what is left when  *)
(* the lexer has reached the end.                                          *)
FillLength ==
  /\ phase = "lengths"
  /\ \E r \in left :
       /\ \A s \in left : clocs[r].location <= clocs[s].location
       /\ LET loc == clocs[r].location
              tokens == query.tokens
              first == {j \in lexed + 1 .. Len(tokens) :
                          /\ tokens[j].at >= loc
                          /\ \A k \in lexed + 1 .. j - 1 : tokens[k].at < loc}
              ends == {IF loc \in query.minus THEN j + 1 ELSE j : j \in first}
                        \cap DOMAIN tokens
              With(len) == sorted' = Append(sorted, [off |-> loc, len |-> len,
                                                     param |-> clocs[r].param])
          IN  \/ /\ loc <= lastLoc
                 /\ With(-1)
                 /\ UNCHANGED <<lexed, lastLoc>>
              \/ /\ loc > lastLoc
                 /\ \E last \in ends :
                      /\ With(tokens[last].end - loc)
                      /\ lexed' = last /\ lastLoc' = loc
              \/ /\ loc > lastLoc /\ ends = {}
                 /\ With(-1)
                 /\ lexed' = Len(tokens) /\ UNCHANGED lastLoc
       /\ left' = left \ {r}
  /\ UNCHANGED <<query, phase, pos, walkVars, textVars>>

EndLengths ==
  /\ phase = "lengths" /\ left = {}
  /\ phase' = "text"
  /\ UNCHANGED <<query, pos, walkVars, lengthVars, textVars>>

-----------------------------------------------------------------------------
(* generate_normalized_query.                                              *)

(* int arithmetic as the compiler does it. *)
Wrap(n) == ((n + MaxInt + 1) % (2 * (MaxInt + 1))) - (MaxInt + 1)

(* Mutant: new parameters are not moved past those of the query. *)
FinalAsRecorded(param) == IF param < 0 THEN -param ELSE param

(* Mutant: a number is left out after those of the query. *)
FinalSkipsOne(param) == Wrap(IF param < 0 THEN extern + 1 - param ELSE param)

(* New parameters come after those the query already uses. *)
Final(param) == Wrap(IF param < 0 THEN extern - param ELSE param)

(* Mutant: the constant before is copied along. *)
WriteParamCopies ==
  /\ phase = "text" /\ sorted # <<>>
  /\ LET c == Head(sorted)
         param == Final(c.param)
         lastOff == IF out = <<>> THEN 0 ELSE Last(out).off
     IN  IF c.len < 0
         THEN UNCHANGED textVars
         ELSE /\ normLoc' = normLoc + (c.off - lastOff) + Width(param)
              /\ queryLoc' = c.off + c.len
              /\ out' = Append(out, [off |-> c.off, len |-> c.len, param |-> param])
  /\ sorted' = Tail(sorted)
  /\ UNCHANGED <<query, phase, pos, walkVars, left, lexed, lastLoc>>

(* Copy the text up to the constant and write $n for it. *)
WriteParam ==
  /\ phase = "text" /\ sorted # <<>>
  /\ LET c == Head(sorted)
         param == Final(c.param)
     IN  IF c.len < 0
         THEN UNCHANGED textVars
         ELSE /\ normLoc' = normLoc + (c.off - queryLoc) + Width(param)
              /\ queryLoc' = c.off + c.len
              /\ out' = Append(out, [off |-> c.off, len |-> c.len, param |-> param])
  /\ sorted' = Tail(sorted)
  /\ UNCHANGED <<query, phase, pos, walkVars, left, lexed, lastLoc>>

(* Copy the rest of the text. *)
WriteRest ==
  /\ phase = "text" /\ sorted = <<>>
  /\ normLoc' = normLoc + (query.len - queryLoc)
  /\ phase' = "done"
  /\ UNCHANGED <<query, pos, walkVars, lengthVars, queryLoc, out>>

Next ==
  \/ VisitConst \/ VisitParamRef \/ VisitDefElem \/ VisitSubscription
  \/ EnterSelect \/ LeaveSelect \/ EnterTarget \/ LeaveTarget
  \/ EnterGroupItem \/ LeaveGroupItem \/ EndWalk
  \/ FillLength \/ EndLengths \/ WriteParam \/ WriteRest

Spec == Init /\ [][Next]_vars

-----------------------------------------------------------------------------
(* Properties.                                                             *)

Prints == {query.walk[i].fp : i \in DOMAIN query.walk}
Replacement == [off : Nat, len : Int, param : Int]

(* The types of the variables. *)
TypeOK ==
  /\ phase \in {"walk", "lengths", "text", "done"}
  /\ pos \in Nat
  /\ clocs \in Seq([location : Nat, param : Int])
  /\ high \in Int
  /\ extern \in 0 .. MaxInt
  /\ refs \in [on : BOOLEAN, ids : Seq(Int)]
  /\ selects \in Seq([list : Seq([fp : Prints, ids : Seq(Int)]),
                      prev : Nat, match : Seq(Seq(Int))])
  /\ left \subseteq DOMAIN clocs
  /\ lexed \in Nat
  /\ lastLoc \in Int
  /\ sorted \in Seq(Replacement)
  /\ queryLoc \in Nat
  /\ normLoc \in Int
  /\ out \in Seq(Replacement)

(* The new parameters in use are at all times exactly 1, 2, .. up to the   *)
(* last one handed out, although GROUP BY items give theirs back for those *)
(* of a target (pg_query_normalize.c:513-518).                             *)
DenseNumbering ==
  {-clocs[i].param : i \in {j \in DOMAIN clocs : clocs[j].param < 0}} = 1 .. high - 1

(* A new parameter never has the number of a parameter of the query, of    *)
(* which there may be some after the constant (pg_query_normalize.c:275).  *)
NewParametersAreNew ==
  \A i \in DOMAIN clocs, j \in DOMAIN query.walk :
    phase # "walk" /\ clocs[i].param < 0 /\ query.walk[j].op = "param"
      => Final(clocs[i].param) # query.walk[j].n

(* The highest number given to a constant is an int once it is moved past  *)
(* the parameters of the query; all are, up to INT_MAX itself.             *)
NumbersFit == extern + high - 1 <= MaxInt

WrittenAsNumbers == \A i \in DOMAIN out : out[i].param \in 1 .. MaxInt

(* palloc'ed for the result, less the final zero byte. *)
BufferLength == query.len + Len(clocs) * Slack

(* "Assert(n_quer_loc <= norm_query_buflen)" (pg_query_normalize.c:299):   *)
(* the text written stays within the buffer.                               *)
WithinBuffer == normLoc <= BufferLength

(* The number of every placeholder is a positive int, up to the last query *)
(* whose numbers reach INT_MAX: the addition of pg_query_normalize.c:279   *)
(* overflows no earlier, with the constants counted once however often the *)
(* walk came across them in GROUP BY items.                                *)
PlaceholdersAreNumbers == NumbersFit => WrittenAsNumbers

(* For those queries the ten bytes added for each constant are enough,     *)
(* also where every one of them takes a single byte and is replaced by a   *)
(* number of as many digits as INT_MAX has (pg_query_normalize.c:244-250). *)
BufferSuffices == NumbersFit => WithinBuffer

(* What is replaced is exactly the constants the walk came across, each    *)
(* from its first to its last character and once, however often and in     *)
(* whatever order the walk came across them (pg_query_normalize.c:105-208).*)
Constants ==
  {query.walk[j].n : j \in {k \in DOMAIN query.walk : query.walk[k].op = "const"}}
  \cup {query.walk[j].n - 1 :
          j \in {k \in DOMAIN query.walk :
                   query.walk[k].op = "matching" /\ query.walk[k].n > 0}}
  \cup {CHOOSE i \in query.quotes : i >= query.walk[j].n
                /\ \A k \in query.quotes : k >= query.walk[j].n => i <= k :
        j \in {k \in DOMAIN query.walk : query.walk[k].op = "defelem"
                 /\ \E i \in query.quotes : i >= query.walk[k].n}}

TokenEnd(loc) ==
  LET j == CHOOSE j \in DOMAIN query.tokens : query.tokens[j].at = loc
  IN  query.tokens[IF loc \in query.minus THEN j + 1 ELSE j].end

EachConstantOnce ==
  phase = "done" =>
    /\ {<<out[i].off, out[i].off + out[i].len>> : i \in DOMAIN out}
         = {<<loc, TokenEnd(loc)>> : loc \in Constants}
    /\ Len(out) = Cardinality(Constants)

(* Steps i and j belong to the same SelectStmt, i first. *)
Depth(i) ==
  Cardinality({j \in 1 .. i - 1 : query.walk[j].op = "select"})
    - Cardinality({j \in 1 .. i - 1 : query.walk[j].op = "select_end"})

SameSelect(i, j) ==
  /\ i < j /\ Depth(i) = Depth(j)
  /\ \A k \in i .. j : query.walk[k].op = "select_end" => Depth(k) # Depth(i)

(* The last step of the item that starts at step i, and its fingerprint.   *)
ItemEnd(i) ==
  LET op == IF query.walk[i].op = "target" THEN "target_end" ELSE "group_end"
      ends == {j \in i .. Len(query.walk) :
                 query.walk[j].op = op /\ Depth(j) = Depth(i)}
  IN  CHOOSE j \in ends : \A k \in ends : j <= k

FpOf(i) == query.walk[IF query.walk[i].op = "target" THEN ItemEnd(i) ELSE i].fp

(* The items at i and j are the same up to the values of their constants.  *)
SameExpression(i, j) ==
  /\ FpOf(i) = FpOf(j)
  /\ ItemEnd(i) - i = ItemEnd(j) - j
  /\ \A k \in 1 .. ItemEnd(i) - i - 1 :
       /\ query.walk[i + k].op = query.walk[j + k].op
       /\ query.walk[i + k].op = "param" => query.walk[i + k].n = query.walk[j + k].n

(* The parameter written for a constant, or the one that was there. *)
Written(leaf) ==
  IF leaf.op = "param" THEN leaf.n
  ELSE LET i == CHOOSE i \in DOMAIN clocs : clocs[i].location = leaf.n
       IN  Final(clocs[i].param)

(* How many items op with the expression of i its select has up to i. *)
Rank(i, op) ==
  Cardinality({k \in DOMAIN query.walk :
    query.walk[k].op = op /\ (k = i \/ SameSelect(k, i)) /\ SameExpression(k, i)})

(* The GROUP BY item at j repeats the target at i. *)
Repeats(i, j) ==
  /\ query.walk[i].op = "target" /\ query.walk[j].op = "group"
  /\ SameSelect(i, j) /\ SameExpression(i, j)
  /\ Rank(i, "target") = Rank(j, "group")

KeepsItsTarget(i, j) ==
  \A k \in 1 .. ItemEnd(i) - i - 1 :
    query.walk[i + k].op \in {"const", "param"} =>
      Written(query.walk[i + k]) = Written(query.walk[j + k])

(* A GROUP BY item that repeats a target gets the same parameters as the   *)
(* target: "this ensures the query is valid, instead of throwing a bogus   *)
(* 'columns ... must appear in the GROUP BY clause ...' error"             *)
(* (pg_query_normalize.c:507-510).                                         *)
GroupByKeepsItsTarget ==
  phase = "done" =>
    \A i, j \in DOMAIN query.walk : Repeats(i, j) => KeepsItsTarget(i, j)

(* The same of the statements for which the code achieves it: those whose  *)
(* targets and GROUP BY items hold neither parameters nor sub-selects, and *)
(* where what has one fingerprint has the same number of constants (x IN   *)
(* (1) and x IN (1, 2) have one).                                          *)
Items == {i \in DOMAIN query.walk : query.walk[i].op \in {"target", "group"}}

PlainItems ==
  /\ \A i \in Items : \A k \in i .. ItemEnd(i) : query.walk[k].op \notin {"param", "select"}
  /\ \A i, j \in Items : FpOf(i) = FpOf(j) => ItemEnd(i) - i = ItemEnd(j) - j

PlainGroupByKeepsItsTarget ==
  phase = "done" /\ PlainItems =>
    \A i, j \in DOMAIN query.walk : Repeats(i, j) => KeepsItsTarget(i, j)
=============================================================================
