------------------------- MODULE NormalizeGrouping -------------------------
(***************************************************************************)
(* GROUP BY items keep the numbers of the targets that they repeat, for    *)
(* every query whose targets and GROUP BY items hold nothing but constants *)
(* that have places of their own in the text.  Each SELECT that the walk   *)
(* is in has a list of its targets with their numbers, and an item takes   *)
(* the first one with its fingerprint off the list.  So the list always    *)
(* holds the targets that are still to be repeated: those whose rank among *)
(* the targets with their fingerprint is more than the number of items     *)
(* with it so far.                                                         *)
(***************************************************************************)
EXTENDS NormalizeReplacing

IsItem(i) == i \in DOMAIN query.walk /\ Op(i) \in {"target", "group"}

(* The targets and the GROUP BY items of the query hold constants and      *)
(* nothing else, each at a place of its own in the text.  In a SELECT the  *)
(* targets come before the items.  Tidy is what the theorem below asks of  *)
(* a query; that items with one fingerprint have the same number of        *)
(* constants is part of the property itself (PlainItems).                  *)
Closed ==
  /\ \A i : IsItem(i) =>
       \E e \in DOMAIN query.walk : OpenAt(i, e) /\ Op(e) = EndOp(Op(i))
  /\ \A e \in DOMAIN query.walk : Op(e) = "target_end" =>
       \E i : OpenAt(i, e) /\ Op(i) = "target"

Apart ==
  \A i, k \in DOMAIN query.walk : IsItem(i) /\ OpenAt(i, k) /\ Op(k) \in Plain =>
    /\ Op(k) = "const"
    /\ \A m \in DOMAIN query.walk : query.walk[k].n \in Found(m) => m = k

Ordered ==
  \A i, j : IsItem(i) /\ IsItem(j) /\ SameSelect(i, j) /\ Op(i) = "group" => Op(j) = "group"

Alike ==
  \A i, j : IsItem(i) /\ IsItem(j) /\ FpOf(i) = FpOf(j) => ItemEnd(i) - i = ItemEnd(j) - j

Tidy == Flat /\ Closed /\ Apart /\ Ordered

Orderly == Flat /\ Closed /\ Apart /\ Ordered /\ Alike

(* Step i belongs to the SELECT that is d deep in the walk. *)
Here(i, d) ==
  /\ i \in DOMAIN query.walk /\ i < pos /\ Depth(i) = d
  /\ \A k \in i .. pos - 1 : Op(k) = "select_end" => Depth(k) # d

(* The constants of an item that has n of them have the numbers ids. *)
Numbered(i, ids, n) ==
  /\ Len(ids) = n
  /\ \A k \in 1 .. n, c \in DOMAIN clocs :
       clocs[c].location = query.walk[i + k].n => clocs[c].param = ids[k]

Size(i) == ItemEnd(i) - i - 1

(* How many GROUP BY items with this fingerprint the SELECT had so far. *)
Taken(d, fp) ==
  Cardinality({j \in DOMAIN query.walk : Op(j) = "group" /\ Here(j, d) /\ FpOf(j) = fp})

Waiting(i, d) ==
  /\ IsItem(i) /\ Op(i) = "target" /\ Here(i, d) /\ ItemEnd(i) < pos
  /\ Rank(i, "target") > Taken(d, FpOf(i))

(* The list of a SELECT holds the targets that no item has matched. *)
ListedAs(d, src) ==
  LET list == selects[d].list
  IN  /\ \A m, n \in DOMAIN list : m < n => src[m] < src[n]
      /\ \A m \in DOMAIN list :
           /\ Waiting(src[m], d)
           /\ list[m].fp = FpOf(src[m])
           /\ Numbered(src[m], list[m].ids, Size(src[m]))
      /\ \A i : Waiting(i, d) => \E m \in DOMAIN list : src[m] = i

OpenTarget ==
  \A i : IsItem(i) /\ OpenAt(i, pos) /\ Op(i) = "target" =>
    refs.on /\ Numbered(i, refs.ids, pos - 1 - i)

(* The target that item j repeats, if there is one, is the one it matched. *)
Matched(j) ==
  \A i \in DOMAIN query.walk : Repeats(i, j) =>
    \E ids : Frame.match = <<ids>> /\ Numbered(i, ids, Size(i))

OpenGroup ==
  \A j : IsItem(j) /\ OpenAt(j, pos) /\ Op(j) = "group" =>
    /\ Frame.prev \in Nat /\ Len(clocs) = Frame.prev + (pos - 1 - j)
    /\ \A k \in 1 .. pos - 1 - j : clocs[Frame.prev + k].location = query.walk[j + k].n
    /\ Matched(j)

Single ==
  \A i, k \in DOMAIN query.walk : IsItem(i) /\ OpenAt(i, k) /\ Op(k) = "const" =>
    \A c, b \in DOMAIN clocs :
      clocs[c].location = query.walk[k].n /\ clocs[b].location = query.walk[k].n => b = c

Agreed ==
  \A i, j \in DOMAIN query.walk : Repeats(i, j) /\ ItemEnd(j) < pos =>
    \E ids : Numbered(i, ids, Size(i)) /\ Numbered(j, ids, Size(i))

SelectsInv ==
  phase = "walk" =>
    /\ Len(selects) = Depth(pos)
    /\ \A i, d : Here(i, d) => d <= Len(selects)

ListsInv ==
  phase = "walk" =>
    \A d \in 1 .. Len(selects) : \E src \in [DOMAIN selects[d].list -> DOMAIN query.walk] : ListedAs(d, src)

ItemsInv == phase = "walk" => OpenTarget /\ OpenGroup

GroupingInv == SelectsInv /\ ListsInv /\ ItemsInv /\ Single /\ Agreed

-----------------------------------------------------------------------------
LEMMA Places ==
  ASSUME query \in Queries
  PROVE  /\ Len(query.walk) \in Nat /\ DOMAIN query.walk = 1 .. Len(query.walk)
         /\ DOMAIN query.walk \subseteq Nat \ {0}
BY QueriesAssumption

(* What of the first steps there is. *)
Before(op, i) == {j \in 1 .. i - 1 : Op(j) = op}

LEMMA BeforeNext ==
  ASSUME NEW op, NEW i \in Nat \ {0}
  PROVE  /\ Cardinality(Before(op, i)) \in Nat
         /\ Cardinality(Before(op, i + 1)) =
              Cardinality(Before(op, i)) + (IF Op(i) = op THEN 1 ELSE 0)
<1>1. IsFiniteSet(1 .. i - 1) /\ Before(op, i) \in SUBSET (1 .. i - 1)
  BY FS_Interval DEF Before
<1>2. IsFiniteSet(Before(op, i))
  BY <1>1, FS_Subset
<1>3. i \notin Before(op, i)
  BY DEF Before
<1>4. 1 .. i + 1 - 1 = (1 .. i - 1) \cup {i}
  OBVIOUS
<1>5. Before(op, i + 1) = IF Op(i) = op THEN Before(op, i) \cup {i} ELSE Before(op, i)
  BY <1>4 DEF Before
<1>6. Cardinality(Before(op, i) \cup {i}) = Cardinality(Before(op, i)) + 1
  BY <1>2, <1>3, FS_AddElement
<1>7. Cardinality(Before(op, i)) \in Nat
  BY <1>2, FS_CardinalityType
<1>8. CASE Op(i) = op
  BY <1>5, <1>6, <1>7, <1>8
<1>9. CASE Op(i) # op
  BY <1>5, <1>7, <1>9
<1> QED BY <1>8, <1>9

(* A SELECT goes one deeper than what it is in. *)
LEMMA DepthNext ==
  ASSUME NEW i \in Nat \ {0}
  PROVE  /\ Depth(i) \in Int
         /\ Op(i) = "select" => Depth(i + 1) = Depth(i) + 1
         /\ Op(i) = "select_end" => Depth(i + 1) = Depth(i) - 1
         /\ Op(i) \notin {"select", "select_end"} => Depth(i + 1) = Depth(i)
<1>1. \A k : Depth(k) = Cardinality(Before("select", k)) - Cardinality(Before("select_end", k))
  BY DEF Depth, Before, Op
<1>2. /\ Cardinality(Before("select", i)) \in Nat
      /\ Cardinality(Before("select", i + 1)) =
              Cardinality(Before("select", i)) + (IF Op(i) = "select" THEN 1 ELSE 0)
  BY BeforeNext
<1>3. /\ Cardinality(Before("select_end", i)) \in Nat
      /\ Cardinality(Before("select_end", i + 1)) =
              Cardinality(Before("select_end", i)) + (IF Op(i) = "select_end" THEN 1 ELSE 0)
  BY BeforeNext
<1> QED BY <1>1, <1>2, <1>3

LEMMA DepthFirst == Depth(1) = 0
<1>1. \A op : Before(op, 1) = {}
  BY DEF Before
<1> QED BY <1>1, FS_EmptySet DEF Depth, Before, Op

(* Within an item there is no SELECT. *)
LEMMA DepthInItem ==
  ASSUME query \in Queries, NEW i, IsItem(i), NEW k \in Nat, OpenAt(i, k)
  PROVE  Depth(k) = Depth(i)
<1>1. i \in Nat \ {0} /\ i < k /\ \A e \in i + 1 .. k - 1 : Op(e) \in Plain
  BY Places DEF IsItem, OpenAt
<1>2. ASSUME NEW op \in {"select", "select_end"}
      PROVE  Before(op, k) = Before(op, i)
  <2>1. Op(i) # op /\ op \notin Plain
    BY DEF IsItem, Plain
  <2>2. ASSUME NEW j \in 1 .. k - 1, Op(j) = op PROVE j \in 1 .. i - 1
    BY <1>1, <2>1, <2>2
  <2>3. 1 .. i - 1 \subseteq 1 .. k - 1
    BY <1>1
  <2> QED BY <2>2, <2>3 DEF Before
<1>3. Before("select", k) = Before("select", i) /\ Before("select_end", k) = Before("select_end", i)
  BY <1>2
<1> QED BY <1>3 DEF Depth, Before, Op

(* An item that is open goes on to its end. *)
LEMMA EndOfItem ==
  ASSUME query \in Queries, Closed, NEW i, IsItem(i)
  PROVE  /\ ItemEnd(i) \in DOMAIN query.walk /\ ItemEnd(i) > i /\ Op(ItemEnd(i)) = EndOp(Op(i))
         /\ \A k \in Nat : OpenAt(i, k) <=> i < k /\ k <= ItemEnd(i)
         /\ \A k \in Nat : i < k /\ k < ItemEnd(i) => Op(k) \in Plain
<1> DEFINE ends == {j \in i .. Len(query.walk) : query.walk[j].op = EndOp(Op(i)) /\ Depth(j) = Depth(i)}
<1>1. PICK e \in DOMAIN query.walk : OpenAt(i, e) /\ Op(e) = EndOp(Op(i))
  BY DEF Closed
<1>2. i \in Nat \ {0} /\ e \in Nat /\ i < e /\ e <= Len(query.walk) /\ Len(query.walk) \in Nat
      /\ DOMAIN query.walk = 1 .. Len(query.walk)
      /\ \A k \in i + 1 .. e - 1 : Op(k) \in Plain
  BY <1>1, Places DEF IsItem, OpenAt
<1>3. ItemEnd(i) = CHOOSE j \in ends : \A k \in ends : j <= k
  BY DEF ItemEnd, EndOp, Op
<1>4. EndOp(Op(i)) \notin Plain /\ EndOp(Op(i)) # Op(i)
  BY DEF IsItem, EndOp, Plain
<1>5. e \in ends
  BY <1>1, <1>2, DepthInItem DEF Op
<1>6. ASSUME NEW j \in ends PROVE e <= j
  <2>1. j \in Nat /\ j >= i /\ Op(j) = EndOp(Op(i))
    BY <1>2 DEF Op
  <2>2. j # i
    BY <1>4, <2>1
  <2>3. j \notin i + 1 .. e - 1
    BY <1>2, <1>4, <2>1
  <2> QED BY <1>2, <2>1, <2>2, <2>3
<1> HIDE DEF ends
<1>7. ends \subseteq Nat
  BY <1>2 DEF ends
<1>8. \A j \in ends : (\A k \in ends : j <= k) => j = e
  <2> SUFFICES ASSUME NEW j \in ends, \A k \in ends : j <= k PROVE j = e
    OBVIOUS
  <2>1. j <= e /\ e <= j /\ j \in Nat
    BY <1>5, <1>6, <1>7
  <2> QED BY <1>2, <2>1
<1>9. ItemEnd(i) = e
  BY <1>3, <1>5, <1>6, <1>8
<1>10. ASSUME NEW k \in Nat PROVE OpenAt(i, k) <=> i < k /\ k <= e
  <2>1. CASE i < k /\ k <= e
    <3>1. i + 1 .. k - 1 \subseteq i + 1 .. e - 1
      BY <1>2, <2>1
    <3> QED BY <1>1, <1>2, <2>1, <3>1 DEF OpenAt
  <2>2. CASE k > e
    <3>1. e \in i + 1 .. k - 1
      BY <1>2, <2>2
    <3> QED BY <1>1, <1>2, <1>4, <2>2, <3>1 DEF OpenAt
  <2> QED BY <1>2, <2>1, <2>2 DEF OpenAt
<1> QED BY <1>1, <1>2, <1>9, <1>10

(* Items do not overlap. *)
LEMMA ItemsApart ==
  ASSUME query \in Queries, Closed, NEW i, NEW j, IsItem(i), IsItem(j), i < j
  PROVE  ItemEnd(i) < j
<1>1. i \in Nat /\ j \in Nat /\ ItemEnd(i) \in Nat
  BY Places, EndOfItem DEF IsItem
<1>2. Op(j) \notin Plain /\ Op(j) # EndOp(Op(i))
  BY DEF IsItem, EndOp, Plain
<1>3. j # ItemEnd(i)
  BY <1>2, EndOfItem
<1>4. ~(j < ItemEnd(i))
  BY <1>1, <1>2, EndOfItem
<1> QED BY <1>1, <1>3, <1>4

LEMMA OneItem ==
  ASSUME query \in Queries, Closed, NEW i, NEW j, IsItem(i), IsItem(j),
         NEW k \in Nat, OpenAt(i, k), OpenAt(j, k)
  PROVE  i = j
<1>1. i \in Nat /\ j \in Nat /\ ItemEnd(i) \in Nat /\ ItemEnd(j) \in Nat
  BY Places, EndOfItem DEF IsItem
<1>2. i < k /\ k <= ItemEnd(i) /\ j < k /\ k <= ItemEnd(j)
  BY EndOfItem
<1>3. CASE i < j
  <2>1. ItemEnd(i) < j
    BY <1>3, ItemsApart
  <2> QED BY <1>1, <1>2, <2>1
<1>4. CASE j < i
  <2>1. ItemEnd(j) < i
    BY <1>4, ItemsApart
  <2> QED BY <1>1, <1>2, <2>1
<1> QED BY <1>1, <1>3, <1>4

(* The constants of an item. *)
LEMMA ConstantsOfItem ==
  ASSUME query \in Queries, Closed, Apart, NEW i, IsItem(i), NEW k \in 1 .. Size(i)
  PROVE  /\ i + k \in DOMAIN query.walk /\ OpenAt(i, i + k) /\ Op(i + k) = "const"
         /\ i + k \in Nat /\ i + k < ItemEnd(i)
         /\ query.walk[i + k].n \in Found(i + k)
<1>1. /\ i \in Nat \ {0} /\ ItemEnd(i) \in Nat /\ ItemEnd(i) <= Len(query.walk)
      /\ Len(query.walk) \in Nat /\ DOMAIN query.walk = 1 .. Len(query.walk)
  BY Places, EndOfItem DEF IsItem
<1>2. i + k \in Nat /\ i < i + k /\ i + k < ItemEnd(i) /\ i + k \in DOMAIN query.walk
  BY <1>1 DEF Size
<1>3. OpenAt(i, i + k) /\ Op(i + k) \in Plain
  <2>1. \A m \in Nat : i < m /\ m < ItemEnd(i) => m <= ItemEnd(i)
    BY <1>1
  <2>2. \A m \in Nat : i < m /\ m < ItemEnd(i) => OpenAt(i, m) /\ Op(m) \in Plain
    BY <2>1, EndOfItem
  <2> QED BY <1>2, <2>2
<1>4. Op(i + k) = "const"
  BY <1>2, <1>3 DEF Apart, IsItem
<1> QED BY <1>2, <1>3, <1>4 DEF Found, Op

LEMMA SameFingerprints ==
  ASSUME query \in Queries, Orderly, NEW i, NEW j, IsItem(i), IsItem(j)
  PROVE  SameExpression(i, j) <=> FpOf(i) = FpOf(j)
<1> SUFFICES ASSUME FpOf(i) = FpOf(j) PROVE SameExpression(i, j)
  BY DEF SameExpression
<1>1. Closed /\ Apart /\ ItemEnd(i) - i = ItemEnd(j) - j
  BY DEF Orderly, Alike
<1>2. Size(i) = Size(j)
  BY <1>1 DEF Size
<1>3. \A k \in 1 .. Size(i) : Op(i + k) = "const"
  BY <1>1, ConstantsOfItem
<1>4. \A k \in 1 .. Size(j) : Op(j + k) = "const"
  BY <1>1, ConstantsOfItem
<1> QED BY <1>1, <1>2, <1>3, <1>4 DEF SameExpression, Size, Op
-----------------------------------------------------------------------------
(* Steps of one SELECT, and the number of an item among those of its       *)
(* SELECT that have the same fingerprint.                                  *)

LEMMA SameSelectJoins ==
  ASSUME NEW a \in Nat, NEW b \in Nat, NEW c \in Nat, SameSelect(a, b), SameSelect(b, c)
  PROVE  SameSelect(a, c)
<1>1. a .. c \subseteq (a .. b) \cup (b .. c)
  OBVIOUS
<1> QED BY <1>1 DEF SameSelect

LEMMA SameSelectSplits ==
  ASSUME NEW a \in Nat, NEW b \in Nat, NEW c \in Nat,
         SameSelect(a, c), SameSelect(b, c), a < b
  PROVE  SameSelect(a, b)
<1>1. b < c
  BY DEF SameSelect
<1>2. a .. b \subseteq a .. c
  BY <1>1
<1> QED BY <1>2 DEF SameSelect

Ranked(i, op) ==
  {k \in DOMAIN query.walk :
     /\ Op(k) = op /\ FpOf(k) = FpOf(i)
     /\ k = i \/ SameSelect(k, i)}

LEMMA RankIs ==
  ASSUME query \in Queries, Orderly, NEW i, IsItem(i), NEW op \in {"target", "group"}
  PROVE  /\ Rank(i, op) = Cardinality(Ranked(i, op)) /\ Rank(i, op) \in Nat
         /\ IsFiniteSet(Ranked(i, op)) /\ Ranked(i, op) \in SUBSET Nat
         /\ \A k \in Ranked(i, op) : IsItem(k)
         /\ Op(i) = op => i \in Ranked(i, op) /\ Rank(i, op) > 0
<1>1. \A k \in DOMAIN query.walk : Op(k) = op => IsItem(k)
  BY DEF IsItem
<1>2. \A k \in DOMAIN query.walk : Op(k) = op => (SameExpression(k, i) <=> FpOf(k) = FpOf(i))
  BY <1>1, SameFingerprints
<1>3. Ranked(i, op) = {k \in DOMAIN query.walk :
        query.walk[k].op = op /\ (k = i \/ SameSelect(k, i)) /\ SameExpression(k, i)}
  BY <1>2 DEF Ranked, Op
<1>4. Ranked(i, op) \subseteq DOMAIN query.walk
  BY DEF Ranked
<1>5. IsFiniteSet(DOMAIN query.walk)
  BY Places, FS_Interval
<1>6. IsFiniteSet(Ranked(i, op))
  BY <1>4, <1>5, FS_Subset
<1>7. Cardinality(Ranked(i, op)) \in Nat
  BY <1>6, FS_CardinalityType
<1>8. Op(i) = op => i \in Ranked(i, op)
  BY DEF Ranked, IsItem
<1>9. Op(i) = op => Cardinality(Ranked(i, op)) # 0
  BY <1>6, <1>8, FS_EmptySet
<1>10. Rank(i, op) = Cardinality(Ranked(i, op))
  BY <1>3 DEF Rank
<1>11. \A k \in Ranked(i, op) : IsItem(k)
  BY <1>1 DEF Ranked
<1>12. Ranked(i, op) \in SUBSET Nat
  BY <1>4, Places
<1>13. Op(i) = op => Cardinality(Ranked(i, op)) > 0
  BY <1>7, <1>9
<1> QED BY <1>6, <1>7, <1>8, <1>10, <1>11, <1>12, <1>13

(* A later item has a higher number. *)
LEMMA RankGrows ==
  ASSUME query \in Queries, Orderly, NEW i, NEW j, IsItem(i), IsItem(j), Op(i) = Op(j),
         SameSelect(i, j), FpOf(i) = FpOf(j)
  PROVE  Rank(i, Op(i)) < Rank(j, Op(i))
<1> DEFINE op == Op(i)
<1>1. op \in {"target", "group"} /\ i \in Nat /\ j \in Nat /\ i < j
  BY Places DEF IsItem, SameSelect
<1>2. ASSUME NEW k \in Ranked(i, op) PROVE k \in Ranked(j, op)
  <2>1. k \in Nat
    BY <1>1, RankIs
  <2>2. SameSelect(k, i) => SameSelect(k, j)
    BY <1>1, <2>1, SameSelectJoins
  <2> QED BY <2>2 DEF Ranked
<1>3. j \in Ranked(j, op) /\ j \notin Ranked(i, op)
  <2>1. ~SameSelect(j, i) /\ i # j
    BY <1>1 DEF SameSelect
  <2> QED BY <2>1 DEF Ranked, IsItem
<1>4. /\ IsFiniteSet(Ranked(j, op)) /\ Rank(j, op) = Cardinality(Ranked(j, op))
      /\ Rank(j, op) \in Nat
  BY <1>1, RankIs
<1>5. Rank(i, op) = Cardinality(Ranked(i, op)) /\ Rank(i, op) \in Nat
  BY <1>1, RankIs
<1>6. /\ Cardinality(Ranked(i, op)) <= Cardinality(Ranked(j, op))
      /\ Cardinality(Ranked(j, op)) = Cardinality(Ranked(i, op)) => Ranked(j, op) = Ranked(i, op)
  <2>1. Ranked(i, op) \in SUBSET Ranked(j, op)
    BY <1>2
  <2> QED BY <1>4, <2>1, FS_Subset
<1> QED BY <1>3, <1>4, <1>5, <1>6

(* Numbers that are bounded have a greatest one. *)
LEMMA GreatestNumber ==
  ASSUME NEW N \in Nat, NEW T \in SUBSET (0 .. N), T # {}
  PROVE  \E n \in T : \A m \in T : m <= n
<1> DEFINE U == {N - n : n \in T}
<1>1. U \in SUBSET Nat /\ U # {}
  OBVIOUS
<1>2. PICK u \in U : \A v \in U : <<v, u>> \notin OpToRel(<, Nat)
  <2> HIDE DEF U
  <2> QED BY <1>1, NatLessThanWellFounded, WFMin
<1>3. PICK n \in T : u = N - n
  BY <1>2
<1>4. \A v \in U : ~(v < u)
  BY <1>1, <1>2 DEF OpToRel
<1>5. ASSUME NEW m \in T PROVE m <= n
  <2>1. ~(N - m < u) /\ m \in Nat /\ n \in Nat
    BY <1>4
  <2> QED BY <1>3, <2>1
<1> QED BY <1>5

(* Before an item with a number there is one with the number before. *)
LEMMA RankBefore ==
  ASSUME query \in Queries, Orderly, NEW i, IsItem(i), NEW r \in Nat, Rank(i, Op(i)) > r + 1
  PROVE  \E k : /\ IsItem(k) /\ Op(k) = Op(i) /\ FpOf(k) = FpOf(i) /\ SameSelect(k, i)
                /\ Rank(k, Op(i)) > r
<1> DEFINE op == Op(i)
           rest == Ranked(i, op) \ {i}
<1>1. op \in {"target", "group"} /\ i \in Nat /\ i \in DOMAIN query.walk
  BY Places DEF IsItem
<1>2. /\ Rank(i, op) = Cardinality(Ranked(i, op)) /\ Rank(i, op) \in Nat
      /\ IsFiniteSet(Ranked(i, op)) /\ Ranked(i, op) \in SUBSET Nat
      /\ i \in Ranked(i, op) /\ \A k \in Ranked(i, op) : IsItem(k)
  BY <1>1, RankIs
<1>3. IsFiniteSet(rest) /\ Cardinality(rest) = Rank(i, op) - 1
  BY <1>2, FS_RemoveElement
<1>4. rest # {}
  BY <1>2, <1>3, FS_EmptySet
<1>5. \A k \in rest : /\ IsItem(k) /\ Op(k) = op /\ FpOf(k) = FpOf(i) /\ SameSelect(k, i)
                       /\ k \in Nat /\ k \in DOMAIN query.walk /\ k < i
  BY <1>2 DEF Ranked, SameSelect
<1>6. PICK k \in rest : \A m \in rest : m <= k
  <2>1. rest \in SUBSET (0 .. i)
    BY <1>1, <1>5
  <2> HIDE DEF rest
  <2> QED BY <1>1, <1>4, <2>1, GreatestNumber
<1> HIDE DEF rest
<1>7. ASSUME NEW m \in rest PROVE m \in Ranked(k, op)
  <2>1. CASE m = k
    BY <1>5, <2>1 DEF Ranked
  <2>2. CASE m # k
    <3>1. m < k
      BY <1>5, <1>6, <2>2
    <3>2. SameSelect(m, k)
      BY <1>1, <1>5, <3>1, SameSelectSplits
    <3> QED BY <1>5, <3>2 DEF Ranked
  <2> QED BY <2>1, <2>2
<1>8. IsItem(k) /\ Op(k) = op
  BY <1>5
<1>9. IsFiniteSet(Ranked(k, op)) /\ Rank(k, op) = Cardinality(Ranked(k, op)) /\ Rank(k, op) \in Nat
  BY <1>1, <1>8, RankIs
<1>10. Cardinality(rest) <= Rank(k, op)
  <2>1. rest \in SUBSET Ranked(k, op)
    BY <1>7
  <2> QED BY <1>9, <2>1, FS_Subset
<1>11. Rank(k, op) > r
  BY <1>2, <1>3, <1>9, <1>10
<1> QED BY <1>5, <1>11
-----------------------------------------------------------------------------
(* What depends on the query alone stays. *)
LEMMA QueryStays ==
  ASSUME query' = query
  PROVE  /\ \A i : Op(i)' = Op(i) /\ Depth(i)' = Depth(i) /\ ItemEnd(i)' = ItemEnd(i)
         /\ \A i : FpOf(i)' = FpOf(i) /\ Size(i)' = Size(i) /\ (IsItem(i)' <=> IsItem(i))
         /\ \A i, k : OpenAt(i, k)' <=> OpenAt(i, k)
         /\ \A i, op : Rank(i, op)' = Rank(i, op)
         /\ \A i, j : Repeats(i, j)' <=> Repeats(i, j)
<1>1. \A i : Op(i)' = Op(i) /\ Depth(i)' = Depth(i)
  BY DEF Op, Depth
<1>2. \A i : ItemEnd(i)' = ItemEnd(i)
  BY DEF ItemEnd, Depth
<1>3. \A i : FpOf(i)' = FpOf(i) /\ Size(i)' = Size(i)
  BY <1>2 DEF FpOf, Size
<1>4. \A i : IsItem(i)' <=> IsItem(i)
  BY <1>1 DEF IsItem
<1>5. \A i, k : OpenAt(i, k)' <=> OpenAt(i, k)
  BY <1>1 DEF OpenAt
<1>6. \A i, j : SameExpression(i, j)' <=> SameExpression(i, j)
  BY <1>2, <1>3 DEF SameExpression
<1>7. \A i, j : SameSelect(i, j)' <=> SameSelect(i, j)
  BY <1>1 DEF SameSelect
<1>8. \A i, op : Rank(i, op)' = Rank(i, op)
  BY <1>6, <1>7 DEF Rank
<1>9. \A i, j : Repeats(i, j)' <=> Repeats(i, j)
  BY <1>6, <1>7, <1>8 DEF Repeats
<1> QED BY <1>1, <1>2, <1>3, <1>4, <1>5, <1>8, <1>9

(* A step of the walk belongs to the SELECT that is open, and the end of a *)
(* SELECT leaves nothing of it.                                            *)
LEMMA HereNext ==
  ASSUME NumbersInv, NEW op, Visit(op), NEW i, NEW d
  PROVE  Here(i, d)' <=> /\ Here(i, d) \/ (i = pos /\ Depth(pos) = d)
                         /\ ~(op = "select_end" /\ Depth(pos) = d)
<1>1. /\ query' = query /\ pos' = pos + 1 /\ pos \in Nat \ {0} /\ Op(pos) = op
      /\ pos \in DOMAIN query.walk
  BY Visited DEF NumbersInv, Op
<1>2. DOMAIN query.walk \subseteq Nat
  BY Places DEF NumbersInv, TypeInv
<1>3. (\A k : Op(k)' = Op(k) /\ Depth(k)' = Depth(k)) /\ query.walk' = query.walk
  BY <1>1, QueryStays
<1>4. Here(i, d)' <=>
        /\ i \in DOMAIN query.walk /\ i < pos + 1 /\ Depth(i) = d
        /\ \A k \in i .. pos : Op(k) = "select_end" => Depth(k) # d
  BY <1>1, <1>3 DEF Here
<1>5. CASE i \in Nat /\ i < pos
  <2>1. i .. pos = (i .. pos - 1) \cup {pos}
    BY <1>1, <1>5
  <2> QED BY <1>1, <1>4, <1>5, <2>1 DEF Here
<1>6. CASE i = pos
  <2>1. i .. pos = {pos}
    BY <1>1, <1>6
  <2> QED BY <1>1, <1>4, <1>6, <2>1 DEF Here
<1>7. CASE ~(i \in Nat /\ i <= pos)
  BY <1>1, <1>2, <1>4, <1>7 DEF Here
<1> QED BY <1>1, <1>5, <1>6, <1>7

LEMMA HereIsSame ==
  ASSUME NumbersInv, NEW i, NEW j, NEW d, Here(j, d)
  PROVE  /\ Here(i, d) /\ i < j => SameSelect(i, j)
         /\ i \in DOMAIN query.walk /\ SameSelect(i, j) => Here(i, d)
<1>1. /\ pos \in Nat /\ j \in Nat /\ j < pos /\ DOMAIN query.walk \subseteq Nat
      /\ Depth(j) = d
  BY Places DEF NumbersInv, TypeInv, TypeOK, Here
<1>2. \A k \in j .. pos - 1 : Op(k) = "select_end" => Depth(k) # d
  BY DEF Here
<1>3. ASSUME Here(i, d), i < j PROVE SameSelect(i, j)
  <2>1. i \in Nat /\ Depth(i) = d /\ \A k \in i .. pos - 1 : Op(k) = "select_end" => Depth(k) # d
    BY <1>1, <1>3 DEF Here
  <2>2. i .. j \subseteq i .. pos - 1
    BY <1>1, <1>3, <2>1
  <2> QED BY <1>1, <1>3, <2>1, <2>2 DEF SameSelect, Op
<1>4. ASSUME i \in DOMAIN query.walk, SameSelect(i, j) PROVE Here(i, d)
  <2>1. i \in Nat /\ i < j /\ Depth(i) = d /\ \A k \in i .. j : Op(k) = "select_end" => Depth(k) # d
    BY <1>1, <1>4 DEF SameSelect, Op
  <2>2. i .. pos - 1 \subseteq (i .. j) \cup (j .. pos - 1)
    BY <1>1, <2>1
  <2>3. \A k \in i .. pos - 1 : Op(k) = "select_end" => Depth(k) # d
    BY <1>2, <2>1, <2>2
  <2> QED BY <1>1, <1>4, <2>1, <2>3 DEF Here
<1> QED BY <1>3, <1>4

(* The step about to be taken is in the same SELECT as those of its depth. *)
LEMMA HereIsNow ==
  ASSUME NumbersInv, NEW op, Visit(op), op # "select_end", NEW i \in DOMAIN query.walk
  PROVE  SameSelect(i, pos) <=> Here(i, Depth(pos))
<1>1. pos \in Nat \ {0} /\ i \in Nat /\ Op(pos) = op
  BY Visited, Places DEF NumbersInv, TypeInv, Op
<1>2. CASE i < pos
  <2>1. i .. pos = (i .. pos - 1) \cup {pos}
    BY <1>1, <1>2
  <2> QED BY <1>1, <1>2, <2>1 DEF SameSelect, Here, Op
<1> QED BY <1>2 DEF SameSelect, Here

(* The SELECT frames of the walk are those that the walk is in. *)
LEMMA SelectsStep ==
  ASSUME NumbersInv, SelectsInv, NEW op, Visit(op),
         IF op = "select" THEN Len(selects') = Len(selects) + 1
         ELSE IF op = "select_end" THEN Len(selects') = Len(selects) - 1
         ELSE Len(selects') = Len(selects)
  PROVE  SelectsInv'
<1>1. /\ query' = query /\ pos' = pos + 1 /\ pos \in Nat \ {0} /\ Op(pos) = op /\ phase = "walk"
  BY Visited DEF NumbersInv, Op, Visit
<1>2. Len(selects) = Depth(pos) /\ \A i, d : Here(i, d) => d <= Len(selects)
  BY <1>1 DEF SelectsInv
<1>3. Len(selects') = Depth(pos + 1) /\ Depth(pos) \in Int
  BY <1>1, <1>2, DepthNext
<1>4. Depth(pos)' = Depth(pos')
  BY <1>1 DEF Depth
<1>5. Len(selects') = Depth(pos)'
  BY <1>1, <1>3, <1>4
<1>6. ASSUME NEW i, NEW d, Here(i, d)' PROVE d <= Len(selects')
  <2>1. (Here(i, d) \/ Depth(pos) = d) /\ ~(op = "select_end" /\ Depth(pos) = d)
    BY <1>6, HereNext
  <2>2. d <= Depth(pos) /\ d \in Int
    <3>1. Here(i, d) => d \in Int
      BY Places, DepthNext DEF Here, NumbersInv, TypeInv
    <3> QED BY <1>2, <1>3, <2>1, <3>1
  <2> QED BY <1>2, <1>3, <2>1, <2>2
<1> QED BY <1>5, <1>6 DEF SelectsInv
-----------------------------------------------------------------------------
(* The numbers of an item change while it is open only.                    *)
Recording == VisitConst \/ VisitDefElem \/ VisitSubscription

LEMMA RecordedAtEnd ==
  ASSUME NumbersInv, Located, Recording
  PROVE  /\ \E op \in {"const", "defelem", "matching"} : Visit(op)
         /\ selects' = selects /\ query' = query
         /\ \/ Found(pos) = {} /\ clocs' = clocs /\ refs' = refs
            \/ \E loc \in Nat :
                 /\ Found(pos) = {loc} /\ Len(clocs') = Len(clocs) + 1
                 /\ \A c \in 1 .. Len(clocs) : clocs'[c] = clocs[c]
                 /\ clocs'[Len(clocs) + 1].location = loc
                 /\ clocs'[Len(clocs) + 1].param = -high
                 /\ refs' = IF refs.on THEN [refs EXCEPT !.ids = Append(@, -high)] ELSE refs
<1>1. PICK op \in {"const", "defelem", "matching"} : Visit(op)
  BY DEF Recording, VisitConst, VisitDefElem, VisitSubscription
<1>2. query' = query /\ selects' = selects
  BY <1>1, Visited DEF NumbersInv, Recording, VisitConst, VisitDefElem, VisitSubscription
<1>3. PICK loc \in Int :
        Record(loc) /\ (IF loc >= 0 THEN Found(pos) = {loc} ELSE Found(pos) = {})
  BY FoundIsRecorded DEF Recording
<1>4. CASE loc >= 0
  <2> DEFINE c == [location |-> loc, param |-> -high]
  <2>0. high \in Int /\ clocs \in Seq(Clocation)
    BY DEF NumbersInv, TypeInv, TypeOK, Clocation
  <2>1. c \in Clocation /\ clocs' = Append(clocs, c)
    BY <1>3, <1>4, <2>0 DEF Record, Clocation
  <2> HIDE DEF c
  <2>2. /\ Len(clocs') = Len(clocs) + 1 /\ clocs'[Len(clocs) + 1] = c
        /\ \A b \in 1 .. Len(clocs) : clocs'[b] = clocs[b]
    BY <2>0, <2>1, AppendProperties
  <2>3. c.location = loc /\ c.param = -high /\ loc \in Nat
    BY <1>4 DEF c
  <2>4. refs' = IF refs.on THEN [refs EXCEPT !.ids = Append(@, -high)] ELSE refs
    BY <1>3, <1>4 DEF Record
  <2> QED BY <1>1, <1>2, <1>3, <1>4, <2>2, <2>3, <2>4
<1>5. CASE ~(loc >= 0)
  BY <1>1, <1>2, <1>3, <1>5 DEF Record
<1> QED BY <1>4, <1>5

LEMMA ClocsDomain ==
  ASSUME NumbersInv
  PROVE  /\ DOMAIN clocs = 1 .. Len(clocs) /\ Len(clocs) \in Nat
         /\ \A c \in DOMAIN clocs : clocs[c].location \in Nat /\ clocs[c].param \in Int
<1>1. clocs \in Seq(Clocation)
  BY DEF NumbersInv, TypeInv, TypeOK, Clocation
<1>2. DOMAIN clocs = 1 .. Len(clocs) /\ Len(clocs) \in Nat
  BY <1>1, LenProperties
<1>3. \A c \in 1 .. Len(clocs) : clocs[c] \in Clocation
  BY <1>1, ElementOfSeq
<1> QED BY <1>2, <1>3 DEF Clocation

(* A step of the walk that is inside an item is a constant.                *)
LEMMA InsideItem ==
  ASSUME NumbersInv, Orderly, NEW op, Visit(op), NEW i, IsItem(i), OpenAt(i, pos)
  PROVE  /\ op = "const" \/ op = EndOp(Op(i))
         /\ op = EndOp(Op(i)) <=> pos = ItemEnd(i)
         /\ i \in Nat \ {0} /\ i < pos /\ pos <= ItemEnd(i)
         /\ pos - 1 - i \in Nat /\ pos - 1 - i <= Size(i)
<1>1. /\ query \in Queries /\ Closed /\ Apart /\ pos \in DOMAIN query.walk /\ Op(pos) = op
      /\ pos \in Nat /\ i \in Nat \ {0} /\ i \in DOMAIN query.walk
  BY Visited, Places DEF NumbersInv, TypeInv, Orderly, Op, IsItem
<1>2. i < pos /\ pos <= ItemEnd(i) /\ ItemEnd(i) \in Nat
  BY <1>1, EndOfItem, Places
<1>3. CASE pos = ItemEnd(i)
  <2>1. op = EndOp(Op(i))
    BY <1>1, <1>3, EndOfItem
  <2> QED BY <1>1, <1>2, <1>3, <2>1 DEF Size
<1>4. CASE pos # ItemEnd(i)
  <2>1. Op(pos) \in Plain
    BY <1>1, <1>2, <1>4, EndOfItem
  <2>2. op = "const"
    BY <1>1, <2>1 DEF Apart
  <2>3. op # EndOp(Op(i))
    BY <2>2 DEF EndOp
  <2> QED BY <1>1, <1>2, <1>4, <2>2, <2>3 DEF Size
<1> QED BY <1>3, <1>4

LEMMA ItemEndOrOpen ==
  ASSUME NumbersInv, Orderly, NEW op, Visit(op), NEW i, IsItem(i), i < pos
  PROVE  OpenAt(i, pos) \/ ItemEnd(i) < pos
<1>1. query \in Queries /\ Closed /\ pos \in Nat
  BY Visited DEF NumbersInv, TypeInv, Orderly
<1>2. ItemEnd(i) \in Nat
  BY <1>1, EndOfItem, Places
<1>3. OpenAt(i, pos) <=> i < pos /\ pos <= ItemEnd(i)
  BY <1>1, EndOfItem
<1> QED BY <1>1, <1>2, <1>3

(* What is open when an item is left is the item. *)
LEMMA ItemToLeave ==
  ASSUME NumbersInv, Orderly, ItemsInv, LeaveGroupItem
  PROVE  \E j : /\ IsItem(j) /\ Op(j) = "group" /\ OpenAt(j, pos) /\ pos = ItemEnd(j)
               /\ Frame.prev \in Nat
               /\ Len(clocs) = Frame.prev + Size(j)
               /\ \A k \in 1 .. Size(j) : clocs[Frame.prev + k].location = query.walk[j + k].n
<1>1. Visit("group_end") /\ selects # <<>>
  BY DEF LeaveGroupItem, InSelect
<1>2. In("group") /\ phase = "walk"
  <2>1. Flat /\ "group_end" \notin Plain
    BY DEF Plain, Orderly
  <2> QED BY <1>1, <2>1, Nested DEF Visit
<1>3. PICK j \in DOMAIN query.walk : OpenAt(j, pos) /\ Op(j) = "group"
  BY <1>2 DEF In
<1>4. IsItem(j)
  BY <1>3 DEF IsItem
<1>5. pos = ItemEnd(j) /\ j \in Nat
  BY <1>1, <1>3, <1>4, InsideItem DEF EndOp
<1>6. pos - 1 - j = Size(j)
  BY <1>1, <1>3, <1>4, <1>5, Visited DEF Size, NumbersInv
<1>7. OpenGroup
  BY <1>2 DEF ItemsInv
<1> QED BY <1>3, <1>4, <1>5, <1>6, <1>7 DEF OpenGroup

LEMMA NumberedStays ==
  ASSUME NumbersInv, Orderly, Located, ItemsInv,
         Recording \/ LeaveGroupItem \/ (clocs' = clocs /\ query' = query),
         NEW i, IsItem(i), NEW n \in Nat, n <= Size(i), i + n < pos,
         Op(i) = "target" \/ ~OpenAt(i, pos),
         NEW ids, Numbered(i, ids, n)
  PROVE  Numbered(i, ids, n)'
<1>1. query \in Queries /\ Closed /\ Apart /\ i \in Nat \ {0}
  BY Places DEF NumbersInv, TypeInv, Orderly, IsItem
<1>2. query' = query
  BY Visited DEF NumbersInv, Recording, LeaveGroupItem, InSelect, VisitConst, VisitDefElem,
       VisitSubscription
<1>3. SUFFICES ASSUME NEW k \in 1 .. n, NEW c \in DOMAIN clocs',
                      clocs'[c].location = query.walk[i + k].n
               PROVE  clocs'[c].param = ids[k]
  BY <1>2 DEF Numbered
<1>4. /\ i + k \in DOMAIN query.walk /\ OpenAt(i, i + k) /\ Op(i + k) = "const" /\ i + k \in Nat
      /\ i \in DOMAIN query.walk /\ i + k < pos
  <2>1. k \in 1 .. Size(i)
    BY <1>1, EndOfItem, Places DEF Size
  <2>2. pos \in Nat
    BY DEF NumbersInv, TypeInv, TypeOK
  <2>3. i + k < pos
    BY <1>1, <2>2
  <2> QED BY <1>1, <2>1, <2>3, ConstantsOfItem DEF IsItem
<1>5. \A m \in DOMAIN query.walk : query.walk[i + k].n \in Found(m) => m = i + k
  BY <1>1, <1>4 DEF Apart, Plain
<1>6. \A b \in DOMAIN clocs : clocs[b].location = query.walk[i + k].n => clocs[b].param = ids[k]
  BY DEF Numbered
<1>7. DOMAIN clocs = 1 .. Len(clocs) /\ Len(clocs) \in Nat
  BY ClocsDomain
<1>8. CASE Recording
  <2>1. pos \in DOMAIN query.walk /\ pos # i + k
    <3>1. PICK op : Visit(op)
      BY <1>8 DEF Recording, VisitConst, VisitDefElem, VisitSubscription
    <3> QED BY <1>4, <3>1, Visited DEF NumbersInv
  <2>2. query.walk[i + k].n \notin Found(pos)
    BY <1>5, <2>1
  <2>3. CASE clocs' = clocs
    BY <1>3, <1>6, <2>3
  <2>4. CASE \E loc \in Nat :
               /\ Found(pos) = {loc} /\ Len(clocs') = Len(clocs) + 1
               /\ \A b \in 1 .. Len(clocs) : clocs'[b] = clocs[b]
               /\ clocs'[Len(clocs) + 1].location = loc
    <3>1. PICK loc \in Nat :
               /\ Found(pos) = {loc} /\ Len(clocs') = Len(clocs) + 1
               /\ \A b \in 1 .. Len(clocs) : clocs'[b] = clocs[b]
               /\ clocs'[Len(clocs) + 1].location = loc
      BY <2>4
    <3>2. clocs' \in Seq(Clocation)
      BY <1>8, ConstantRecorded DEF Recording, NumbersInv
    <3>3. DOMAIN clocs' = 1 .. Len(clocs) + 1
      BY <3>1, <3>2, LenProperties
    <3>4. c # Len(clocs) + 1
      BY <1>3, <2>2, <3>1
    <3>5. c \in 1 .. Len(clocs)
      BY <1>7, <3>3, <3>4
    <3> QED BY <1>3, <1>6, <1>7, <3>1, <3>5
  <2> QED BY <1>8, <2>3, <2>4, RecordedAtEnd
<1>9. CASE LeaveGroupItem
  <2>1. PICK j : /\ IsItem(j) /\ Op(j) = "group" /\ OpenAt(j, pos)
                 /\ Frame.prev \in Nat /\ Len(clocs) = Frame.prev + Size(j)
                 /\ \A t \in 1 .. Size(j) : clocs[Frame.prev + t].location = query.walk[j + t].n
    BY <1>9, ItemToLeave
  <2>2. DOMAIN clocs' = DOMAIN clocs /\ \A b \in DOMAIN clocs : clocs'[b].location = clocs[b].location
    BY <1>9, ItemsStay
  <2>3. clocs[c].location = query.walk[i + k].n /\ clocs[c].param = ids[k]
    BY <1>3, <1>6, <2>2
  <2>4. CASE c <= Frame.prev
    <3>1. clocs'[c] = clocs[c]
      BY <1>9, <2>2, <2>4 DEF LeaveGroupItem
    <3> QED BY <2>3, <3>1
  <2>5. CASE c > Frame.prev
    <3> DEFINE t == c - Frame.prev
    <3>1. c \in 1 .. Len(clocs) /\ Size(j) \in Int
      BY <1>1, <1>7, <2>1, <2>2, EndOfItem, Places DEF Size, IsItem
    <3>2. t \in 1 .. Size(j) /\ Frame.prev + t = c
      BY <1>7, <2>1, <2>5, <3>1
    <3> HIDE DEF t
    <3>3. query.walk[j + t].n = query.walk[i + k].n
      BY <2>1, <2>3, <3>2
    <3>4. /\ query.walk[j + t].n \in Found(j + t) /\ j + t \in DOMAIN query.walk
          /\ OpenAt(j, j + t)
      BY <1>1, <2>1, <3>2, ConstantsOfItem
    <3>5. j + t = i + k
      BY <1>5, <3>3, <3>4
    <3>6. i = j
      BY <1>1, <1>4, <2>1, <3>4, <3>5, OneItem
    <3> QED BY <2>1, <3>6
  <2>6. c \in Nat
    BY <1>7, <2>2
  <2> QED BY <2>1, <2>4, <2>5, <2>6
<1>10. CASE clocs' = clocs
  BY <1>3, <1>6, <1>10
<1> QED BY <1>8, <1>9, <1>10
-----------------------------------------------------------------------------
(* The steps, as far as they concern items. *)
LEMMA Steps ==
  ASSUME NumbersInv, [Next]_vars
  PROVE  /\ query' = query
         /\ Recording \/ LeaveGroupItem \/ clocs' = clocs
         /\ \/ (pos' = pos /\ UNCHANGED <<clocs, refs, selects>> /\ (phase' = "walk" => phase = "walk"))
            \/ Recording \/ VisitParamRef \/ EnterSelect \/ LeaveSelect \/ EnterTarget
            \/ LeaveTarget \/ EnterGroupItem \/ LeaveGroupItem
<1>1. CASE Recording
  BY <1>1, Visited DEF NumbersInv, Recording, VisitConst, VisitDefElem, VisitSubscription
<1>2. CASE \/ VisitParamRef \/ EnterSelect \/ LeaveSelect \/ EnterTarget
           \/ LeaveTarget \/ EnterGroupItem \/ LeaveGroupItem
  BY <1>2 DEF VisitParamRef, EnterSelect, LeaveSelect, EnterTarget, LeaveTarget, EnterGroupItem,
              LeaveGroupItem, InSelect, Visit
<1>3. CASE EndWalk \/ FillLength \/ EndLengths \/ WriteParam \/ WriteRest \/ UNCHANGED vars
  BY <1>3 DEF EndWalk, FillLength, EndLengths, WriteParam, WriteRest, vars, walkVars
<1> QED BY <1>1, <1>2, <1>3 DEF Next, Recording

LEMMA Repeating ==
  ASSUME query \in Queries, Orderly, NEW i, NEW j, i \in DOMAIN query.walk, j \in DOMAIN query.walk,
         Repeats(i, j)
  PROVE  /\ IsItem(i) /\ IsItem(j) /\ Op(i) = "target" /\ Op(j) = "group"
         /\ SameSelect(i, j) /\ FpOf(i) = FpOf(j) /\ Rank(i, "target") = Rank(j, "group")
         /\ Size(i) \in Nat /\ Size(j) = Size(i)
         /\ i < j /\ ItemEnd(i) < j /\ i + Size(i) < j /\ j + Size(j) < ItemEnd(j)
         /\ ItemEnd(j) \in Nat /\ i \in Nat /\ j \in Nat
<1>1. IsItem(i) /\ IsItem(j) /\ Op(i) = "target" /\ Op(j) = "group" /\ i < j /\ Closed
  BY DEF Repeats, SameSelect, IsItem, Op, Orderly
<1>2. SameSelect(i, j) /\ SameExpression(i, j) /\ Rank(i, "target") = Rank(j, "group")
  BY DEF Repeats
<1>3. FpOf(i) = FpOf(j) /\ ItemEnd(i) - i = ItemEnd(j) - j
  BY <1>2 DEF SameExpression
<1>4. /\ i \in Nat /\ j \in Nat /\ ItemEnd(i) \in Nat /\ ItemEnd(j) \in Nat
      /\ ItemEnd(i) > i /\ ItemEnd(j) > j
  BY <1>1, EndOfItem, Places
<1>5. ItemEnd(i) < j
  BY <1>1, ItemsApart
<1> QED BY <1>1, <1>2, <1>3, <1>4, <1>5 DEF Size

LEMMA SingleStep ==
  ASSUME NumbersInv, Orderly, Located, LocationsInv, Single, [Next]_vars
  PROVE  Single'
<1>1. query' = query /\ (Recording \/ LeaveGroupItem \/ clocs' = clocs)
  BY Steps
<1>2. SUFFICES ASSUME NEW i \in DOMAIN query.walk, NEW k \in DOMAIN query.walk,
                      IsItem(i), OpenAt(i, k), Op(k) = "const",
                      NEW c \in DOMAIN clocs', NEW b \in DOMAIN clocs',
                      clocs'[c].location = query.walk[k].n, clocs'[b].location = query.walk[k].n
               PROVE  b = c
  <2>1. /\ query.walk' = query.walk /\ \A i : (IsItem(i)' <=> IsItem(i)) /\ Op(i)' = Op(i)
        /\ \A i, k : OpenAt(i, k)' <=> OpenAt(i, k)
    BY <1>1, QueryStays
  <2> QED BY <2>1 DEF Single
<1>3. \A a, d \in DOMAIN clocs : clocs[a].location = query.walk[k].n
                              /\ clocs[d].location = query.walk[k].n => d = a
  BY <1>2 DEF Single
<1>4. CASE clocs' = clocs
  BY <1>2, <1>3, <1>4
<1>5. CASE LeaveGroupItem
  <2>1. DOMAIN clocs' = DOMAIN clocs /\ \A a \in DOMAIN clocs : clocs'[a].location = clocs[a].location
    BY <1>5, ItemsStay
  <2> QED BY <1>2, <1>3, <2>1
<1>6. CASE Recording /\ clocs' # clocs
  <2>1. PICK loc \in Nat :
               /\ Found(pos) = {loc} /\ Len(clocs') = Len(clocs) + 1
               /\ \A a \in 1 .. Len(clocs) : clocs'[a] = clocs[a]
               /\ clocs'[Len(clocs) + 1].location = loc
    BY <1>6, RecordedAtEnd
  <2>2. clocs' \in Seq(Clocation)
    BY <1>6, ConstantRecorded DEF Recording, NumbersInv
  <2>3. DOMAIN clocs' = 1 .. Len(clocs) + 1 /\ DOMAIN clocs = 1 .. Len(clocs) /\ Len(clocs) \in Nat
    BY <2>1, <2>2, LenProperties, ClocsDomain
  <2>4. pos \in DOMAIN query.walk /\ pos \in Nat
    <3>1. PICK op : Visit(op)
      BY <1>6 DEF Recording, VisitConst, VisitDefElem, VisitSubscription
    <3> QED BY <3>1, Visited DEF NumbersInv
  <2>5. \A m \in DOMAIN query.walk : query.walk[k].n \in Found(m) => m = k
    BY <1>2 DEF Orderly, Apart, Plain
  <2>6. ASSUME NEW a \in 1 .. Len(clocs), clocs'[a].location = query.walk[k].n,
               query.walk[k].n = loc
        PROVE  FALSE
    <3>1. query.walk[k].n \in Locations
      BY <2>1, <2>3, <2>6 DEF Locations
    <3>2. PICK m \in DOMAIN query.walk : m < pos /\ query.walk[k].n \in Found(m)
      BY <3>1 DEF LocationsInv
    <3>3. m = k /\ pos = k
      BY <2>1, <2>4, <2>5, <2>6, <3>2
    <3> QED BY <2>4, <3>2, <3>3
  <2>7. CASE c \in 1 .. Len(clocs) /\ b \in 1 .. Len(clocs)
    BY <1>2, <1>3, <2>1, <2>3, <2>7
  <2>8. CASE c = Len(clocs) + 1 /\ b \in 1 .. Len(clocs)
    BY <1>2, <2>1, <2>6, <2>8
  <2>9. CASE b = Len(clocs) + 1 /\ c \in 1 .. Len(clocs)
    BY <1>2, <2>1, <2>6, <2>9
  <2> QED BY <2>3, <2>7, <2>8, <2>9
<1> QED BY <1>1, <1>4, <1>5, <1>6

(* The constants of an item that is left get the numbers of its target. *)
LEMMA NumbersTaken ==
  ASSUME NumbersInv, Orderly, Located, ItemsInv, Single, LeaveGroupItem,
         NEW i \in DOMAIN query.walk, NEW j \in DOMAIN query.walk, Repeats(i, j), ItemEnd(j) = pos
  PROVE  \E ids : Numbered(i, ids, Size(i))' /\ Numbered(j, ids, Size(i))'
<1>1. /\ query \in Queries /\ Closed /\ Visit("group_end") /\ query' = query /\ pos \in Nat
  BY Visited DEF NumbersInv, TypeInv, Orderly, LeaveGroupItem, InSelect
<1>2. /\ IsItem(i) /\ IsItem(j) /\ Op(i) = "target" /\ Size(i) \in Nat /\ Size(j) = Size(i)
      /\ i + Size(i) < j /\ j < pos /\ i \in Nat /\ j \in Nat
  BY <1>1, Repeating, EndOfItem, Places
<1>3. OpenAt(j, pos)
  BY <1>1, <1>2, EndOfItem
<1>4. /\ Frame.prev \in Nat /\ Len(clocs) = Frame.prev + Size(j)
      /\ \A k \in 1 .. Size(j) : clocs[Frame.prev + k].location = query.walk[j + k].n
      /\ \E ids : Frame.match = <<ids>> /\ Numbered(i, ids, Size(i))
  <2>1. PICK g : /\ IsItem(g) /\ OpenAt(g, pos)
               /\ Frame.prev \in Nat
               /\ Len(clocs) = Frame.prev + Size(g)
               /\ \A k \in 1 .. Size(g) : clocs[Frame.prev + k].location = query.walk[g + k].n
    BY ItemToLeave
  <2>2. g = j
    BY <1>1, <1>2, <1>3, <2>1, OneItem
  <2>3. \E ids : Frame.match = <<ids>> /\ Numbered(i, ids, Size(i))
    <3>1. phase = "walk"
      BY <1>1 DEF Visit
    <3>2. Op(j) = "group"
      BY <1>1, Repeating
    <3>3. Matched(j)
      BY <1>2, <1>3, <3>1, <3>2 DEF ItemsInv, OpenGroup
    <3> QED BY <3>3 DEF Matched
  <2>4. /\ Frame.prev \in Nat /\ Len(clocs) = Frame.prev + Size(j)
        /\ \A k \in 1 .. Size(j) : clocs[Frame.prev + k].location = query.walk[j + k].n
    BY <2>1, <2>2
  <2> QED BY <2>3, <2>4
<1>5. PICK ids : Frame.match = <<ids>> /\ Numbered(i, ids, Size(i))
  BY <1>4
<1>6. Frame.match # <<>> /\ Frame.match[1] = ids /\ Len(ids) = Size(i)
  BY <1>5 DEF Numbered
<1>7. Len(ids) = Len(clocs) - Frame.prev
  BY <1>2, <1>4, <1>6
<1>8. clocs' = [c \in DOMAIN clocs |->
                 IF c <= Frame.prev THEN clocs[c]
                 ELSE [clocs[c] EXCEPT !.param = ids[c - Frame.prev]]]
  BY <1>6, <1>7 DEF LeaveGroupItem
<1>9. /\ DOMAIN clocs = 1 .. Len(clocs) /\ Len(clocs) \in Nat
      /\ \A c \in DOMAIN clocs : clocs[c] \in Clocation
  <2>1. clocs \in Seq(Clocation)
    BY DEF NumbersInv, TypeInv, TypeOK, Clocation
  <2>2. \A c \in 1 .. Len(clocs) : clocs[c] \in Clocation
    BY <2>1, ElementOfSeq
  <2> QED BY <2>1, <2>2, LenProperties
<1>10. Numbered(i, ids, Size(i))'
  <2>1. i + Size(i) < pos
    BY <1>1, <1>2
  <2>2. Size(i)' = Size(i)
    BY <1>1, QueryStays
  <2>3. \A n \in Nat : n = Size(i) => Numbered(i, ids, n)'
    BY <1>2, <1>5, <2>1, NumberedStays
  <2> QED BY <1>2, <2>2, <2>3
<1>11. Numbered(j, ids, Size(i))'
  <2>1. SUFFICES ASSUME NEW k \in 1 .. Size(j), NEW c \in DOMAIN clocs,
                        clocs[c].location = query.walk[j + k].n
                 PROVE  clocs'[c].param = ids[k]
    <3>1. /\ DOMAIN clocs' = DOMAIN clocs
          /\ \A a \in DOMAIN clocs : clocs'[a].location = clocs[a].location
      BY ItemsStay
    <3>2. Size(i)' = Size(j) /\ query.walk' = query.walk /\ Len(ids) = Size(j)
      BY <1>1, <1>2, <1>6, QueryStays
    <3> QED BY <3>1, <3>2 DEF Numbered
  <2>2. /\ j + k \in DOMAIN query.walk /\ OpenAt(j, j + k) /\ Op(j + k) = "const"
    BY <1>1, <1>2, ConstantsOfItem DEF Orderly
  <2>3. Frame.prev + k \in DOMAIN clocs /\ clocs[Frame.prev + k].location = query.walk[j + k].n
    BY <1>2, <1>4, <1>9
  <2>4. c = Frame.prev + k
    BY <1>2, <2>1, <2>2, <2>3 DEF Single
  <2>5. ~(c <= Frame.prev) /\ c - Frame.prev = k
    BY <1>4, <2>4
  <2>6. clocs'[c] = [clocs[c] EXCEPT !.param = ids[k]]
    BY <1>8, <2>5
  <2> QED BY <1>9, <2>6 DEF Clocation
<1> QED BY <1>10, <1>11

LEMMA AgreedStep ==
  ASSUME NumbersInv, Orderly, Located, ItemsInv, Single, Agreed, [Next]_vars
  PROVE  Agreed'
<1>1. query' = query /\ query \in Queries
  BY Steps DEF NumbersInv, TypeInv
<1>2. SUFFICES ASSUME NEW i \in DOMAIN query.walk, NEW j \in DOMAIN query.walk,
                      Repeats(i, j), ItemEnd(j) < pos'
               PROVE  \E ids : Numbered(i, ids, Size(i))' /\ Numbered(j, ids, Size(i))'
  <2>1. /\ query.walk' = query.walk /\ \A h : ItemEnd(h)' = ItemEnd(h)
        /\ \A h, g : Repeats(h, g)' <=> Repeats(h, g)
    BY <1>1, QueryStays
  <2> QED BY <2>1 DEF Agreed
<1>3. /\ IsItem(i) /\ IsItem(j) /\ Op(i) = "target" /\ Op(j) = "group"
      /\ Size(i) \in Nat /\ Size(j) = Size(i) /\ i < j /\ ItemEnd(i) < j
      /\ i + Size(i) < j /\ j + Size(j) < ItemEnd(j)
      /\ ItemEnd(j) \in Nat /\ i \in Nat /\ j \in Nat
  BY <1>1, <1>2, Repeating
<1>4. Size(i)' = Size(i) /\ pos \in Nat /\ Closed
  BY <1>1, QueryStays DEF NumbersInv, TypeInv, TypeOK, Orderly
<1>5. CASE ItemEnd(j) < pos
  <2>1. PICK ids : Numbered(i, ids, Size(i)) /\ Numbered(j, ids, Size(i))
    BY <1>2, <1>5 DEF Agreed
  <2>2. Recording \/ LeaveGroupItem \/ (clocs' = clocs /\ query' = query)
    BY <1>1, Steps
  <2>3. i + Size(i) < pos /\ j + Size(i) < pos
    BY <1>3, <1>4, <1>5
  <2>4. ~OpenAt(j, pos)
    BY <1>1, <1>3, <1>4, <1>5, EndOfItem
  <2>5. \A n \in Nat : n = Size(i) => Numbered(i, ids, n)'
    BY <1>3, <2>1, <2>2, <2>3, NumberedStays
  <2>6. \A n \in Nat : n = Size(i) => Numbered(j, ids, n)'
    BY <1>3, <2>1, <2>2, <2>3, <2>4, NumberedStays
  <2> QED BY <1>3, <1>4, <2>5, <2>6
<1>6. CASE ~(ItemEnd(j) < pos)
  <2>1. pos' # pos
    BY <1>2, <1>6
  <2>2. \E op : Visit(op)
    BY <2>1, Steps DEF Recording, VisitConst, VisitDefElem, VisitSubscription, VisitParamRef,
      EnterSelect, LeaveSelect, EnterTarget, LeaveTarget, EnterGroupItem, LeaveGroupItem, InSelect
  <2>3. ItemEnd(j) = pos /\ Step = query.walk[pos]
    <3>1. pos' = pos + 1
      BY <2>2, Visited DEF NumbersInv
    <3>2. ItemEnd(j) < pos + 1
      BY <1>2, <3>1
    <3>3. ItemEnd(j) \in Nat /\ pos \in Nat
      BY <1>3, <1>4
    <3>4. ItemEnd(j) = pos
      BY <1>6, <3>2, <3>3
    <3> QED BY <3>4 DEF Step
  <2>4. Step.op = "group_end"
    BY <1>1, <1>3, <1>4, <2>3, EndOfItem DEF EndOp, Op
  <2>5. LeaveGroupItem
    BY <2>1, <2>4, Steps DEF Recording, VisitConst, VisitDefElem, VisitSubscription, VisitParamRef,
      EnterSelect, LeaveSelect, EnterTarget, LeaveTarget, EnterGroupItem, InSelect, Visit
  <2> QED BY <1>2, <2>3, <2>5, NumbersTaken
<1> QED BY <1>5, <1>6
-----------------------------------------------------------------------------
(* Which targets of a SELECT are waiting changes when a target or the      *)
(* SELECT is over, and when an item begins.                                *)

LEMMA TakenIs ==
  ASSUME NumbersInv, NEW d, NEW fp
  PROVE  /\ Taken(d, fp) \in Nat
         /\ IsFiniteSet({j \in DOMAIN query.walk : Op(j) = "group" /\ Here(j, d) /\ FpOf(j) = fp})
<1> DEFINE T == {j \in DOMAIN query.walk : Op(j) = "group" /\ Here(j, d) /\ FpOf(j) = fp}
<1>1. IsFiniteSet(DOMAIN query.walk) /\ T \in SUBSET DOMAIN query.walk
  BY Places, FS_Interval DEF NumbersInv, TypeInv
<1>2. IsFiniteSet(T)
  <2> HIDE DEF T
  <2> QED BY <1>1, FS_Subset
<1>3. Cardinality(T) \in Nat
  <2> HIDE DEF T
  <2> QED BY <1>2, FS_CardinalityType
<1> QED BY <1>2, <1>3 DEF Taken

LEMMA TakenNext ==
  ASSUME NumbersInv, NEW op, Visit(op), NEW d,
         d # Depth(pos) \/ op \notin {"group", "select_end"}, NEW fp
  PROVE  Taken(d, fp)' = Taken(d, fp)
<1>1. query' = query /\ Op(pos) = op
  BY Visited DEF NumbersInv, Op
<1>2. /\ query.walk' = query.walk /\ \A j : Op(j)' = Op(j) /\ FpOf(j)' = FpOf(j)
  BY <1>1, QueryStays
<1>3. \A j : Op(j) = "group" => (Here(j, d)' <=> Here(j, d))
  BY <1>1, HereNext
<1>4. {j \in DOMAIN query.walk : Op(j) = "group" /\ Here(j, d) /\ FpOf(j) = fp}'
        = {j \in DOMAIN query.walk : Op(j) = "group" /\ Here(j, d) /\ FpOf(j) = fp}
  BY <1>2, <1>3
<1> QED BY <1>4 DEF Taken

LEMMA WaitingNext ==
  ASSUME NumbersInv, Orderly, NEW op, Visit(op), NEW d,
         d # Depth(pos) \/ op \notin {"target_end", "group", "select_end"}, NEW i
  PROVE  Waiting(i, d)' <=> Waiting(i, d)
<1>1. /\ query' = query /\ Op(pos) = op /\ pos' = pos + 1 /\ pos \in Nat
      /\ query \in Queries /\ Closed
  BY Visited DEF NumbersInv, TypeInv, Op, Orderly
<1>2. /\ (IsItem(i)' <=> IsItem(i)) /\ Op(i)' = Op(i) /\ ItemEnd(i)' = ItemEnd(i)
      /\ Rank(i, "target")' = Rank(i, "target") /\ FpOf(i)' = FpOf(i)
  BY <1>1, QueryStays
<1>3. Taken(d, FpOf(i))' = Taken(d, FpOf(i))
  <2>1. /\ query.walk' = query.walk /\ \A j : Op(j)' = Op(j) /\ FpOf(j)' = FpOf(j)
    BY <1>1, QueryStays
  <2>2. \A j : Op(j) = "group" => (Here(j, d)' <=> Here(j, d))
    BY <1>1, HereNext
  <2>3. {j \in DOMAIN query.walk : Op(j) = "group" /\ Here(j, d) /\ FpOf(j) = FpOf(i)}'
          = {j \in DOMAIN query.walk : Op(j) = "group" /\ Here(j, d) /\ FpOf(j) = FpOf(i)}
    BY <2>1, <2>2
  <2> QED BY <2>3 DEF Taken
<1>4. ASSUME IsItem(i), Op(i) = "target"
      PROVE  Here(i, d)' /\ ItemEnd(i) < pos + 1 <=> Here(i, d) /\ ItemEnd(i) < pos
  <2>1. ItemEnd(i) \in Nat /\ i < ItemEnd(i) /\ i \in Nat /\ Op(ItemEnd(i)) = "target_end"
    BY <1>1, <1>4, EndOfItem, Places DEF IsItem, EndOp
  <2>2. Here(i, d)' <=> /\ Here(i, d) \/ (i = pos /\ Depth(pos) = d)
                        /\ ~(op = "select_end" /\ Depth(pos) = d)
    BY HereNext
  <2>3. CASE i = pos
    BY <1>1, <2>1, <2>3 DEF Here
  <2>4. CASE i # pos
    <3>1. Here(i, d)' <=> Here(i, d)
      BY <2>2, <2>4
    <3>2. ASSUME Here(i, d), ItemEnd(i) = pos PROVE FALSE
      <4>1. OpenAt(i, pos)
        BY <1>1, <1>4, <2>1, <3>2, EndOfItem
      <4>2. Depth(pos) = d
        BY <1>1, <1>4, <3>2, <4>1, DepthInItem DEF Here
      <4> QED BY <1>1, <2>1, <3>2, <4>2
    <3> QED BY <1>1, <2>1, <3>1, <3>2
  <2> QED BY <2>3, <2>4
<1> QED BY <1>1, <1>2, <1>3, <1>4 DEF Waiting

(* Types of a frame. *)
LEMMA FrameIs ==
  ASSUME NumbersInv, NEW d \in 1 .. Len(selects)
  PROVE  /\ selects[d] \in NumberedSelect(Ids) /\ selects[d].list \in Seq(NumberedTarget(Ids))
         /\ DOMAIN selects[d].list = 1 .. Len(selects[d].list) /\ Len(selects[d].list) \in Nat
         /\ Len(selects) \in Nat /\ selects \in Seq(NumberedSelect(Ids))
<1>1. selects \in Seq(NumberedSelect(Ids))
  BY DEF NumbersInv, NumbersIn
<1>2. selects[d] \in NumberedSelect(Ids) /\ Len(selects) \in Nat
  BY <1>1, ElementOfSeq, LenProperties
<1>3. selects[d].list \in Seq(NumberedTarget(Ids))
  BY <1>2 DEF NumberedSelect
<1> QED BY <1>1, <1>2, <1>3, LenProperties

LEMMA WaitingNumbers ==
  ASSUME NumbersInv, Orderly, Located, ItemsInv,
         Recording \/ LeaveGroupItem \/ (clocs' = clocs /\ query' = query),
         NEW i, NEW d, Waiting(i, d), NEW ids, Numbered(i, ids, Size(i))
  PROVE  Numbered(i, ids, Size(i))'
<1>1. /\ query \in Queries /\ Closed /\ pos \in Nat
      /\ IsItem(i) /\ Op(i) = "target" /\ ItemEnd(i) < pos
  BY DEF NumbersInv, TypeInv, TypeOK, Orderly, Waiting
<1>2. i \in Nat /\ ItemEnd(i) \in Nat /\ i < ItemEnd(i)
  BY <1>1, EndOfItem, Places DEF IsItem
<1>3. Size(i) \in Nat /\ i + Size(i) < pos
  BY <1>1, <1>2 DEF Size
<1>4. query' = query
  BY Visited DEF NumbersInv, Recording, LeaveGroupItem, InSelect, VisitConst, VisitDefElem,
       VisitSubscription
<1>5. Size(i)' = Size(i)
  BY <1>4, QueryStays
<1>6. \A n \in Nat : n = Size(i) => Numbered(i, ids, n)'
  BY <1>1, <1>3, NumberedStays
<1> QED BY <1>3, <1>5, <1>6

LEMMA ListStays ==
  ASSUME NumbersInv, Orderly, Located, ItemsInv,
         Recording \/ LeaveGroupItem \/ (clocs' = clocs /\ query' = query),
         NEW d, selects[d]' = selects[d], \A i : Waiting(i, d)' <=> Waiting(i, d),
         NEW src, ListedAs(d, src)
  PROVE  ListedAs(d, src)'
<1> DEFINE list == selects[d].list
<1>1. query' = query /\ list' = list
  BY Visited DEF NumbersInv, Recording, LeaveGroupItem, InSelect, VisitConst, VisitDefElem,
       VisitSubscription
<1>2. \A i : FpOf(i)' = FpOf(i)
  BY <1>1, QueryStays
<1>3. ASSUME NEW m \in DOMAIN list
      PROVE  /\ Waiting(src[m], d)' /\ list[m].fp = FpOf(src[m])'
             /\ Numbered(src[m], list[m].ids, Size(src[m]))'
  <2>1. /\ Waiting(src[m], d) /\ list[m].fp = FpOf(src[m])
        /\ Numbered(src[m], list[m].ids, Size(src[m]))
    BY <1>3 DEF ListedAs
  <2>2. \A ids : Numbered(src[m], ids, Size(src[m])) => Numbered(src[m], ids, Size(src[m]))'
    BY <2>1, WaitingNumbers
  <2>3. Numbered(src[m], list[m].ids, Size(src[m]))'
    <3>1. list[m].ids' = list[m].ids
      BY <1>1
    <3> QED BY <2>1, <2>2, <3>1
  <2> QED BY <1>2, <2>1, <2>3
<1> QED BY <1>1, <1>3 DEF ListedAs

(* A target that is left waits for an item, after those that do already. *)
Left(t) ==
  /\ IsItem(t) /\ Op(t) = "target" /\ OpenAt(t, pos) /\ ItemEnd(t) = pos
  /\ FpOf(t) = Step.fp /\ t \in Nat /\ Size(t) = pos - 1 - t
  /\ \A i : Waiting(i, Depth(pos)) => i < t
  /\ \A d, i : d = Depth(pos) => (Waiting(i, d)' <=> Waiting(i, d) \/ i = t)

LEMMA TargetWaits ==
  ASSUME NumbersInv, Orderly, Visit("target_end")
  PROVE  \E t : Left(t)
<1>1. /\ query' = query /\ Op(pos) = "target_end" /\ pos' = pos + 1 /\ pos \in Nat \ {0}
      /\ query \in Queries /\ Closed /\ Step = query.walk[pos] /\ pos \in DOMAIN query.walk
  BY Visited DEF NumbersInv, TypeInv, Op, Orderly
<1>2. PICK t : OpenAt(t, pos) /\ Op(t) = "target"
  BY <1>1 DEF Closed
<1>3. IsItem(t)
  BY <1>2 DEF IsItem, OpenAt
<1>4. ItemEnd(t) = pos /\ t \in Nat /\ t < pos
  BY <1>2, <1>3, InsideItem DEF EndOp
<1>5. FpOf(t) = Step.fp /\ Size(t) = pos - 1 - t
  BY <1>1, <1>2, <1>4 DEF FpOf, Size, Op
<1>6. Depth(t) = Depth(pos)
  BY <1>1, <1>2, <1>3, DepthInItem
<1>7. Here(t, Depth(pos))
  <2>1. \A k \in t + 1 .. pos - 1 : Op(k) \in Plain
    BY <1>2 DEF OpenAt
  <2>2. \A k \in t .. pos - 1 : k = t \/ k \in t + 1 .. pos - 1
    BY <1>1, <1>4
  <2>3. \A k \in t .. pos - 1 : Op(k) # "select_end"
    BY <1>2, <2>1, <2>2 DEF Plain
  <2> QED BY <1>3, <1>4, <1>6, <2>3 DEF Here, IsItem
<1>8. ASSUME NEW i, Waiting(i, Depth(pos)) PROVE i < t
  <2>1. IsItem(i) /\ ItemEnd(i) < pos /\ i \in Nat /\ i < pos
    BY <1>1, <1>8, Places DEF Waiting, Here, IsItem
  <2>2. i # t
    <3>1. ~(pos < pos)
      BY <1>1
    <3> QED BY <1>4, <2>1, <3>1
  <2>3. CASE t < i
    <3>1. ItemEnd(t) < i
      BY <1>1, <1>3, <2>1, <2>3, ItemsApart
    <3> QED BY <1>1, <1>4, <2>1, <3>1
  <2> QED BY <1>4, <2>1, <2>2, <2>3
<1>9. ASSUME NEW d, NEW i, d = Depth(pos) PROVE Waiting(i, d)' <=> Waiting(i, d) \/ i = t
  <2>1. /\ (IsItem(i)' <=> IsItem(i)) /\ Op(i)' = Op(i) /\ ItemEnd(i)' = ItemEnd(i)
        /\ Rank(i, "target")' = Rank(i, "target") /\ FpOf(i)' = FpOf(i)
    BY <1>1, QueryStays
  <2>2. Taken(d, FpOf(i))' = Taken(d, FpOf(i))
    <3>1. /\ query.walk' = query.walk /\ \A j : Op(j)' = Op(j) /\ FpOf(j)' = FpOf(j)
      BY <1>1, QueryStays
    <3>2. \A j : Op(j) = "group" => (Here(j, d)' <=> Here(j, d))
      BY <1>1, HereNext
    <3>3. {j \in DOMAIN query.walk : Op(j) = "group" /\ Here(j, d) /\ FpOf(j) = FpOf(i)}'
            = {j \in DOMAIN query.walk : Op(j) = "group" /\ Here(j, d) /\ FpOf(j) = FpOf(i)}
      BY <3>1, <3>2
    <3> QED BY <3>3 DEF Taken
  <2>3. i # pos /\ Op(i) = "target" => (Here(i, d)' <=> Here(i, d))
    BY HereNext
  <2>4. CASE ~(IsItem(i) /\ Op(i) = "target")
    BY <1>2, <1>3, <2>1, <2>4 DEF Waiting
  <2>5. CASE IsItem(i) /\ Op(i) = "target" /\ i # t
    <3>1. i # pos /\ i \in Nat /\ ItemEnd(i) \in Nat /\ i < ItemEnd(i)
      BY <1>1, <2>5, EndOfItem, Places DEF IsItem
    <3>2. ItemEnd(i) # pos
      <4>1. ItemEnd(i) = pos => OpenAt(i, pos)
        BY <1>1, <2>5, <3>1, EndOfItem
      <4> QED BY <1>1, <1>2, <1>3, <2>5, <4>1, OneItem
    <3>3. ItemEnd(i) < pos + 1 <=> ItemEnd(i) < pos
      BY <1>1, <3>1, <3>2
    <3> QED BY <1>1, <2>1, <2>2, <2>3, <2>5, <3>1, <3>3 DEF Waiting
  <2>6. CASE i = t
    <3>1. Here(t, d)' /\ ItemEnd(t) < pos + 1
      <4>1. Here(t, d)
        BY <1>7, <1>9
      <4>2. Here(t, d)' <=> /\ Here(t, d) \/ (t = pos /\ Depth(pos) = d)
                            /\ ~("target_end" = "select_end" /\ Depth(pos) = d)
        BY HereNext
      <4>3. ItemEnd(t) < pos + 1
        BY <1>1, <1>4
      <4> QED BY <4>1, <4>2, <4>3
    <3>2. {j \in DOMAIN query.walk : Op(j) = "group" /\ Here(j, d) /\ FpOf(j) = FpOf(t)} = {}
      <4> SUFFICES ASSUME NEW j \in DOMAIN query.walk, Op(j) = "group", Here(j, d) PROVE FALSE
        OBVIOUS
      <4>1. IsItem(j) /\ j < pos /\ j \in Nat
        BY <1>1, Places DEF IsItem, Here
      <4>2. CASE j < t
        <5>1. SameSelect(j, t)
          BY <1>7, <1>9, <4>2, HereIsSame
        <5> QED BY <1>2, <1>3, <4>1, <5>1 DEF Orderly, Ordered
      <4>3. CASE t < j
        <5>1. ItemEnd(t) < j
          BY <1>1, <1>3, <4>1, <4>3, ItemsApart
        <5> QED BY <1>1, <1>4, <4>1, <5>1
      <4>4. j # t
        BY <1>2
      <4> QED BY <1>4, <4>1, <4>2, <4>3, <4>4
    <3>3. Taken(d, FpOf(t)) = 0
      BY <3>2, FS_EmptySet DEF Taken
    <3>4. Rank(t, "target") > 0
      BY <1>1, <1>2, <1>3, RankIs
    <3> QED BY <1>1, <1>2, <1>3, <2>1, <2>2, <2>6, <3>1, <3>3, <3>4 DEF Waiting
  <2> QED BY <2>4, <2>5, <2>6
<1>10. Left(t)
  BY <1>2, <1>3, <1>4, <1>5, <1>8, <1>9 DEF Left
<1> QED BY <1>10

LEMMA TargetListed ==
  ASSUME NumbersInv, Orderly, Located, SelectsInv, ItemsInv, LeaveTarget,
         NEW src, src \in [DOMAIN selects[Len(selects)].list -> DOMAIN query.walk],
         ListedAs(Len(selects), src)
  PROVE  \E new \in [DOMAIN selects'[Len(selects)].list -> DOMAIN query.walk] :
           \A d : d = Len(selects) => ListedAs(d, new)'
<1> DEFINE d == Len(selects)
           list == selects[d].list
<1>1. /\ Visit("target_end") /\ clocs' = clocs /\ query' = query /\ selects # <<>>
      /\ selects' = [selects EXCEPT ![d].list = Append(@, [fp |-> Step.fp, ids |-> refs.ids])]
      /\ phase = "walk"
  BY Visited DEF LeaveTarget, InSelect, NumbersInv, Visit
<1>2. d = Depth(pos)
  BY <1>1 DEF SelectsInv
<1>0. PICK t : Left(t)
  BY <1>1, TargetWaits
<1>3. /\ IsItem(t) /\ Op(t) = "target" /\ OpenAt(t, pos) /\ ItemEnd(t) = pos
      /\ FpOf(t) = Step.fp /\ t \in Nat /\ Size(t) = pos - 1 - t
      /\ \A i : Waiting(i, Depth(pos)) => i < t
      /\ \A e, i : e = Depth(pos) => (Waiting(i, e)' <=> Waiting(i, e) \/ i = t)
  BY <1>0 DEF Left
<1>4. refs.on /\ Numbered(t, refs.ids, Size(t))
  BY <1>1, <1>3 DEF ItemsInv, OpenTarget
<1>5. d \in 1 .. Len(selects) /\ d \in DOMAIN selects
  <2>1. selects \in Seq(NumberedSelect(Ids))
    BY DEF NumbersInv, NumbersIn
  <2>2. Len(selects) \in Nat /\ DOMAIN selects = 1 .. Len(selects) /\ Len(selects) # 0
    BY <1>1, <2>1, EmptySeq, LenProperties
  <2> QED BY <2>2
<1>6. /\ selects[d] \in NumberedSelect(Ids) /\ list \in Seq(NumberedTarget(Ids))
      /\ DOMAIN list = 1 .. Len(list) /\ Len(list) \in Nat
  BY <1>5, FrameIs
<1> DEFINE item == [fp |-> Step.fp, ids |-> refs.ids]
           new == [m \in 1 .. Len(list) + 1 |-> IF m <= Len(list) THEN src[m] ELSE t]
<1>7. selects'[d].list = Append(list, item)
  <2>1. selects[d] \in [list : Seq(NumberedTarget(Ids)), prev : Nat, match : Seq(Seq(Ids))]
    BY <1>6 DEF NumberedSelect
  <2>2. selects'[d] = [selects[d] EXCEPT !.list = Append(@, item)]
    BY <1>1, <1>5
  <2> QED BY <2>1, <2>2
<1>8. /\ DOMAIN selects'[d].list = 1 .. Len(list) + 1
      /\ \A m \in 1 .. Len(list) : selects'[d].list[m] = list[m]
      /\ selects'[d].list[Len(list) + 1] = item
  <2>1. Step.fp \in Prints /\ refs.ids \in Seq(Ids)
    BY <1>1, Visited DEF NumbersInv, NumbersIn, Prints, Step
  <2>2. item \in NumberedTarget(Ids)
    BY <2>1 DEF NumberedTarget
  <2> HIDE DEF item, list
  <2>3. Append(list, item) \in Seq(NumberedTarget(Ids))
    BY <1>6, <2>2, AppendProperties
  <2> QED BY <1>6, <1>7, <2>2, <2>3, AppendProperties, LenProperties
<1>9. \A m \in 1 .. Len(list) : src[m] \in DOMAIN query.walk /\ new[m] = src[m]
  BY <1>6
<1>10. new[Len(list) + 1] = t /\ t \in DOMAIN query.walk
  BY <1>3, <1>6 DEF IsItem
<1>11. new \in [DOMAIN selects'[d].list -> DOMAIN query.walk]
  BY <1>6, <1>8, <1>9, <1>10
<1>12. \A m \in 1 .. Len(list) + 1 : m \in 1 .. Len(list) \/ m = Len(list) + 1
  BY <1>6
<1> HIDE DEF list, new, item
<1>13. \A m \in 1 .. Len(list) :
         /\ Waiting(src[m], d) /\ list[m].fp = FpOf(src[m])
         /\ Numbered(src[m], list[m].ids, Size(src[m]))
  BY <1>6 DEF ListedAs, list
<1>14. \A i : Waiting(i, d) => \E m \in 1 .. Len(list) : src[m] = i
  BY <1>6 DEF ListedAs, list
<1>15. \A m, n \in 1 .. Len(list) : m < n => src[m] < src[n]
  BY <1>6 DEF ListedAs, list
<1>16. ASSUME NEW e, e = d, NEW fun, fun = new PROVE ListedAs(e, fun)'
  <2>1. \A m, n \in 1 .. Len(list) + 1 : m < n => new[m] < new[n]
    <3> SUFFICES ASSUME NEW m \in 1 .. Len(list) + 1, NEW n \in 1 .. Len(list) + 1, m < n
                 PROVE  new[m] < new[n]
      OBVIOUS
    <3>1. m \in 1 .. Len(list)
      BY <1>6
    <3>2. CASE n \in 1 .. Len(list)
      BY <1>9, <1>15, <3>1, <3>2
    <3>3. CASE n = Len(list) + 1
      BY <1>2, <1>3, <1>9, <1>10, <1>13, <3>1, <3>3
    <3> QED BY <1>12, <3>2, <3>3
  <2>2. ASSUME NEW m \in 1 .. Len(list) + 1, NEW i, i = new[m], NEW ids, ids = selects'[d].list[m].ids
        PROVE  Waiting(i, e)' /\ selects'[d].list[m].fp = FpOf(i) /\ Numbered(i, ids, Size(i))
    <3>1. CASE m \in 1 .. Len(list)
      BY <1>2, <1>3, <1>8, <1>9, <1>13, <1>16, <2>2, <3>1
    <3>2. CASE m = Len(list) + 1
      BY <1>2, <1>3, <1>4, <1>8, <1>10, <1>16, <2>2, <3>2 DEF item
    <3> QED BY <1>12, <3>1, <3>2
  <2>3. \A i, ids : /\ FpOf(i)' = FpOf(i)
                    /\ Numbered(i, ids, Size(i))' <=> Numbered(i, ids, Size(i))
    BY <1>1, QueryStays DEF Numbered
  <2>4. ASSUME NEW i, Waiting(i, e)' PROVE \E m \in 1 .. Len(list) + 1 : new[m] = i
    <3>1. Waiting(i, d) \/ i = t
      BY <1>2, <1>3, <1>16, <2>4
    <3>2. CASE Waiting(i, d)
      <4>1. PICK m \in 1 .. Len(list) : src[m] = i
        BY <1>14, <3>2
      <4>2. m \in 1 .. Len(list) + 1
        BY <1>6
      <4> QED BY <1>9, <4>1, <4>2
    <3>3. CASE i = t
      <4>1. Len(list) + 1 \in 1 .. Len(list) + 1
        BY <1>6
      <4> QED BY <1>10, <3>3, <4>1
    <3> QED BY <3>1, <3>2, <3>3
  <2>5. ASSUME NEW m \in 1 .. Len(list) + 1
        PROVE  /\ Waiting(fun[m], e)' /\ selects'[e].list[m].fp = FpOf(fun[m])'
               /\ Numbered(fun[m], selects[e].list[m].ids, Size(fun[m]))'
    <3>1. PICK i, ids : i = fun[m] /\ ids = selects'[d].list[m].ids
      OBVIOUS
    <3>2. Waiting(i, e)' /\ selects'[d].list[m].fp = FpOf(i) /\ Numbered(i, ids, Size(i))
      BY <1>16, <2>2, <3>1
    <3>3. FpOf(i)' = FpOf(i) /\ Numbered(i, ids, Size(i))'
      BY <2>3, <3>2
    <3> QED BY <1>16, <3>1, <3>2, <3>3
  <2> QED BY <1>8, <1>16, <2>1, <2>4, <2>5 DEF ListedAs
<1> QED BY <1>11, <1>16

(* A GROUP BY item that begins is the next with its fingerprint, and those *)
(* that wait are the targets with a higher number.                         *)
Awaited(i) ==
  Waiting(i, Depth(pos)) /\ FpOf(i) = Step.fp /\ Rank(i, "target") = Rank(pos, "group")

Begins ==
  /\ IsItem(pos) /\ FpOf(pos) = Step.fp /\ Rank(pos, "group") \in Nat
  /\ \A i : Waiting(i, Depth(pos)) /\ FpOf(i) = Step.fp =>
       Rank(i, "target") \in Nat /\ Rank(i, "target") >= Rank(pos, "group")
  /\ \A d, i : d = Depth(pos) => (Waiting(i, d)' <=> Waiting(i, d) /\ ~Awaited(i))
  /\ \A i \in DOMAIN query.walk : Repeats(i, pos) => Awaited(i)
  /\ \A i, k : Awaited(i) /\ Awaited(k) => i = k
  /\ \A i : Waiting(i, Depth(pos)) /\ FpOf(i) = Step.fp /\ ~Awaited(i) =>
       \E k : Waiting(k, Depth(pos)) /\ FpOf(k) = Step.fp /\ k < i

LEMMA GroupBegins ==
  ASSUME NumbersInv, Orderly, Visit("group")
  PROVE  Begins
<1> DEFINE d == Depth(pos)
           fp == Step.fp
           T == {j \in DOMAIN query.walk : Op(j) = "group" /\ Here(j, d) /\ FpOf(j) = fp}
<1>1. /\ query' = query /\ Op(pos) = "group" /\ pos' = pos + 1 /\ pos \in Nat \ {0}
      /\ query \in Queries /\ Closed /\ Step = query.walk[pos] /\ pos \in DOMAIN query.walk
  BY Visited DEF NumbersInv, TypeInv, Op, Orderly
<1>2. IsItem(pos) /\ FpOf(pos) = fp
  BY <1>1 DEF IsItem, FpOf, Op
<1>3. /\ Taken(d, fp) = Cardinality(T) /\ Cardinality(T) \in Nat /\ IsFiniteSet(T)
      /\ pos \notin T /\ Cardinality(T \cup {pos}) = Cardinality(T) + 1
  <2>1. IsFiniteSet(T) /\ Taken(d, fp) \in Nat
    BY TakenIs
  <2>2. pos \notin T
    BY <1>1 DEF Here
  <2>3. Taken(d, fp) = Cardinality(T)
    BY DEF Taken
  <2> HIDE DEF T
  <2> QED BY <2>1, <2>2, <2>3, FS_AddElement
<1>4. Rank(pos, "group") = Cardinality(T) + 1
  <2>1. \A k \in DOMAIN query.walk : SameSelect(k, pos) <=> Here(k, d)
    BY <1>1, HereIsNow
  <2>2. Ranked(pos, "group") = T \cup {pos}
    BY <1>1, <1>2, <2>1 DEF Ranked
  <2>3. Rank(pos, "group") = Cardinality(Ranked(pos, "group"))
    BY <1>1, <1>2, RankIs
  <2> QED BY <1>3, <2>2, <2>3
<1> HIDE DEF d, T, fp
<1>5. \A i : IsItem(i) => i \in Nat /\ i \in DOMAIN query.walk /\ Rank(i, "target") \in Nat
  BY <1>1, Places, RankIs DEF IsItem
<1>6. ASSUME NEW i, Waiting(i, d), FpOf(i) = fp
      PROVE  Rank(i, "target") \in Nat /\ Rank(i, "target") >= Rank(pos, "group")
  <2>1. Rank(i, "target") > Taken(d, fp) /\ Rank(i, "target") \in Nat
    BY <1>5, <1>6 DEF Waiting
  <2> QED BY <1>3, <1>4, <2>1
<1>7. ASSUME NEW i, NEW k, Awaited(i), Awaited(k) PROVE ~(i < k)
  <2>1. /\ IsItem(i) /\ Op(i) = "target" /\ Here(i, d) /\ IsItem(k) /\ Op(k) = "target"
        /\ Here(k, d) /\ FpOf(i) = FpOf(k) /\ Rank(i, "target") = Rank(k, "target")
    BY <1>7 DEF Awaited, Waiting, d
  <2>2. i < k => SameSelect(i, k)
    BY <2>1, HereIsSame
  <2>3. i < k => Rank(i, "target") < Rank(k, "target")
    BY <1>1, <2>1, <2>2, RankGrows
  <2> QED BY <1>5, <2>1, <2>3
<1>8. \A i, k : Awaited(i) /\ Awaited(k) => i = k
  <2> SUFFICES ASSUME NEW i, NEW k, Awaited(i), Awaited(k) PROVE i = k
    OBVIOUS
  <2>1. i \in Nat /\ k \in Nat
    BY <1>5 DEF Awaited, Waiting
  <2>2. ~(i < k) /\ ~(k < i)
    BY <1>7
  <2> QED BY <2>1, <2>2
<1>9. ASSUME NEW i \in DOMAIN query.walk, Repeats(i, pos) PROVE Awaited(i)
  <2>1. /\ IsItem(i) /\ Op(i) = "target" /\ SameSelect(i, pos) /\ FpOf(i) = fp
        /\ Rank(i, "target") = Rank(pos, "group") /\ ItemEnd(i) < pos
    BY <1>1, <1>2, <1>9, Repeating
  <2>2. Here(i, d)
    BY <1>1, <2>1, HereIsNow DEF d
  <2>3. Rank(i, "target") > Taken(d, FpOf(i))
    BY <1>3, <1>4, <2>1
  <2> QED BY <2>1, <2>2, <2>3 DEF Awaited, Waiting, d, fp
<1>10. ASSUME NEW i, Waiting(i, d), FpOf(i) = fp, ~Awaited(i)
       PROVE  \E k : Waiting(k, d) /\ FpOf(k) = fp /\ k < i
  <2>1. /\ IsItem(i) /\ Op(i) = "target" /\ Here(i, d) /\ ItemEnd(i) < pos
    BY <1>10 DEF Waiting
  <2>2. Rank(i, "target") > Cardinality(T) + 1
    <3>1. Rank(i, "target") # Rank(pos, "group")
      BY <1>10 DEF Awaited, d, fp
    <3>2. Rank(i, "target") >= Rank(pos, "group") /\ Rank(i, "target") \in Nat
      BY <1>6, <1>10
    <3> QED BY <1>3, <1>4, <3>1, <3>2
  <2>3. PICK k : /\ IsItem(k) /\ Op(k) = "target" /\ FpOf(k) = FpOf(i) /\ SameSelect(k, i)
                 /\ Rank(k, "target") > Cardinality(T)
    BY <1>1, <1>3, <2>1, <2>2, RankBefore
  <2>4. k < i /\ k \in DOMAIN query.walk
    BY <2>3 DEF SameSelect, IsItem
  <2>5. Here(k, d)
    BY <2>1, <2>3, <2>4, HereIsSame
  <2>6. ItemEnd(k) < i
    BY <1>1, <2>1, <2>3, <2>4, ItemsApart
  <2>7. ItemEnd(k) < pos
    <3>1. ItemEnd(k) \in Nat /\ i \in Nat /\ i < pos
      BY <1>1, <1>5, <2>1, <2>3, EndOfItem, Places DEF Here
    <3> QED BY <1>1, <2>6, <3>1
  <2>8. Rank(k, "target") > Taken(d, FpOf(k))
    BY <1>3, <1>10, <2>3
  <2> QED BY <1>10, <2>3, <2>4, <2>5, <2>7, <2>8 DEF Waiting
<1>11. ASSUME NEW e, NEW i, e = d PROVE Waiting(i, e)' <=> Waiting(i, e) /\ ~Awaited(i)
  <2> DEFINE A == {j \in DOMAIN query.walk : Op(j) = "group" /\ Here(j, e) /\ FpOf(j) = FpOf(i)}
  <2>1. /\ (IsItem(i)' <=> IsItem(i)) /\ Op(i)' = Op(i) /\ ItemEnd(i)' = ItemEnd(i)
        /\ Rank(i, "target")' = Rank(i, "target")
    BY <1>1, QueryStays
  <2>2. A' = IF FpOf(i) = fp THEN A \cup {pos} ELSE A
    <3>1. /\ query.walk' = query.walk /\ \A j : Op(j)' = Op(j) /\ FpOf(j)' = FpOf(j)
      BY <1>1, QueryStays
    <3>2. \A j : Here(j, e)' <=> Here(j, e) \/ j = pos
      <4>1. \A j : Here(j, e)' <=> /\ Here(j, e) \/ (j = pos /\ Depth(pos) = e)
                                   /\ ~("group" = "select_end" /\ Depth(pos) = e)
        BY HereNext
      <4> QED BY <1>11, <4>1 DEF d
    <3> QED BY <1>1, <1>2, <3>1, <3>2
  <2>3. Taken(e, FpOf(i)) = Cardinality(A) /\ Taken(e, FpOf(i))' = Cardinality(A')
    BY DEF Taken
  <2>4. FpOf(i) = fp => A = T
    BY <1>11 DEF T
  <2> HIDE DEF A
  <2>5. Taken(e, FpOf(i))' = IF FpOf(i) = fp THEN Taken(e, FpOf(i)) + 1 ELSE Taken(e, FpOf(i))
    BY <1>3, <2>2, <2>3, <2>4
  <2>6. CASE ~(IsItem(i) /\ Op(i) = "target")
    BY <2>1, <2>6 DEF Waiting
  <2>7. CASE IsItem(i) /\ Op(i) = "target"
    <3>1. i # pos /\ ItemEnd(i) \in Nat /\ i < ItemEnd(i) /\ Op(ItemEnd(i)) = "target_end"
      BY <1>1, <2>7, EndOfItem, Places DEF EndOp
    <3>2. Here(i, e)' <=> Here(i, e)
      BY <3>1, HereNext
    <3>3. ItemEnd(i)' < pos' <=> ItemEnd(i) < pos
      <4>1. ItemEnd(i) # pos
        BY <1>1, <3>1
      <4> QED BY <1>1, <2>1, <3>1, <4>1
    <3>4. Waiting(i, e)' <=> Here(i, e) /\ ItemEnd(i) < pos /\ Rank(i, "target") > Taken(e, FpOf(i))'
      BY <2>1, <2>7, <3>2, <3>3 DEF Waiting
    <3>5. Waiting(i, e) <=> Here(i, e) /\ ItemEnd(i) < pos /\ Rank(i, "target") > Taken(e, FpOf(i))
      BY <2>7 DEF Waiting
    <3>6. CASE FpOf(i) # fp
      BY <2>5, <3>4, <3>5, <3>6 DEF Awaited, fp
    <3>7. CASE FpOf(i) = fp
      <4>1. Awaited(i) <=> Waiting(i, e) /\ Rank(i, "target") = Cardinality(T) + 1
        BY <1>4, <1>11, <3>7 DEF Awaited, d, fp
      <4>2. Taken(e, FpOf(i)) = Cardinality(T) /\ Taken(e, FpOf(i))' = Cardinality(T) + 1
        BY <2>3, <2>4, <2>5, <3>7
      <4>3. Rank(i, "target") \in Nat
        BY <1>5, <2>7
      <4>4. Rank(i, "target") > Cardinality(T) + 1
              <=> Rank(i, "target") > Cardinality(T) /\ Rank(i, "target") # Cardinality(T) + 1
        BY <1>3, <4>3
      <4> QED BY <3>4, <3>5, <4>1, <4>2, <4>4
    <3> QED BY <3>6, <3>7
  <2> QED BY <2>6, <2>7
<1>12. Rank(pos, "group") \in Nat
  BY <1>3, <1>4
<1> QED BY <1>2, <1>6, <1>8, <1>9, <1>10, <1>11, <1>12 DEF Begins, d, fp

LEMMA Without ==
  ASSUME NEW S, NEW s \in Seq(S), NEW m \in DOMAIN s
  PROVE  /\ DOMAIN RemoveAt(s, m) = 1 .. Len(s) - 1
         /\ \A n \in 1 .. Len(s) - 1 : RemoveAt(s, m)[n] = s[IF n < m THEN n ELSE n + 1]
<1>1. m \in 1 .. Len(s) /\ Len(s) \in Nat
  BY LenProperties
<1> DEFINE a == SubSeq(s, 1, m - 1)
           b == SubSeq(s, m + 1, Len(s))
<1>2. a \in Seq(S) /\ Len(a) = m - 1 /\ \A n \in 1 .. m - 1 : a[n] = s[n]
  BY <1>1, SubSeqProperties
<1>3. b \in Seq(S) /\ Len(b) = Len(s) - m /\ \A n \in 1 .. Len(s) - m : b[n] = s[m + n]
  BY <1>1, SubSeqProperties
<1> HIDE DEF a, b
<1>4. /\ a \o b \in Seq(S) /\ Len(a \o b) = Len(a) + Len(b)
      /\ \A n \in 1 .. Len(a) + Len(b) :
           (a \o b)[n] = IF n <= Len(a) THEN a[n] ELSE b[n - Len(a)]
  BY <1>2, <1>3, ConcatProperties
<1>5. Len(a) + Len(b) = Len(s) - 1
  BY <1>1, <1>2, <1>3
<1>6. /\ a \o b \in Seq(S) /\ Len(a \o b) = Len(s) - 1
      /\ \A n \in 1 .. Len(s) - 1 : (a \o b)[n] = IF n <= m - 1 THEN a[n] ELSE b[n - (m - 1)]
  BY ONLY <1>2, <1>4, <1>5
<1>7. RemoveAt(s, m) = a \o b
  BY DEF RemoveAt, a, b
<1>8. DOMAIN (a \o b) = 1 .. Len(s) - 1
  BY <1>6, LenProperties
<1>9. ASSUME NEW n \in 1 .. Len(s) - 1 PROVE (a \o b)[n] = s[IF n < m THEN n ELSE n + 1]
  <2>1. CASE n < m
    <3>1. n <= m - 1 /\ n \in 1 .. m - 1
      BY <1>1, <2>1
    <3> QED BY <1>2, <1>6, <2>1, <3>1
  <2>2. CASE ~(n < m)
    <3>1. ~(n <= m - 1) /\ n - (m - 1) \in 1 .. Len(s) - m /\ m + (n - (m - 1)) = n + 1
      BY <1>1, <2>2
    <3> QED BY <1>3, <1>6, <2>2, <3>1
  <2> QED BY <2>1, <2>2
<1> QED BY <1>7, <1>8, <1>9

LEMMA NewList ==
  ASSUME query' = query, clocs' = clocs, NEW d, NEW new,
         \A m, n \in DOMAIN selects'[d].list : m < n => new[m] < new[n],
         \A m \in DOMAIN selects'[d].list : \A i : i = new[m] =>
           /\ Waiting(i, d)' /\ selects'[d].list[m].fp = FpOf(i)
           /\ Numbered(i, selects'[d].list[m].ids, Size(i)),
         \A i : Waiting(i, d)' => \E m \in DOMAIN selects'[d].list : new[m] = i
  PROVE  ListedAs(d, new)'
<1>1. \A i, ids : /\ FpOf(i)' = FpOf(i)
                  /\ Numbered(i, ids, Size(i))' <=> Numbered(i, ids, Size(i))
  BY QueryStays DEF Numbered
<1>2. ASSUME NEW m \in DOMAIN selects'[d].list
      PROVE  /\ Waiting(new[m], d)' /\ selects'[d].list[m].fp = FpOf(new[m])'
             /\ Numbered(new[m], selects[d].list[m].ids, Size(new[m]))'
  <2>1. PICK i, ids : i = new[m] /\ ids = selects'[d].list[m].ids
    OBVIOUS
  <2>2. Waiting(i, d)' /\ selects'[d].list[m].fp = FpOf(i) /\ Numbered(i, ids, Size(i))
    BY <1>2, <2>1
  <2>3. FpOf(i)' = FpOf(i) /\ Numbered(i, ids, Size(i))'
    BY <1>1, <2>2
  <2> QED BY <2>1, <2>2, <2>3
<1> QED BY <1>2 DEF ListedAs

LEMMA ItemListed ==
  ASSUME NumbersInv, Orderly, Located, SelectsInv, EnterGroupItem,
         NEW src, src \in [DOMAIN selects[Len(selects)].list -> DOMAIN query.walk],
         ListedAs(Len(selects), src)
  PROVE  /\ \E new \in [DOMAIN selects'[Len(selects)].list -> DOMAIN query.walk] :
              \A d : d = Len(selects) => ListedAs(d, new)'
         /\ Frame'.prev = Len(clocs) /\ \A j : j = pos => Matched(j)'
<1> DEFINE d == Len(selects)
           list == selects[d].list
           same == {i \in DOMAIN list : list[i].fp = Step.fp}
<1>1. /\ Visit("group") /\ clocs' = clocs /\ query' = query /\ selects # <<>>
      /\ phase = "walk" /\ query \in Queries /\ pos \in Nat
  BY Visited DEF EnterGroupItem, InSelect, NumbersInv, TypeInv, Visit
<1>2. d = Depth(pos)
  BY <1>1 DEF SelectsInv
<1>3. Begins
  BY <1>1, GroupBegins
<1>4. d \in 1 .. Len(selects) /\ d \in DOMAIN selects
  <2>1. selects \in Seq(NumberedSelect(Ids))
    BY DEF NumbersInv, NumbersIn
  <2>2. Len(selects) \in Nat /\ DOMAIN selects = 1 .. Len(selects) /\ Len(selects) # 0
    BY <1>1, <2>1, EmptySeq, LenProperties
  <2> QED BY <2>2
<1>5. /\ list \in Seq(NumberedTarget(Ids)) /\ DOMAIN list = 1 .. Len(list) /\ Len(list) \in Nat
      /\ Frame = selects[d]
  BY <1>4, FrameIs DEF Frame, Last
<1>6. \A new, match : Matching(new, match) =>
        /\ selects'[d] = [list |-> new, prev |-> Len(clocs), match |-> match]
        /\ Frame' = selects'[d]
  <2> SUFFICES ASSUME NEW new, NEW match, Matching(new, match)
               PROVE  /\ selects'[d] = [list |-> new, prev |-> Len(clocs), match |-> match]
                      /\ Len(selects') = d
    BY DEF Frame, Last
  <2>1. selects' = [selects EXCEPT ![d] = [list |-> new, prev |-> Len(clocs), match |-> match]]
    BY DEF Matching
  <2>2. selects \in Seq(NumberedSelect(Ids))
    BY DEF NumbersInv, NumbersIn
  <2>3. Len(selects') = Len(selects)
    BY <2>1, <2>2
  <2> QED BY <1>4, <2>1, <2>3
<1>7. /\ \A m \in DOMAIN list : /\ Waiting(src[m], d) /\ list[m].fp = FpOf(src[m])
                                /\ Numbered(src[m], list[m].ids, Size(src[m]))
      /\ \A m, n \in DOMAIN list : m < n => src[m] < src[n]
      /\ \A i : Waiting(i, d) => \E m \in DOMAIN list : src[m] = i
  BY DEF ListedAs
<1>8. \A i : Waiting(i, d) => i \in DOMAIN query.walk /\ i \in Nat
  BY <1>1, Places DEF Waiting, IsItem
<1>9. \A e, i : e = d => (Waiting(i, e)' <=> Waiting(i, e) /\ ~Awaited(i))
  BY <1>2, <1>3 DEF Begins
<1> HIDE DEF d, list, same
<1>10. CASE same = {} /\ Matching(list, <<>>)
  <2>1. selects'[d].list = list /\ Frame'.prev = Len(clocs)
    <3>1. selects'[d] = [list |-> list, prev |-> Len(clocs), match |-> <<>>] /\ Frame' = selects'[d]
      BY ONLY <1>6, <1>10
    <3> QED BY ONLY <3>1
  <2>2. \A i : Waiting(i, d) => ~Awaited(i)
    BY <1>7, <1>10 DEF Awaited, same
  <2>3. ASSUME NEW e, e = d PROVE ListedAs(e, src)'
    <3>1. \A i : Waiting(i, e)' <=> Waiting(i, d)
      BY <1>9, <2>2, <2>3
    <3> QED BY <1>1, <1>7, <2>1, <2>3, <3>1, NewList
  <2>4. \A i \in DOMAIN query.walk : ~Repeats(i, pos)
    BY <1>2, <1>3, <2>2 DEF Begins, Awaited
  <2>5. ASSUME NEW j, j = pos PROVE Matched(j)'
    <3>1. \A i : Repeats(i, j)' <=> Repeats(i, j)
      BY <1>1, QueryStays
    <3> QED BY <1>1, <2>4, <2>5, <3>1 DEF Matched
  <2>6. src \in [DOMAIN selects'[d].list -> DOMAIN query.walk]
    BY <2>1 DEF d, list
  <2> QED BY <2>1, <2>3, <2>5, <2>6 DEF d
<1>11. CASE \E m \in same : /\ \A j \in same : m <= j
                            /\ Matching(RemoveAt(list, m), <<list[m].ids>>)
  <2>1. PICK m \in same : /\ \A j \in same : m <= j
                          /\ Matching(RemoveAt(list, m), <<list[m].ids>>)
    BY <1>11
  <2>2. m \in DOMAIN list /\ m \in 1 .. Len(list) /\ FpOf(src[m]) = Step.fp
    BY <1>5, <1>7, <2>1 DEF same
  <2>3. Awaited(src[m])
    <3>1. SUFFICES ASSUME NEW k, Waiting(k, d), FpOf(k) = Step.fp, k < src[m] PROVE FALSE
      BY <1>2, <1>3, <1>7, <2>2 DEF Begins
    <3>2. PICK n \in DOMAIN list : src[n] = k
      BY <1>7, <3>1
    <3>3. n \in same
      BY <1>7, <3>1, <3>2 DEF same
    <3>4. m <= n
      BY <2>1, <3>3
    <3>5. n = m \/ src[m] < src[n]
      BY <1>5, <1>7, <2>2, <3>4
    <3>6. src[m] \in Nat /\ k \in Nat
      BY <1>7, <1>8, <2>2, <3>1
    <3> QED BY <3>1, <3>2, <3>5, <3>6
  <2>4. \A i : Awaited(i) <=> i = src[m]
    BY <1>3, <2>3 DEF Begins
  <2>5. selects'[d].list = RemoveAt(list, m) /\ Frame'.prev = Len(clocs)
        /\ Frame'.match = <<list[m].ids>>
    <3>1. /\ selects'[d] = [list |-> RemoveAt(list, m), prev |-> Len(clocs), match |-> <<list[m].ids>>]
          /\ Frame' = selects'[d]
      BY ONLY <1>6, <2>1
    <3> QED BY ONLY <3>1
  <2> DEFINE new == [n \in 1 .. Len(list) - 1 |-> src[IF n < m THEN n ELSE n + 1]]
  <2>6. /\ DOMAIN selects'[d].list = 1 .. Len(list) - 1
        /\ \A n \in 1 .. Len(list) - 1 : selects'[d].list[n] = list[IF n < m THEN n ELSE n + 1]
    BY <1>5, <2>2, <2>5, Without
  <2>7. \A n \in 1 .. Len(list) - 1 : /\ n < m => n \in DOMAIN list
                                      /\ ~(n < m) => n + 1 \in DOMAIN list /\ n + 1 # m
    BY <1>5, <2>2
  <2>8. \A n \in 1 .. Len(list) - 1 : new[n] = src[IF n < m THEN n ELSE n + 1]
    OBVIOUS
  <2>9. new \in [DOMAIN selects'[d].list -> DOMAIN query.walk]
    <3>1. \A n \in 1 .. Len(list) - 1 : new[n] \in DOMAIN query.walk
      BY <1>7, <1>8, <2>7, <2>8
    <3> QED BY <2>6, <3>1
  <2> HIDE DEF new
  <2>10. ASSUME NEW e, e = d, NEW fun, fun = new PROVE ListedAs(e, fun)'
    <3>1. \A a, b \in DOMAIN selects'[e].list : a < b => fun[a] < fun[b]
      <4> SUFFICES ASSUME NEW a \in 1 .. Len(list) - 1, NEW b \in 1 .. Len(list) - 1, a < b
                   PROVE  new[a] < new[b]
        BY <2>6, <2>10
      <4> DEFINE p == IF a < m THEN a ELSE a + 1
                 q == IF b < m THEN b ELSE b + 1
      <4>1. p \in DOMAIN list /\ q \in DOMAIN list /\ p < q
        BY <1>5, <2>2
      <4>2. new[a] = src[p] /\ new[b] = src[q]
        BY <2>8
      <4> HIDE DEF p, q
      <4> QED BY <1>7, <4>1, <4>2
    <3>2. ASSUME NEW a \in DOMAIN selects'[e].list, NEW i, i = fun[a]
          PROVE  /\ Waiting(i, e)' /\ selects'[e].list[a].fp = FpOf(i)
                 /\ Numbered(i, selects'[e].list[a].ids, Size(i))
      <4> DEFINE p == IF a < m THEN a ELSE a + 1
      <4>1. a \in 1 .. Len(list) - 1
        BY <2>6, <2>10, <3>2
      <4>2. p \in DOMAIN list /\ p # m
        BY <1>5, <2>2, <4>1
      <4>3. i = src[p] /\ selects'[e].list[a] = list[p]
        BY <2>6, <2>8, <2>10, <3>2, <4>1
      <4> HIDE DEF p
      <4>4. Waiting(i, d) /\ list[p].fp = FpOf(i) /\ Numbered(i, list[p].ids, Size(i))
        BY <1>7, <4>2, <4>3
      <4>5. i # src[m]
        <5>1. p < m \/ m < p
          BY <1>5, <2>2, <4>2
        <5>2. src[p] < src[m] \/ src[m] < src[p]
          BY <1>7, <2>2, <4>2, <5>1
        <5>3. src[m] \in Nat
          BY <1>7, <1>8, <2>2
        <5> QED BY <4>3, <5>2, <5>3
      <4>6. Waiting(i, e)'
        BY <1>9, <2>4, <2>10, <4>4, <4>5
      <4> QED BY <4>3, <4>4, <4>6
    <3>3. ASSUME NEW i, Waiting(i, e)' PROVE \E a \in DOMAIN selects'[e].list : fun[a] = i
      <4>1. Waiting(i, d) /\ i # src[m]
        BY <1>9, <2>4, <2>10, <3>3
      <4>2. PICK p \in DOMAIN list : src[p] = i
        BY <1>7, <4>1
      <4>3. PICK a \in 1 .. Len(list) - 1 : p = IF a < m THEN a ELSE a + 1
        <5>1. p # m /\ p \in 1 .. Len(list)
          BY <1>5, <4>1, <4>2
        <5>2. CASE p < m
          BY <1>5, <2>2, <5>1, <5>2
        <5>3. CASE p > m
          <6>1. p - 1 \in 1 .. Len(list) - 1 /\ ~(p - 1 < m) /\ p = (p - 1) + 1
            BY <1>5, <2>2, <5>1, <5>3
          <6> QED BY <6>1
        <5> QED BY <1>5, <2>2, <5>1, <5>2, <5>3
      <4> QED BY <2>6, <2>8, <2>10, <4>2, <4>3
    <3> QED BY <1>1, <3>1, <3>2, <3>3, NewList
  <2>11. ASSUME NEW j, j = pos PROVE Matched(j)'
    <3>1. \A i : Repeats(i, j)' <=> Repeats(i, j)
      BY <1>1, QueryStays
    <3>2. \A i, ids : Numbered(i, ids, Size(i))' <=> Numbered(i, ids, Size(i))
      BY <1>1, QueryStays DEF Numbered
    <3>3. ASSUME NEW i \in DOMAIN query.walk, Repeats(i, j)
          PROVE  \E ids : Frame'.match = <<ids>> /\ Numbered(i, ids, Size(i))'
      <4>1. i = src[m]
        BY <1>3, <2>4, <2>11, <3>3 DEF Begins
      <4>2. PICK ids : ids = list[m].ids
        OBVIOUS
      <4>3. Numbered(i, ids, Size(i))
        BY <1>7, <2>2, <4>1, <4>2
      <4> QED BY <2>5, <3>2, <4>2, <4>3
    <3> QED BY <1>1, <3>1, <3>3 DEF Matched
  <2> QED BY <2>5, <2>9, <2>10, <2>11 DEF d
<1>12. \/ same = {} /\ Matching(list, <<>>)
       \/ \E m \in same : /\ \A j \in same : m <= j
                          /\ Matching(RemoveAt(list, m), <<list[m].ids>>)
  BY <1>5 DEF EnterGroupItem, same, list
<1> QED BY <1>10, <1>11, <1>12

-----------------------------------------------------------------------------
LEMMA ListKept ==
  ASSUME NumbersInv, Orderly, Located, ItemsInv, ListsInv, NEW op, Visit(op),
         Recording \/ LeaveGroupItem \/ (clocs' = clocs /\ query' = query),
         NEW d \in 1 .. Len(selects), selects'[d] = selects[d],
         d # Depth(pos) \/ op \notin {"target_end", "group", "select_end"}
  PROVE  \E src \in [DOMAIN selects'[d].list -> DOMAIN query.walk] : ListedAs(d, src)'
<1>1. PICK src \in [DOMAIN selects[d].list -> DOMAIN query.walk] : ListedAs(d, src)
  BY DEF ListsInv, Visit
<1>2. \A i : Waiting(i, d)' <=> Waiting(i, d)
  BY WaitingNext
<1>3. ListedAs(d, src)'
  BY <1>1, <1>2, ListStays
<1> QED BY <1>1, <1>3

LEMMA ListsStep ==
  ASSUME NumbersInv, Orderly, Located, SelectsInv, ListsInv, ItemsInv, [Next]_vars
  PROVE  ListsInv'
<1>1. query' = query
  BY Steps
<1>2. SUFFICES ASSUME phase' = "walk", NEW d \in 1 .. Len(selects')
               PROVE  \E src \in [DOMAIN selects'[d].list -> DOMAIN query.walk] : ListedAs(d, src)'
  BY <1>1 DEF ListsInv
<1>3. selects \in Seq(NumberedSelect(Ids)) /\ Len(selects) \in Nat /\ DOMAIN selects = 1 .. Len(selects)
  <2>1. selects \in Seq(NumberedSelect(Ids))
    BY DEF NumbersInv, NumbersIn
  <2> QED BY <2>1, LenProperties
<1>4. ASSUME NEW op, Visit(op) PROVE Len(selects) = Depth(pos)
  BY <1>4 DEF SelectsInv, Visit
<1>5. CASE Recording \/ VisitParamRef \/ EnterTarget \/ LeaveGroupItem
  <2>1. PICK op : Visit(op) /\ op \notin {"target_end", "group", "select_end"}
    BY <1>5 DEF Recording, VisitConst, VisitDefElem, VisitSubscription, VisitParamRef, EnterTarget,
                LeaveGroupItem, InSelect
  <2>2. selects' = selects /\ (Recording \/ LeaveGroupItem \/ (clocs' = clocs /\ query' = query))
    BY <1>1, <1>5 DEF Recording, VisitConst, VisitDefElem, VisitSubscription, VisitParamRef,
                EnterTarget, LeaveGroupItem
  <2> QED BY <1>2, <2>1, <2>2, ListKept
<1>6. CASE EnterSelect
  <2> DEFINE new == [list |-> <<>>, prev |-> 0, match |-> <<>>]
  <2>1. Visit("select") /\ selects' = Append(selects, new) /\ clocs' = clocs
    BY <1>6 DEF EnterSelect
  <2>2. new \in NumberedSelect(Ids)
    <3>1. \A S : <<>> \in Seq(S)
      BY EmptySeq
    <3> QED BY <3>1 DEF NumberedSelect
  <2>3. new.list = <<>>
    OBVIOUS
  <2> HIDE DEF new
  <2>4. /\ Len(selects') = Len(selects) + 1 /\ selects'[Len(selects) + 1] = new
        /\ \A e \in 1 .. Len(selects) : selects'[e] = selects[e]
    BY <1>3, <2>1, <2>2, AppendProperties
  <2>5. CASE d \in 1 .. Len(selects)
    BY <1>1, <2>1, <2>4, <2>5, ListKept
  <2>6. CASE d = Len(selects) + 1
    <3>1. DOMAIN selects'[d].list = {}
      <4>1. selects'[d].list = <<>>
        BY <2>3, <2>4, <2>6
      <4> QED BY <4>1
    <3>2. ASSUME NEW i PROVE ~Waiting(i, d)'
      <4>1. Waiting(i, d)' <=> Waiting(i, d)
        BY <2>1, WaitingNext
      <4>2. Waiting(i, d) => d <= Len(selects)
        BY <2>1 DEF Waiting, SelectsInv, Visit
      <4> QED BY <1>3, <2>6, <4>1, <4>2
    <3>3. PICK src : src = [m \in DOMAIN selects'[d].list |-> 1]
      OBVIOUS
    <3>4. src \in [DOMAIN selects'[d].list -> DOMAIN query.walk]
      BY <3>1, <3>3
    <3>5. ListedAs(d, src)'
      BY <3>1, <3>2 DEF ListedAs
    <3> QED BY <3>4, <3>5
  <2> QED BY <1>2, <1>3, <2>4, <2>5, <2>6
<1>7. CASE LeaveSelect
  <2>1. Visit("select_end") /\ selects' = Front(selects) /\ selects # <<>> /\ clocs' = clocs
    BY <1>7 DEF LeaveSelect, InSelect
  <2>2. /\ Len(selects') = Len(selects) - 1
        /\ \A e \in 1 .. Len(selects) - 1 : selects'[e] = selects[e]
    <3>1. selects' = SubSeq(selects, 1, Len(selects) - 1) /\ Len(selects) > 0
      <4>1. Len(selects) # 0
        BY <1>3, <2>1, EmptySeq
      <4> QED BY <1>3, <2>1, <4>1 DEF Front
    <3>2. \A e \in 1 .. Len(selects) - 1 : selects[e] \in NumberedSelect(Ids)
      BY <1>3, ElementOfSeq
    <3> QED BY <1>3, <3>1, <3>2, SubSeqProperties
  <2>3. d \in 1 .. Len(selects) /\ selects'[d] = selects[d] /\ d # Depth(pos)
    BY <1>2, <1>3, <1>4, <2>1, <2>2
  <2> QED BY <1>1, <2>1, <2>3, ListKept
<1>8. CASE LeaveTarget \/ EnterGroupItem
  <2>1. /\ selects # <<>> /\ clocs' = clocs /\ Len(selects') = Len(selects)
        /\ \A e \in 1 .. Len(selects) : e # Len(selects) => selects'[e] = selects[e]
        /\ \E op : Visit(op)
    <3>1. CASE LeaveTarget
      <4>1. /\ selects # <<>> /\ clocs' = clocs /\ Visit("target_end")
            /\ selects' = [selects EXCEPT ![Len(selects)].list =
                             Append(@, [fp |-> Step.fp, ids |-> refs.ids])]
        BY <3>1 DEF LeaveTarget, InSelect
      <4>2. PICK new : selects' = [selects EXCEPT ![Len(selects)] = new]
        BY <4>1
      <4>3. Len(selects') = Len(selects)
        BY <1>3, <4>2
      <4> QED BY <1>3, <4>1, <4>2, <4>3
    <3>2. CASE EnterGroupItem
      <4>1. selects # <<>> /\ clocs' = clocs /\ Visit("group")
        BY <3>2 DEF EnterGroupItem, InSelect
      <4>2. \E list, match : Matching(list, match)
        BY <3>2 DEF EnterGroupItem
      <4>3. PICK new : selects' = [selects EXCEPT ![Len(selects)] = new]
        BY <4>2 DEF Matching
      <4>4. Len(selects') = Len(selects)
        BY <1>3, <4>3
      <4> QED BY <1>3, <4>1, <4>3, <4>4
    <3> QED BY <1>8, <3>1, <3>2
  <2>2. CASE d # Len(selects)
    BY <1>1, <1>2, <1>4, <2>1, <2>2, ListKept
  <2>3. CASE d = Len(selects)
    <3>1. PICK src \in [DOMAIN selects[d].list -> DOMAIN query.walk] : ListedAs(d, src)
      <4>1. phase = "walk"
        BY <2>1 DEF Visit
      <4> QED BY <1>2, <2>1, <4>1 DEF ListsInv
    <3>2. src \in [DOMAIN selects[Len(selects)].list -> DOMAIN query.walk] /\ ListedAs(Len(selects), src)
      BY <2>3, <3>1
    <3>3. \E new \in [DOMAIN selects'[Len(selects)].list -> DOMAIN query.walk] :
            \A e : e = Len(selects) => ListedAs(e, new)'
      BY <1>8, <3>2, TargetListed, ItemListed
    <3> QED BY <2>3, <3>3
  <2> QED BY <2>2, <2>3
<1>9. CASE pos' = pos /\ UNCHANGED <<clocs, refs, selects>> /\ (phase' = "walk" => phase = "walk")
  <2>1. PICK src \in [DOMAIN selects[d].list -> DOMAIN query.walk] : ListedAs(d, src)
    BY <1>2, <1>9 DEF ListsInv
  <2>2. \A i : Waiting(i, d)' <=> Waiting(i, d)
    <3>1. /\ query.walk' = query.walk
          /\ \A i : Op(i)' = Op(i) /\ FpOf(i)' = FpOf(i) /\ Depth(i)' = Depth(i)
                    /\ ItemEnd(i)' = ItemEnd(i) /\ (IsItem(i)' <=> IsItem(i))
                    /\ Rank(i, "target")' = Rank(i, "target")
      BY <1>1, QueryStays
    <3>2. \A i : Here(i, d)' <=> Here(i, d)
      BY <1>9, <3>1 DEF Here
    <3>3. ASSUME NEW i PROVE Taken(d, FpOf(i))' = Taken(d, FpOf(i))
      <4>1. {j \in DOMAIN query.walk : Op(j) = "group" /\ Here(j, d) /\ FpOf(j) = FpOf(i)}'
              = {j \in DOMAIN query.walk : Op(j) = "group" /\ Here(j, d) /\ FpOf(j) = FpOf(i)}
        BY <3>1, <3>2
      <4> QED BY <4>1 DEF Taken
    <3> QED BY <1>9, <3>1, <3>2, <3>3 DEF Waiting
  <2>3. ListedAs(d, src)'
    BY <1>1, <1>9, <2>1, <2>2, ListStays
  <2> QED BY <1>9, <2>1, <2>3
<1> QED BY <1>5, <1>6, <1>7, <1>8, <1>9, Steps

-----------------------------------------------------------------------------
(* The numbers of the item that is open. *)

LEMMA OpenNext ==
  ASSUME NumbersInv, Orderly, NEW op, Visit(op), NEW i, IsItem(i)
  PROVE  OpenAt(i, pos)' <=> (i = pos /\ op = Op(i)) \/ (OpenAt(i, pos) /\ op = "const")
<1>1. /\ query' = query /\ pos' = pos + 1 /\ pos \in Nat \ {0} /\ Op(pos) = op
      /\ i \in DOMAIN query.walk /\ i \in Nat
  BY Visited, Places DEF NumbersInv, TypeInv, Op, IsItem
<1>2. OpenAt(i, pos)' <=> i < pos + 1 /\ \A e \in i + 1 .. pos : Op(e) \in Plain
  BY <1>1 DEF OpenAt, Op
<1>3. CASE i < pos
  <2>1. i + 1 .. pos = (i + 1 .. pos - 1) \cup {pos}
    BY <1>1, <1>3
  <2>2. OpenAt(i, pos)' <=> OpenAt(i, pos) /\ op \in Plain
    BY <1>1, <1>2, <1>3, <2>1 DEF OpenAt
  <2>3. OpenAt(i, pos) => op = "const" \/ op \notin Plain
    BY InsideItem DEF EndOp, Plain
  <2> QED BY <1>1, <1>3, <2>2, <2>3 DEF Plain
<1>4. CASE i = pos
  <2>1. i + 1 .. pos = {}
    BY <1>1, <1>4
  <2>2. OpenAt(i, pos)'
    BY <1>1, <1>2, <1>4, <2>1
  <2> QED BY <1>1, <1>4, <2>2
<1>5. CASE i > pos
  BY <1>1, <1>2, <1>5 DEF OpenAt
<1> QED BY <1>1, <1>3, <1>4, <1>5

LEMMA ConstantOfItem ==
  ASSUME NumbersInv, Orderly, Located, LocationsInv, VisitConst, NEW i, IsItem(i), OpenAt(i, pos)
  PROVE  /\ selects' = selects /\ Len(clocs') = Len(clocs) + 1
         /\ DOMAIN clocs' = 1 .. Len(clocs) + 1 /\ DOMAIN clocs = 1 .. Len(clocs) /\ Len(clocs) \in Nat
         /\ \A c \in 1 .. Len(clocs) :
              clocs'[c] = clocs[c] /\ clocs[c].location # query.walk[pos].n
         /\ clocs'[Len(clocs) + 1].location = query.walk[pos].n
         /\ clocs'[Len(clocs) + 1].param = -high
         /\ refs' = IF refs.on THEN [refs EXCEPT !.ids = Append(@, -high)] ELSE refs
<1>1. /\ Visit("const") /\ Op(pos) = "const" /\ pos \in DOMAIN query.walk /\ pos \in Nat
      /\ i \in DOMAIN query.walk
  BY Visited DEF VisitConst, NumbersInv, Op, IsItem
<1>2. Found(pos) = {query.walk[pos].n}
  BY <1>1 DEF Found, Op
<1>3. \A m \in DOMAIN query.walk : query.walk[pos].n \in Found(m) => m = pos
  BY <1>1 DEF Orderly, Apart, Plain
<1>4. Recording
  BY DEF Recording
<1>5. selects' = selects
  BY <1>4, RecordedAtEnd
<1>6. PICK loc \in Nat :
        /\ Found(pos) = {loc} /\ Len(clocs') = Len(clocs) + 1
        /\ \A c \in 1 .. Len(clocs) : clocs'[c] = clocs[c]
        /\ clocs'[Len(clocs) + 1].location = loc
        /\ clocs'[Len(clocs) + 1].param = -high
        /\ refs' = IF refs.on THEN [refs EXCEPT !.ids = Append(@, -high)] ELSE refs
  <2>1. Found(pos) # {}
    BY <1>2
  <2> QED BY <1>4, <2>1, RecordedAtEnd
<1>7. loc = query.walk[pos].n
  BY <1>2, <1>6
<1>8. clocs' \in Seq(Clocation)
  BY <1>4, ConstantRecorded DEF Recording, NumbersInv
<1>9. DOMAIN clocs' = 1 .. Len(clocs) + 1 /\ DOMAIN clocs = 1 .. Len(clocs) /\ Len(clocs) \in Nat
  BY <1>6, <1>8, LenProperties, ClocsDomain
<1>10. ASSUME NEW c \in 1 .. Len(clocs) PROVE clocs[c].location # query.walk[pos].n
  <2>1. clocs[c].location \in Locations
    BY <1>9 DEF Locations
  <2>2. PICK m \in DOMAIN query.walk : m < pos /\ clocs[c].location \in Found(m)
    BY <2>1 DEF LocationsInv
  <2>3. m # pos
    BY <1>1, <2>2
  <2> QED BY <1>3, <2>2, <2>3
<1> QED BY <1>5, <1>6, <1>7, <1>9, <1>10

LEMMA OpenTargetStep ==
  ASSUME NumbersInv, Orderly, Located, LocationsInv, ItemsInv, NEW op, Visit(op), [Next]_vars
  PROVE  OpenTarget'
<1>1. /\ query' = query /\ pos' = pos + 1 /\ pos \in Nat \ {0} /\ Op(pos) = op /\ phase = "walk"
      /\ Step = query.walk[pos] /\ Step.op = op /\ pos' # pos
  BY Visited DEF NumbersInv, Op, Visit
<1>2. SUFFICES ASSUME NEW i, IsItem(i), OpenAt(i, pos)', Op(i) = "target"
               PROVE  refs'.on /\ Numbered(i, refs.ids, pos - 1 - i)'
  <2>1. \A i : (IsItem(i)' <=> IsItem(i)) /\ Op(i)' = Op(i)
    BY <1>1, QueryStays
  <2> QED BY <2>1 DEF OpenTarget
<1>3. CASE i = pos /\ op = Op(i)
  <2>1. EnterTarget
    BY <1>1, <1>2, <1>3, Steps DEF Recording, VisitConst, VisitDefElem, VisitSubscription,
       VisitParamRef, EnterSelect, LeaveSelect, LeaveTarget, EnterGroupItem, LeaveGroupItem,
       InSelect, Visit
  <2>2. refs' = [on |-> TRUE, ids |-> <<>>] /\ pos' - 1 - i = 0
    BY <1>1, <1>3, <2>1 DEF EnterTarget
  <2>3. refs'.on /\ Len(refs'.ids) = 0
    BY <2>2
  <2> QED BY <2>2, <2>3 DEF Numbered
<1>4. CASE OpenAt(i, pos) /\ op = "const"
  <2>1. VisitConst
    BY <1>1, <1>4, Steps DEF Recording, EnterTarget, VisitDefElem, VisitSubscription,
       VisitParamRef, EnterSelect, LeaveSelect, LeaveTarget, EnterGroupItem, LeaveGroupItem,
       InSelect, Visit
  <2> DEFINE n == pos - 1 - i
             ids == refs.ids
  <2>2. refs.on /\ Numbered(i, ids, n)
    BY <1>1, <1>2, <1>4 DEF ItemsInv, OpenTarget
  <2>3. /\ i \in Nat \ {0} /\ i < pos /\ n \in Nat /\ n <= Size(i)
    BY <1>2, <1>4, InsideItem
  <2>4. /\ DOMAIN clocs' = 1 .. Len(clocs) + 1 /\ Len(clocs) \in Nat
        /\ \A c \in 1 .. Len(clocs) :
             clocs'[c] = clocs[c] /\ clocs[c].location # query.walk[pos].n
        /\ clocs'[Len(clocs) + 1].param = -high
        /\ refs' = IF refs.on THEN [refs EXCEPT !.ids = Append(@, -high)] ELSE refs
    BY <1>2, <1>4, <2>1, ConstantOfItem
  <2>5. ids \in Seq(Int) /\ refs \in [on : BOOLEAN, ids : Seq(Int)] /\ high \in Int
    BY DEF NumbersInv, TypeInv, TypeOK
  <2>6. refs'.on /\ refs'.ids = Append(ids, -high)
    BY <2>2, <2>4, <2>5
  <2>7. /\ Len(Append(ids, -high)) = Len(ids) + 1 /\ Append(ids, -high)[Len(ids) + 1] = -high
        /\ \A k \in 1 .. Len(ids) : Append(ids, -high)[k] = ids[k]
    <3> HIDE DEF ids
    <3>1. -high \in Int
      BY <2>5
    <3> QED BY <2>5, <3>1, AppendProperties
  <2>8. ASSUME NEW m, m = n, NEW is, is = ids PROVE Numbered(i, is, m)'
    <3>1. Numbered(i, is, m) /\ m \in Nat /\ m <= Size(i) /\ i + m < pos
      BY <1>1, <2>2, <2>3, <2>8
    <3>2. Recording
      BY <2>1 DEF Recording
    <3> HIDE DEF n, ids
    <3> QED BY <1>2, <3>1, <3>2, NumberedStays
  <2>9. /\ Len(ids) = n
        /\ \A k \in 1 .. n, c \in DOMAIN clocs' :
             clocs'[c].location = query.walk[i + k].n => clocs'[c].param = ids[k]
    <3>1. PICK m, is : m = n /\ is = ids
      OBVIOUS
    <3>2. Numbered(i, is, m)'
      BY <2>8, <3>1
    <3> QED BY <1>1, <3>1, <3>2 DEF Numbered
  <2>10. i + (n + 1) = pos /\ pos' - 1 - i = n + 1
    BY <1>1, <2>3
  <2> HIDE DEF n, ids
  <2>11. ASSUME NEW k \in 1 .. n + 1, NEW c \in DOMAIN clocs', clocs'[c].location = query.walk[i + k].n
         PROVE  clocs'[c].param = refs'.ids[k]
    <3>1. CASE k \in 1 .. n
      BY <2>6, <2>7, <2>9, <2>11, <3>1
    <3>2. CASE k = n + 1
      <4>1. clocs'[c].location = query.walk[pos].n
        BY <2>10, <2>11, <3>2
      <4>2. c = Len(clocs) + 1
        BY <2>4, <4>1
      <4> QED BY <2>4, <2>6, <2>7, <2>9, <3>2, <4>2
    <3> QED BY <2>3, <3>1, <3>2
  <2>12. Len(refs'.ids) = n + 1
    BY <2>6, <2>7, <2>9
  <2> QED BY <1>1, <2>6, <2>10, <2>11, <2>12 DEF Numbered
<1> QED BY <1>2, <1>3, <1>4, OpenNext

LEMMA OpenGroupStep ==
  ASSUME NumbersInv, Orderly, Located, LocationsInv, SelectsInv, ListsInv, ItemsInv,
         NEW op, Visit(op), [Next]_vars
  PROVE  OpenGroup'
<1>1. /\ query' = query /\ pos' = pos + 1 /\ pos \in Nat \ {0} /\ Op(pos) = op /\ phase = "walk"
      /\ Step = query.walk[pos] /\ Step.op = op /\ pos' # pos /\ query \in Queries
  BY Visited DEF NumbersInv, TypeInv, Op, Visit
<1>2. SUFFICES ASSUME NEW j, IsItem(j), OpenAt(j, pos)', Op(j) = "group"
               PROVE  /\ Frame'.prev \in Nat /\ Len(clocs') = Frame'.prev + (pos' - 1 - j)
                      /\ \A k \in 1 .. pos' - 1 - j :
                           clocs'[Frame'.prev + k].location = query.walk[j + k].n
                      /\ Matched(j)'
  <2>1. query.walk' = query.walk /\ \A i : (IsItem(i)' <=> IsItem(i)) /\ Op(i)' = Op(i)
    BY <1>1, QueryStays
  <2> QED BY <2>1 DEF OpenGroup
<1>3. Len(clocs) \in Nat
  BY ClocsDomain
<1>4. CASE j = pos /\ op = Op(j)
  <2>1. EnterGroupItem
    BY <1>1, <1>2, <1>4, Steps DEF Recording, VisitConst, VisitDefElem, VisitSubscription,
       VisitParamRef, EnterSelect, LeaveSelect, EnterTarget, LeaveTarget, LeaveGroupItem,
       InSelect, Visit
  <2>2. clocs' = clocs /\ selects # <<>>
    BY <2>1 DEF EnterGroupItem, InSelect
  <2>3. Len(selects) \in 1 .. Len(selects)
    <3>1. selects \in Seq(NumberedSelect(Ids))
      BY DEF NumbersInv, NumbersIn
    <3>2. Len(selects) \in Nat /\ Len(selects) # 0
      BY <2>2, <3>1, EmptySeq, LenProperties
    <3> QED BY <3>2
  <2>4. PICK src \in [DOMAIN selects[Len(selects)].list -> DOMAIN query.walk] :
          ListedAs(Len(selects), src)
    BY <1>1, <2>3 DEF ListsInv
  <2>5. Frame'.prev = Len(clocs) /\ \A i : i = pos => Matched(i)'
    BY ONLY NumbersInv, Orderly, Located, SelectsInv, <2>1, <2>4, ItemListed
  <2>6. pos' - 1 - j = 0
    BY <1>1, <1>4
  <2>7. Frame'.prev \in Nat /\ Len(clocs') = Frame'.prev + (pos' - 1 - j)
    BY <1>3, <2>2, <2>5, <2>6
  <2>8. Matched(j)'
    BY <1>4, <2>5
  <2> QED BY <2>6, <2>7, <2>8
<1>5. CASE OpenAt(j, pos) /\ op = "const"
  <2>1. VisitConst
    BY <1>1, <1>5, Steps DEF Recording, EnterTarget, VisitDefElem, VisitSubscription,
       VisitParamRef, EnterSelect, LeaveSelect, LeaveTarget, EnterGroupItem, LeaveGroupItem,
       InSelect, Visit
  <2> DEFINE n == pos - 1 - j
             prev == Frame.prev
  <2>2. /\ Len(clocs) = prev + n /\ Matched(j)
        /\ \A k \in 1 .. n : clocs[prev + k].location = query.walk[j + k].n
    BY <1>1, <1>2, <1>5 DEF ItemsInv, OpenGroup
  <2>3. j \in Nat \ {0} /\ j < pos /\ n \in Nat
    BY <1>2, <1>5, InsideItem
  <2>4. /\ selects' = selects /\ Len(clocs') = Len(clocs) + 1
        /\ \A c \in 1 .. Len(clocs) : clocs'[c] = clocs[c]
        /\ clocs'[Len(clocs) + 1].location = query.walk[pos].n
    BY <1>2, <1>5, <2>1, ConstantOfItem
  <2>5. prev \in Nat
    BY <1>1, <1>2, <1>5 DEF ItemsInv, OpenGroup
  <2>6. Frame' = Frame
    BY <2>4 DEF Frame, Last
  <2>7. pos' - 1 - j = n + 1 /\ j + (n + 1) = pos
    BY <1>1, <2>3
  <2> HIDE DEF n, prev
  <2>8. Len(clocs') = prev + (n + 1)
    BY <2>2, <2>3, <2>4, <2>5
  <2>9. \A k \in 1 .. n + 1 : clocs'[prev + k].location = query.walk[j + k].n
    <3> SUFFICES ASSUME NEW k \in 1 .. n + 1 PROVE clocs'[prev + k].location = query.walk[j + k].n
      OBVIOUS
    <3>1. CASE k \in 1 .. n
      <4>1. prev + k \in 1 .. Len(clocs)
        BY <2>2, <2>3, <2>5, <3>1
      <4> QED BY <2>2, <2>4, <3>1, <4>1
    <3>2. CASE k = n + 1
      <4>1. prev + k = Len(clocs) + 1 /\ j + k = pos
        BY <2>2, <2>3, <2>5, <2>7, <3>2
      <4> QED BY <2>4, <4>1
    <3> QED BY <2>3, <3>1, <3>2
  <2>10. Matched(j)'
    <3>1. \A i : Repeats(i, j)' <=> Repeats(i, j)
      BY <1>1, QueryStays
    <3>2. ASSUME NEW i \in DOMAIN query.walk, Repeats(i, j)
          PROVE  \E ids : Frame.match = <<ids>> /\ Numbered(i, ids, Size(i))'
      <4>1. PICK ids : Frame.match = <<ids>> /\ Numbered(i, ids, Size(i))
        BY <2>2, <3>2 DEF Matched
      <4>2. /\ IsItem(i) /\ Op(i) = "target" /\ Size(i) \in Nat /\ i + Size(i) < j /\ i \in Nat
        BY <1>1, <1>2, <3>2, Repeating DEF IsItem
      <4>3. i + Size(i) < pos
        BY <1>1, <2>3, <4>2
      <4>4. Size(i)' = Size(i) /\ Recording
        BY <1>1, <2>1, QueryStays DEF Recording
      <4>5. \A m \in Nat : m = Size(i) => Numbered(i, ids, m)'
        BY <4>1, <4>2, <4>3, <4>4, NumberedStays
      <4> QED BY <4>1, <4>2, <4>4, <4>5
    <3>3. query.walk' = query.walk
      BY <1>1
    <3> QED BY <2>6, <3>1, <3>2, <3>3 DEF Matched
  <2>11. Frame'.prev = prev
    BY <2>6 DEF prev
  <2> QED BY <2>5, <2>7, <2>8, <2>9, <2>10, <2>11
<1> QED BY <1>2, <1>4, <1>5, OpenNext

LEMMA ItemsStep ==
  ASSUME NumbersInv, Orderly, Located, LocationsInv, SelectsInv, ListsInv, ItemsInv, [Next]_vars
  PROVE  ItemsInv'
<1>1. CASE \E op : Visit(op)
  BY <1>1, OpenTargetStep, OpenGroupStep DEF ItemsInv
<1>2. CASE pos' = pos /\ UNCHANGED <<clocs, refs, selects>> /\ (phase' = "walk" => phase = "walk")
  <2>1. SUFFICES ASSUME phase' = "walk" PROVE OpenTarget' /\ OpenGroup'
    BY DEF ItemsInv
  <2>2. query' = query /\ OpenTarget /\ OpenGroup
    BY <1>2, <2>1, Steps DEF ItemsInv
  <2>3. /\ query.walk' = query.walk
        /\ \A i : Op(i)' = Op(i) /\ Size(i)' = Size(i) /\ (IsItem(i)' <=> IsItem(i))
        /\ \A i, k : OpenAt(i, k)' <=> OpenAt(i, k)
        /\ \A i, j : Repeats(i, j)' <=> Repeats(i, j)
    BY <2>2, QueryStays
  <2>4. \A i : OpenAt(i, pos)' <=> OpenAt(i, pos)
    BY <1>2, <2>3 DEF OpenAt
  <2>5. \A i, ids, n : Numbered(i, ids, n)' <=> Numbered(i, ids, n)
    BY <1>2, <2>3 DEF Numbered
  <2>6. Frame' = Frame
    BY <1>2 DEF Frame, Last
  <2>7. OpenTarget'
    <3>1. \A i : Numbered(i, refs.ids, pos - 1 - i)' <=> Numbered(i, refs.ids, pos - 1 - i)
      BY <1>2, <2>3 DEF Numbered
    <3> QED BY <1>2, <2>2, <2>3, <2>4, <3>1 DEF OpenTarget
  <2>8. \A j : Matched(j)' <=> Matched(j)
    <3>1. \A i, ids : Numbered(i, ids, Size(i))' <=> Numbered(i, ids, Size(i))
      BY <1>2, <2>3 DEF Numbered
    <3> QED BY <2>3, <2>6, <3>1 DEF Matched
  <2>9. OpenGroup'
    BY <1>2, <2>2, <2>3, <2>4, <2>6, <2>8 DEF OpenGroup
  <2> QED BY <2>7, <2>9
<1>3. (\E op : Visit(op)) \/ (pos' = pos /\ UNCHANGED <<clocs, refs, selects>> /\ (phase' = "walk" => phase = "walk"))
  BY Steps DEF Recording, VisitConst, VisitDefElem, VisitSubscription, VisitParamRef,
      EnterSelect, LeaveSelect, EnterTarget, LeaveTarget, EnterGroupItem, LeaveGroupItem, InSelect
<1> QED BY <1>1, <1>2, <1>3

-----------------------------------------------------------------------------
LEMMA SelectsHeld ==
  ASSUME NumbersInv, SelectsInv, [Next]_vars
  PROVE  SelectsInv'
<1>1. selects \in Seq(NumberedSelect(Ids)) /\ Len(selects) \in Nat
  <2>1. selects \in Seq(NumberedSelect(Ids))
    BY DEF NumbersInv, NumbersIn
  <2> QED BY <2>1, LenProperties
<1>2. CASE Recording \/ VisitParamRef \/ EnterTarget \/ LeaveGroupItem
  <2>1. PICK op \in {"const", "defelem", "matching", "param", "target", "group_end"} : Visit(op)
    BY <1>2 DEF Recording, VisitConst, VisitDefElem, VisitSubscription, VisitParamRef, EnterTarget,
                LeaveGroupItem, InSelect
  <2>2. selects' = selects
    BY <1>2 DEF Recording, VisitConst, VisitDefElem, VisitSubscription, VisitParamRef, EnterTarget,
                LeaveGroupItem
  <2> QED BY <2>1, <2>2, SelectsStep
<1>3. CASE EnterSelect
  <2> DEFINE new == [list |-> <<>>, prev |-> 0, match |-> <<>>]
  <2>1. Visit("select") /\ selects' = Append(selects, new)
    BY <1>3 DEF EnterSelect
  <2>2. new \in NumberedSelect(Ids)
    <3>1. \A S : <<>> \in Seq(S)
      BY EmptySeq
    <3> QED BY <3>1 DEF NumberedSelect
  <2> HIDE DEF new
  <2>3. Len(selects') = Len(selects) + 1
    BY <1>1, <2>1, <2>2, AppendProperties
  <2> QED BY <2>1, <2>3, SelectsStep
<1>4. CASE LeaveSelect
  <2>1. Visit("select_end") /\ selects' = Front(selects) /\ selects # <<>>
    BY <1>4 DEF LeaveSelect, InSelect
  <2>2. Len(selects) # 0
    BY <1>1, <2>1, EmptySeq
  <2>3. selects' = SubSeq(selects, 1, Len(selects) - 1) /\ Len(selects) > 0
    BY <1>1, <2>1, <2>2 DEF Front
  <2>4. \A e \in 1 .. Len(selects) - 1 : selects[e] \in NumberedSelect(Ids)
    BY <1>1, ElementOfSeq
  <2>5. Len(selects') = Len(selects) - 1
    <3> DEFINE n == Len(selects) - 1
    <3>1. n \in Nat /\ \A e \in 1 .. n : selects[e] \in NumberedSelect(Ids)
      BY <1>1, <2>3, <2>4
    <3> HIDE DEF n
    <3>2. Len(SubSeq(selects, 1, n)) = IF 1 <= n THEN n - 1 + 1 ELSE 0
      BY <3>1, SubSeqProperties
    <3>3. Len(SubSeq(selects, 1, n)) = n
      BY <3>1, <3>2
    <3> QED BY <2>3, <3>3 DEF n
  <2> QED BY <2>1, <2>5, SelectsStep
<1>5. CASE LeaveTarget \/ EnterGroupItem
  <2>1. PICK op \in {"target_end", "group"} : Visit(op)
    BY <1>5 DEF LeaveTarget, EnterGroupItem, InSelect
  <2>2. \E new : selects' = [selects EXCEPT ![Len(selects)] = new]
    <3>1. CASE LeaveTarget
      <4>1. selects' = [selects EXCEPT ![Len(selects)].list =
                           Append(@, [fp |-> Step.fp, ids |-> refs.ids])]
        BY <3>1 DEF LeaveTarget
      <4> QED BY <4>1
    <3>2. CASE EnterGroupItem
      <4>1. \E list, match : Matching(list, match)
        BY <3>2 DEF EnterGroupItem
      <4> QED BY <4>1 DEF Matching
    <3> QED BY <1>5, <3>1, <3>2
  <2>3. Len(selects') = Len(selects)
    BY <1>1, <2>2
  <2> QED BY <2>1, <2>3, SelectsStep
<1>6. CASE pos' = pos /\ UNCHANGED <<clocs, refs, selects>> /\ (phase' = "walk" => phase = "walk")
  <2>1. query' = query
    BY Steps
  <2>2. \A i : Op(i)' = Op(i) /\ Depth(i)' = Depth(i)
    BY <2>1, QueryStays
  <2>3. \A i, d : Here(i, d)' <=> Here(i, d)
    BY <1>6, <2>1, <2>2 DEF Here
  <2>4. Depth(pos)' = Depth(pos)
    BY <1>6, <2>1 DEF Depth
  <2> QED BY <1>6, <2>3, <2>4 DEF SelectsInv
<1> QED BY <1>2, <1>3, <1>4, <1>5, <1>6, Steps

LEMMA GroupingInit ==
  ASSUME Init, Orderly
  PROVE  GroupingInv
<1>1. /\ query \in Queries /\ pos = 1 /\ clocs = <<>> /\ selects = <<>> /\ phase = "walk"
      /\ DOMAIN query.walk \subseteq Nat \ {0}
  BY Places DEF Init
<1>2. DOMAIN clocs = {} /\ Len(selects) = 0
  BY <1>1
<1>3. \A i, d : ~Here(i, d)
  BY <1>1 DEF Here
<1>4. SelectsInv
  BY <1>1, <1>2, <1>3, DepthFirst DEF SelectsInv
<1>5. ListsInv
  BY <1>2 DEF ListsInv
<1>6. \A i : ~OpenAt(i, pos)
  BY <1>1 DEF OpenAt
<1>7. ItemsInv
  BY <1>6 DEF ItemsInv, OpenTarget, OpenGroup
<1>8. Single
  BY <1>2 DEF Single
<1>9. Agreed
  <2> SUFFICES ASSUME NEW i \in DOMAIN query.walk, NEW j \in DOMAIN query.walk, Repeats(i, j),
                      ItemEnd(j) < pos
               PROVE  FALSE
    BY DEF Agreed
  <2>1. ItemEnd(j) \in Nat /\ j + Size(j) < ItemEnd(j) /\ j \in Nat /\ Size(j) \in Nat
    BY <1>1, Repeating
  <2>2. j > 0
    BY <1>1
  <2> QED BY <1>1, <2>1, <2>2
<1> QED BY <1>4, <1>5, <1>7, <1>8, <1>9 DEF GroupingInv

LEMMA OrderlyStays ==
  ASSUME query' = query
  PROVE  Orderly' = Orderly /\ Located' = Located
<1>1. /\ query.walk' = query.walk /\ query.quotes' = query.quotes
      /\ \A i : Op(i)' = Op(i) /\ FpOf(i)' = FpOf(i) /\ ItemEnd(i)' = ItemEnd(i)
                /\ (IsItem(i)' <=> IsItem(i)) /\ Depth(i)' = Depth(i)
      /\ \A i, k : OpenAt(i, k)' <=> OpenAt(i, k)
  BY QueryStays
<1>2. \A i, j : SameSelect(i, j)' <=> SameSelect(i, j)
  BY <1>1 DEF SameSelect
<1>3. \A i : Found(i)' = Found(i)
  BY DEF Found
<1>4. Flat' = Flat
  BY <1>1 DEF Flat
<1>5. Closed' = Closed
  BY <1>1 DEF Closed
<1>6. Apart' = Apart
  BY <1>1, <1>3 DEF Apart
<1>7. Ordered' = Ordered
  BY <1>1, <1>2 DEF Ordered
<1>8. Alike' = Alike
  BY <1>1 DEF Alike
<1>9. Located' = Located
  BY DEF Located, Constants, tokens
<1> QED BY <1>4, <1>5, <1>6, <1>7, <1>8, <1>9 DEF Orderly

GroupsInv == ReplacingInv /\ (Located /\ Orderly => GroupingInv)

LEMMA GroupsInit == Init => GroupsInv
BY ReplacingInit, GroupingInit DEF GroupsInv

LEMMA GroupsStep == GroupsInv /\ [Next]_vars => GroupsInv'
<1> SUFFICES ASSUME GroupsInv, [Next]_vars PROVE GroupsInv'
  OBVIOUS
<1>1. ReplacingInv /\ ReplacingInv' /\ NumbersInv
  BY ReplacingStep DEF GroupsInv, ReplacingInv
<1>2. query' = query
  BY <1>1, Steps
<1>3. ASSUME Located, Orderly
      PROVE  SelectsInv' /\ ListsInv' /\ ItemsInv' /\ Single' /\ Agreed'
  <2>1. LocationsInv /\ SelectsInv /\ ListsInv /\ ItemsInv /\ Single /\ Agreed
    BY <1>3 DEF GroupsInv, ReplacingInv, GroupingInv
  <2>2. SelectsInv'
    BY <1>1, <2>1, SelectsHeld
  <2>3. ListsInv'
    BY <1>1, <1>3, <2>1, ListsStep
  <2>4. ItemsInv'
    BY <1>1, <1>3, <2>1, ItemsStep
  <2>5. Single'
    BY <1>1, <1>3, <2>1, SingleStep
  <2>6. Agreed'
    BY <1>1, <1>3, <2>1, AgreedStep
  <2> QED BY <2>2, <2>3, <2>4, <2>5, <2>6
<1>4. Located' /\ Orderly' => GroupingInv'
  BY <1>2, <1>3, OrderlyStays DEF GroupingInv
<1> QED BY <1>1, <1>4 DEF GroupsInv

(* Plain queries have items that are alike. *)
LEMMA PlainItemsAlike ==
  ASSUME PlainItems
  PROVE  Alike
<1>1. \A i : IsItem(i) => i \in Items
  BY DEF IsItem, Items, Op
<1> QED BY <1>1 DEF PlainItems, Alike

(* A GROUP BY item that repeats a target gets the parameters of the        *)
(* target, for every query whose targets and GROUP BY items hold constants *)
(* only, each with a place of its own in the text, and whose targets come  *)
(* before the items (pg_query_normalize.c:507-510).                        *)
THEOREM GroupByKeepsTargets == Spec => [](Located /\ Tidy => PlainGroupByKeepsItsTarget)
<1>1. ASSUME GroupsInv, Located, Tidy
      PROVE  PlainGroupByKeepsItsTarget
  <2> SUFFICES ASSUME phase = "done", PlainItems,
                      NEW i \in DOMAIN query.walk, NEW j \in DOMAIN query.walk,
                      Repeats(i, j), NEW k \in 1 .. ItemEnd(i) - i - 1
               PROVE  /\ Op(i + k) = "const" /\ Op(j + k) = "const"
                      /\ Written(query.walk[i + k]) = Written(query.walk[j + k])
    BY DEF PlainGroupByKeepsItsTarget, KeepsItsTarget
  <2>0. Orderly
    BY <1>1, PlainItemsAlike DEF Tidy, Orderly
  <2>1. /\ NumbersInv /\ LocationsInv /\ Agreed /\ Closed /\ Apart /\ query \in Queries
    BY <1>1, <2>0 DEF GroupsInv, ReplacingInv, GroupingInv, Orderly, NumbersInv, TypeInv
  <2>2. /\ IsItem(i) /\ IsItem(j) /\ Size(j) = Size(i) /\ k \in 1 .. Size(i)
    BY <2>0, <2>1, Repeating DEF Size
  <2>3. \A m \in DOMAIN query.walk : m < pos
    BY <2>1, QueriesAssumption DEF NumbersInv, TypeInv
  <2>4. ItemEnd(j) < pos
    BY <2>1, <2>2, <2>3, EndOfItem
  <2>5. PICK ids : Numbered(i, ids, Size(i)) /\ Numbered(j, ids, Size(i))
    BY <2>1, <2>4 DEF Agreed
  <2>6. ASSUME NEW h, IsItem(h), Size(h) = Size(i), Numbered(h, ids, Size(i))
        PROVE  Op(h + k) = "const" /\ Written(query.walk[h + k]) = Final(ids[k])
    <3>1. /\ h + k \in DOMAIN query.walk /\ Op(h + k) = "const"
          /\ query.walk[h + k].n \in Found(h + k)
      BY <2>1, <2>2, <2>6, ConstantsOfItem
    <3>2. query.walk[h + k].n \in Locations
      BY <2>1, <2>3, <3>1 DEF LocationsInv
    <3> DEFINE At(c) == c \in DOMAIN clocs /\ clocs[c].location = query.walk[h + k].n
               c == CHOOSE c \in DOMAIN clocs : clocs[c].location = query.walk[h + k].n
    <3>3. c \in DOMAIN clocs /\ clocs[c].location = query.walk[h + k].n
      BY <3>2 DEF Locations
    <3>4. Written(query.walk[h + k]) = Final(clocs[c].param)
      BY <3>1 DEF Written, Op
    <3> HIDE DEF c
    <3>5. clocs[c].param = ids[k]
      BY <2>2, <2>6, <3>3 DEF Numbered
    <3> QED BY <3>1, <3>4, <3>5
  <2> QED BY <2>2, <2>5, <2>6
<1>2. GroupsInv => (Located /\ Tidy => PlainGroupByKeepsItsTarget)
  BY <1>1
<1> QED BY <1>2, GroupsInit, GroupsStep, PTL DEF Spec
=============================================================================
