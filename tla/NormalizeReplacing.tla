------------------------- MODULE NormalizeReplacing -------------------------
(***************************************************************************)
(* What a normalization replaces: for every query whose constants are      *)
(* tokens of its text, each constant is replaced once and whole, in        *)
(* whatever order and however often the walk came across them.             *)
(***************************************************************************)
EXTENDS NormalizeProofs

tokens == query.tokens

(* The constants are tokens, those that start with a minus have a token    *)
(* after it, and that is not a constant of its own.                        *)
Located ==
  \A loc \in Constants : \E j \in DOMAIN tokens :
    /\ tokens[j].at = loc
    /\ loc \in query.minus =>
         j + 1 \in DOMAIN tokens /\ tokens[j + 1].at \notin Constants

(* The first and the last token of a constant. *)
StartOf(loc) == CHOOSE j \in DOMAIN tokens : tokens[j].at = loc
EndOf(loc) == IF loc \in query.minus THEN StartOf(loc) + 1 ELSE StartOf(loc)

LEMMA TokensInOrder ==
  ASSUME query \in Queries, NEW j \in DOMAIN tokens, NEW k \in DOMAIN tokens
  PROVE  /\ j < k <=> tokens[j].at < tokens[k].at
         /\ j = k <=> tokens[j].at = tokens[k].at
<1>1. /\ j \in Nat /\ k \in Nat /\ tokens[j].at \in Nat /\ tokens[k].at \in Nat
      /\ tokens[j].end \in Nat /\ tokens[k].end \in Nat
      /\ tokens[j].at < tokens[j].end /\ tokens[k].at < tokens[k].end
  BY Tokens DEF tokens
<1>2. /\ j < k => tokens[j].end <= tokens[k].at
      /\ k < j => tokens[k].end <= tokens[j].at
  BY QueriesAssumption DEF tokens
<1> QED BY <1>1, <1>2

(* Where a constant starts and ends, and that it ends before the next one. *)
LEMMA ConstantTokens ==
  ASSUME query \in Queries, Located, NEW loc \in Constants
  PROVE  /\ loc \in Nat
         /\ StartOf(loc) \in DOMAIN tokens /\ tokens[StartOf(loc)].at = loc
         /\ EndOf(loc) \in DOMAIN tokens /\ StartOf(loc) <= EndOf(loc)
         /\ tokens[EndOf(loc)].end - loc >= 0
         /\ TokenEnd(loc) = tokens[EndOf(loc)].end
         /\ loc \in query.minus => tokens[EndOf(loc)].at \notin Constants
<1>1. PICK j \in DOMAIN tokens :
        /\ tokens[j].at = loc
        /\ loc \in query.minus =>
             j + 1 \in DOMAIN tokens /\ tokens[j + 1].at \notin Constants
  BY DEF Located
<1>2. StartOf(loc) \in DOMAIN tokens /\ tokens[StartOf(loc)].at = loc
  BY <1>1 DEF StartOf
<1>3. StartOf(loc) = j
  BY <1>1, <1>2, TokensInOrder
<1>4. EndOf(loc) \in DOMAIN tokens
  BY <1>1, <1>3 DEF EndOf
<1>5. j \in Nat /\ loc \in Nat
  BY <1>1, Tokens DEF tokens
<1>6. j <= EndOf(loc)
  BY <1>3, <1>5 DEF EndOf
<1>7. tokens[EndOf(loc)].end - loc >= 0
  <2>1. EndOf(loc) \in Nat /\ tokens[EndOf(loc)].end \in Nat /\ tokens[EndOf(loc)].at \in Nat
        /\ tokens[EndOf(loc)].at < tokens[EndOf(loc)].end
    BY <1>4, Tokens DEF tokens
  <2>2. loc <= tokens[EndOf(loc)].at
    BY <1>1, <1>4, <1>5, <1>6, <2>1, TokensInOrder
  <2> QED BY <1>5, <2>1, <2>2
<1>8. TokenEnd(loc) = tokens[EndOf(loc)].end
  BY DEF TokenEnd, EndOf, StartOf, tokens
<1> QED BY <1>1, <1>2, <1>3, <1>4, <1>5, <1>6, <1>7, <1>8 DEF EndOf

LEMMA ConstantsApart ==
  ASSUME query \in Queries, Located,
         NEW a \in Constants, NEW b \in Constants, a < b
  PROVE  EndOf(a) < StartOf(b)
<1>1. /\ StartOf(a) \in DOMAIN tokens /\ tokens[StartOf(a)].at = a
      /\ StartOf(b) \in DOMAIN tokens /\ tokens[StartOf(b)].at = b
      /\ EndOf(a) \in DOMAIN tokens /\ a \in Nat /\ b \in Nat
      /\ a \in query.minus => tokens[EndOf(a)].at \notin Constants
  BY ConstantTokens
<1>2. StartOf(a) < StartOf(b)
  BY <1>1, TokensInOrder
<1>3. StartOf(a) \in Nat /\ StartOf(b) \in Nat
  BY <1>1, Tokens DEF tokens
<1>4. CASE a \in query.minus
  <2>1. EndOf(a) = StartOf(a) + 1 /\ EndOf(a) # StartOf(b)
    BY <1>1, <1>4 DEF EndOf
  <2> QED BY <1>2, <1>3, <2>1
<1> QED BY <1>2, <1>4 DEF EndOf
-----------------------------------------------------------------------------
(* The walk records the constants of the query.                            *)

(* Where step j of the walk finds a constant: nowhere, or at one place. *)
Found(j) ==
  LET s == query.walk[j]
  IN  CASE s.op = "const"                -> {s.n}
        [] s.op = "matching" /\ s.n > 0  -> {s.n - 1}
        [] s.op = "defelem" /\ (\E i \in query.quotes : i >= s.n)
             -> {CHOOSE i \in query.quotes : i >= s.n
                   /\ \A k \in query.quotes : k >= s.n => i <= k}
        [] OTHER                         -> {}

Locations == {clocs[i].location : i \in DOMAIN clocs}

LocationsInv ==
  \A loc : loc \in Locations <=> \E j \in DOMAIN query.walk : j < pos /\ loc \in Found(j)

LEMMA ConstantsAreFound ==
  \A loc : loc \in Constants <=> \E j \in DOMAIN query.walk : loc \in Found(j)
<1> SUFFICES ASSUME NEW loc
             PROVE  loc \in Constants <=> \E j \in DOMAIN query.walk : loc \in Found(j)
  OBVIOUS
<1>1. /\ \A j : query.walk[j].op = "const" => Found(j) = {query.walk[j].n}
      /\ \A j : query.walk[j].op = "matching" /\ query.walk[j].n > 0
                 => Found(j) = {query.walk[j].n - 1}
      /\ \A j : query.walk[j].op = "defelem" /\ (\E i \in query.quotes : i >= query.walk[j].n)
                 => Found(j) = {CHOOSE i \in query.quotes : i >= query.walk[j].n
                                 /\ \A k \in query.quotes : k >= query.walk[j].n => i <= k}
      /\ \A j : Found(j) # {} =>
                 \/ query.walk[j].op = "const"
                 \/ query.walk[j].op = "matching" /\ query.walk[j].n > 0
                 \/ query.walk[j].op = "defelem" /\ (\E i \in query.quotes : i >= query.walk[j].n)
  BY DEF Found
<1> QED BY <1>1 DEF Constants

(* A step of the walk that records what it finds. *)
LEMMA FoundIsRecorded ==
  ASSUME NumbersInv, Located, VisitConst \/ VisitDefElem \/ VisitSubscription
  PROVE  \E loc \in Int :
           Record(loc) /\ (IF loc >= 0 THEN Found(pos) = {loc} ELSE Found(pos) = {})
<1>1. PICK op \in {"const", "defelem", "matching"} : Visit(op)
  BY DEF VisitConst, VisitDefElem, VisitSubscription
<1>2. /\ query \in Queries /\ pos \in DOMAIN query.walk /\ query.walk[pos] = Step
      /\ Step.op = op
  BY <1>1, Visited DEF NumbersInv, TypeInv
<1>3. Step.n \in Int /\ query.quotes \subseteq Nat
  BY <1>1, <1>2, QueriesAssumption
<1>4. CASE VisitConst
  <2>1. Found(pos) = {Step.n} /\ Record(Step.n)
    BY <1>2, <1>4 DEF VisitConst, Visit, Found
  <2>2. Step.n \in Constants
    BY <1>2, <2>1, ConstantsAreFound
  <2> QED BY <1>2, <1>3, <2>1, <2>2, ConstantTokens
<1>5. CASE VisitSubscription
  <2>1. Step.op = "matching" /\ Record(Step.n - 1)
    BY <1>5 DEF VisitSubscription, Visit
  <2>2. IF Step.n > 0 THEN Found(pos) = {Step.n - 1} ELSE Found(pos) = {}
    BY <1>2, <2>1 DEF Found
  <2> QED BY <1>3, <2>1, <2>2
<1>6. CASE VisitDefElem
  <2> DEFINE found == {i \in query.quotes : i >= Step.n}
  <2>1. Step.op = "defelem"
    BY <1>6 DEF VisitDefElem, Visit
  <2>2. CASE found = {} /\ Record(-1)
    BY <1>2, <2>1, <2>2 DEF Found
  <2>3. CASE \E i \in found : (\A j \in found : i <= j) /\ Record(i)
    <3>1. PICK i \in found : (\A j \in found : i <= j) /\ Record(i)
      BY <2>3
    <3> DEFINE First(k) == k >= Step.n /\ \A j \in query.quotes : j >= Step.n => k <= j
    <3>2. First(i) /\ i \in Nat /\ i \in query.quotes
      BY <1>3, <3>1
    <3>3. \A k \in query.quotes : First(k) => k = i
      BY <1>3, <3>2
    <3>4. (CHOOSE k \in query.quotes : First(k)) = i
      BY <3>2, <3>3
    <3>5. Found(pos) = {CHOOSE k \in query.quotes : First(k)}
      BY <1>2, <2>1, <3>2 DEF Found
    <3> HIDE DEF First
    <3>6. Found(pos) = {i}
      BY <3>4, <3>5
    <3>7. i \in Int /\ i >= 0
      BY <3>2
    <3> QED BY <3>1, <3>6, <3>7
  <2> QED BY <1>6, <2>2, <2>3 DEF VisitDefElem
<1> QED BY <1>4, <1>5, <1>6

(* The constants of a GROUP BY item stay where they are. *)
LEMMA ItemsStay ==
  ASSUME NumbersInv, LeaveGroupItem
  PROVE  /\ DOMAIN clocs' = DOMAIN clocs
         /\ \A i \in DOMAIN clocs : clocs'[i].location = clocs[i].location
<1> DEFINE ids == Frame.match[1]
<1>1. clocs \in Seq(NumberedClocation(Ids))
  BY DEF NumbersInv, NumbersIn
<1>2. \A i \in DOMAIN clocs : clocs[i] \in NumberedClocation(Ids)
  BY <1>1, ElementOfSeq, LenProperties
<1>3. \/ UNCHANGED clocs
      \/ clocs' = [i \in DOMAIN clocs |->
                     IF i <= Frame.prev THEN clocs[i]
                     ELSE [clocs[i] EXCEPT !.param = ids[i - Frame.prev]]]
  BY DEF LeaveGroupItem
<1> HIDE DEF ids
<1> QED BY <1>2, <1>3 DEF NumberedClocation

(* A step that visits neither a constant nor something like it. *)
LEMMA NothingFound ==
  ASSUME NumbersInv, NEW op, Visit(op), op \notin {"const", "defelem", "matching"}
  PROVE  Found(pos) = {}
BY Visited DEF NumbersInv, Found

LEMMA LocationsInit == Init => LocationsInv
<1> SUFFICES ASSUME Init PROVE LocationsInv
  OBVIOUS
<1>1. Locations = {}
  BY DEF Init, Locations
<1>2. \A j \in DOMAIN query.walk : j >= pos
  BY QueriesAssumption DEF Init
<1>3. \A j \in DOMAIN query.walk : ~(j < pos)
  BY <1>2, QueriesAssumption DEF Init
<1> QED BY <1>1, <1>3 DEF LocationsInv

LEMMA LocationsStep ==
  ASSUME NumbersInv, LocationsInv, Located, [Next]_vars
  PROVE  LocationsInv'
<1>1. ASSUME NEW op, Visit(op), \A loc : loc \in Locations' <=> loc \in Locations \cup Found(pos)
      PROVE  LocationsInv'
  <2>1. /\ query' = query /\ pos' = pos + 1 /\ pos \in Nat /\ pos \in DOMAIN query.walk
        /\ \A j \in DOMAIN query.walk : j \in Nat
    BY <1>1, Visited DEF NumbersInv
  <2>2. \A j : Found(j)' = Found(j)
    BY <2>1 DEF Found
  <2>3. \A j \in DOMAIN query.walk : j < pos' <=> j < pos \/ j = pos
    BY <2>1
  <2>4. \A loc : loc \in Locations' <=> \E j \in DOMAIN query.walk : j < pos' /\ loc \in Found(j)
    BY <1>1, <2>1, <2>3 DEF LocationsInv
  <2> QED BY <2>1, <2>2, <2>4 DEF LocationsInv
<1>2. CASE VisitConst \/ VisitDefElem \/ VisitSubscription
  <2>1. PICK loc \in Int :
          Record(loc) /\ (IF loc >= 0 THEN Found(pos) = {loc} ELSE Found(pos) = {})
    BY <1>2, FoundIsRecorded
  <2>2. PICK op : Visit(op)
    BY <1>2 DEF VisitConst, VisitDefElem, VisitSubscription
  <2>3. CASE loc >= 0
    <3> DEFINE c == [location |-> loc, param |-> -high]
    <3>1. clocs' = Append(clocs, c) /\ clocs \in Seq(Clocation) /\ high \in Int
      BY <2>1, <2>3 DEF Record, NumbersInv, TypeInv, TypeOK, Clocation
    <3>2. c \in Clocation
      BY <2>3, <3>1 DEF Clocation
    <3> HIDE DEF c
    <3>3. /\ DOMAIN clocs' = 1 .. Len(clocs) + 1 /\ DOMAIN clocs = 1 .. Len(clocs)
          /\ Len(clocs) \in Nat
          /\ \A i \in 1 .. Len(clocs) : clocs'[i] = clocs[i]
          /\ clocs'[Len(clocs) + 1] = c
      BY <3>1, <3>2, AppendProperties, LenProperties
    <3>4. \A a : a \in Locations' <=> a \in Locations \/ a = loc
      <4>1. \A i : i \in DOMAIN clocs' <=> i \in DOMAIN clocs \/ i = Len(clocs) + 1
        BY <3>3
      <4>2. c.location = loc
        BY DEF c
      <4> QED BY <3>3, <4>1, <4>2 DEF Locations
    <3> QED BY <1>1, <2>1, <2>2, <2>3, <3>4
  <2>4. CASE ~(loc >= 0)
    <3>1. clocs' = clocs /\ Found(pos) = {}
      BY <2>1, <2>4 DEF Record
    <3> QED BY <1>1, <2>2, <3>1 DEF Locations
  <2> QED BY <2>3, <2>4
<1>3. CASE LeaveGroupItem
  <2>1. Visit("group_end") /\ Found(pos) = {}
    BY <1>3, NothingFound DEF LeaveGroupItem, InSelect
  <2>2. Locations' = Locations
    BY <1>3, ItemsStay DEF Locations
  <2> QED BY <1>1, <2>1, <2>2
<1>4. CASE VisitParamRef \/ EnterSelect \/ LeaveSelect \/ EnterTarget \/ LeaveTarget
           \/ EnterGroupItem
  <2>1. PICK op \in {"param", "select", "select_end", "target", "target_end", "group"} : Visit(op)
    BY <1>4 DEF VisitParamRef, EnterSelect, LeaveSelect, EnterTarget, LeaveTarget,
                EnterGroupItem, InSelect
  <2>2. Found(pos) = {} /\ clocs' = clocs
    BY <1>4, <2>1, NothingFound
    DEF VisitParamRef, EnterSelect, LeaveSelect, EnterTarget, LeaveTarget, EnterGroupItem
  <2> QED BY <1>1, <2>1, <2>2 DEF Locations
<1>5. CASE EndWalk \/ FillLength \/ EndLengths \/ WriteParam \/ WriteRest \/ UNCHANGED vars
  <2>1. query' = query /\ pos' = pos /\ clocs' = clocs
    BY <1>5 DEF EndWalk, FillLength, EndLengths, WriteParam, WriteRest, vars, walkVars
  <2> QED BY <2>1 DEF LocationsInv, Locations, Found
<1> QED BY <1>2, <1>3, <1>4, <1>5 DEF Next

(* When the walk is over, what is recorded is the constants. *)
LEMMA AllAreRecorded ==
  ASSUME NumbersInv, LocationsInv, phase # "walk"
  PROVE  Locations = Constants
<1>1. \A j \in DOMAIN query.walk : j < pos
  BY QueriesAssumption DEF NumbersInv, TypeInv
<1> QED BY <1>1, ConstantsAreFound DEF LocationsInv
-----------------------------------------------------------------------------
(* What is recorded is replaced.                                           *)

(* Whether a record has a length, and whether it is that of a constant. *)
Kept(c) == c.len >= 0
Right(c) == c.off \in Constants /\ c.off + c.len = TokenEnd(c.off)

(* What is at loc is replaced, or will be. *)
Handled(loc) ==
  \/ \E i \in DOMAIN out : out[i].off = loc
  \/ \E i \in DOMAIN sorted : Kept(sorted[i]) /\ sorted[i].off = loc

ReplacedInv ==
  /\ \A i \in DOMAIN sorted : Kept(sorted[i]) => Right(sorted[i])
  /\ \A i, j \in DOMAIN sorted :
       i < j /\ Kept(sorted[i]) /\ Kept(sorted[j]) => sorted[i].off < sorted[j].off
  /\ \A i \in DOMAIN out : Right(out[i])
  /\ \A i, j \in DOMAIN out : i < j => out[i].off < out[j].off
  /\ \A i \in DOMAIN out, j \in DOMAIN sorted :
       Kept(sorted[j]) => out[i].off < sorted[j].off

(* Nothing is passed over on the way from one phase to the next. *)
PhasesInv ==
  /\ phase = "walk" => sorted = <<>> /\ lexed = 0 /\ lastLoc = -1
  /\ phase \in {"walk", "lengths"} => out = <<>>
  /\ phase \in {"text", "done"} => left = {}
  /\ phase = "done" => sorted = <<>>
  /\ phase # "walk" => \A r \in DOMAIN clocs \ left : Handled(clocs[r].location)

(* The lexer stands at the end of the constant that was met last. *)
LexedInv ==
  phase = "lengths" =>
    /\ \A r \in left : clocs[r].location >= lastLoc
    /\ \A i \in DOMAIN sorted : Kept(sorted[i]) => sorted[i].off <= lastLoc
    /\ \/ lastLoc = -1 /\ lexed = 0
       \/ lastLoc \in Constants /\ lexed = EndOf(lastLoc) /\ Handled(lastLoc)

(* fill_in_constant_lengths finds the tokens of a new constant, and knows  *)
(* one that it has met before.                                             *)
LEMMA ConstantLexed ==
  ASSUME NumbersInv, LocationsInv, Located, PhasesInv, LexedInv, FillLength
  PROVE  \E r \in left, len \in Int :
           LET loc == clocs[r].location
           IN  /\ \A s \in left : loc <= clocs[s].location
               /\ left' = left \ {r}
               /\ sorted' = Append(sorted, [off |-> loc, len |-> len, param |-> clocs[r].param])
               /\ \/ /\ loc = lastLoc /\ lastLoc \in Constants /\ len = -1
                     /\ lexed' = lexed /\ lastLoc' = lastLoc
                  \/ /\ loc > lastLoc /\ len >= 0 /\ loc + len = TokenEnd(loc)
                     /\ lexed' = EndOf(loc) /\ lastLoc' = loc
<1> DEFINE toks == query.tokens
           first(loc) == {j \in lexed + 1 .. Len(toks) :
                            /\ toks[j].at >= loc
                            /\ \A k \in lexed + 1 .. j - 1 : toks[k].at < loc}
           ends(loc) == {IF loc \in query.minus THEN j + 1 ELSE j : j \in first(loc)}
                          \cap DOMAIN toks
<1>1. PICK r \in left :
        LET loc == clocs[r].location
            With(len) == sorted' = Append(sorted, [off |-> loc, len |-> len,
                                                   param |-> clocs[r].param])
        IN  /\ \A s \in left : loc <= clocs[s].location
            /\ left' = left \ {r}
            /\ \/ loc <= lastLoc /\ With(-1) /\ lexed' = lexed /\ lastLoc' = lastLoc
               \/ /\ loc > lastLoc
                  /\ \E last \in ends(loc) :
                       With(toks[last].end - loc) /\ lexed' = last /\ lastLoc' = loc
               \/ loc > lastLoc /\ ends(loc) = {}
  BY DEF FillLength
<1> DEFINE loc == clocs[r].location
<1>2. /\ phase = "lengths" /\ query \in Queries /\ left \subseteq DOMAIN clocs
      /\ lastLoc \in Int /\ lexed \in Nat
  BY DEF FillLength, NumbersInv, TypeInv, TypeOK
<1>3. loc \in Constants
  BY <1>2, AllAreRecorded DEF Locations
<1>4. loc \in Nat /\ StartOf(loc) \in DOMAIN tokens /\ tokens[StartOf(loc)].at = loc
      /\ EndOf(loc) \in DOMAIN tokens /\ tokens[EndOf(loc)].end - loc >= 0
      /\ TokenEnd(loc) = tokens[EndOf(loc)].end /\ tokens[EndOf(loc)].end \in Nat
      /\ tokens = toks
  BY <1>2, <1>3, ConstantTokens, Tokens DEF tokens
<1>5. Len(toks) \in Nat /\ DOMAIN toks = 1 .. Len(toks)
  BY <1>2, QueriesAssumption, LenProperties
<1>6. ASSUME loc > lastLoc
      PROVE  ends(loc) = {EndOf(loc)}
  <2>1. lexed < StartOf(loc)
    <3>1. CASE lastLoc = -1 /\ lexed = 0
      BY <1>4, <1>5, <3>1
    <3>2. CASE lastLoc \in Constants /\ lexed = EndOf(lastLoc)
      BY <1>2, <1>3, <1>6, <3>2, ConstantsApart
    <3> QED BY <1>2, <3>1, <3>2 DEF LexedInv
  <2>2. \A j \in DOMAIN toks : toks[j].at \in Nat /\ j \in Nat
                              /\ (toks[j].at < loc <=> j < StartOf(loc))
    <3> SUFFICES ASSUME NEW j \in DOMAIN toks
                 PROVE  toks[j].at \in Nat /\ j \in Nat
                        /\ (toks[j].at < loc <=> j < StartOf(loc))
      OBVIOUS
    <3> QED BY <1>2, <1>4, Tokens, TokensInOrder DEF tokens
  <2>3. StartOf(loc) \in 1 .. Len(toks) /\ StartOf(loc) \in Nat
    BY <1>4, <1>5
  <2> HIDE DEF toks, loc
  <2>4. StartOf(loc) \in first(loc)
    <3>1. \A k \in lexed + 1 .. StartOf(loc) - 1 : toks[k].at < loc
      BY <1>2, <1>5, <2>2, <2>3
    <3> QED BY <1>2, <1>4, <2>1, <2>3, <3>1
  <2>5. ASSUME NEW j \in first(loc) PROVE j = StartOf(loc)
    <3>1. j \in 1 .. Len(toks) /\ toks[j].at >= loc
      BY <1>2, <2>5
    <3>2. ~(j < StartOf(loc))
      BY <1>4, <1>5, <2>2, <3>1
    <3>3. ~(StartOf(loc) < j)
      BY <1>2, <1>4, <2>1, <2>3, <2>5, <3>1
    <3> QED BY <2>3, <3>1, <3>2, <3>3
  <2>6. first(loc) = {StartOf(loc)}
    BY <2>4, <2>5
  <2> HIDE DEF first
  <2>7. ends(loc) = {EndOf(loc)} \cap DOMAIN toks
    BY <2>6 DEF EndOf
  <2> QED BY <1>4, <2>7
<1> HIDE DEF ends, toks
<1>7. CASE loc <= lastLoc
  <2>1. loc >= lastLoc
    BY <1>2 DEF LexedInv
  <2>2. loc = lastLoc /\ ~(loc > lastLoc)
    BY <1>2, <1>4, <1>7, <2>1
  <2> WITNESS r \in left, -1 \in Int
  <2> QED BY <1>1, <1>3, <2>2
<1>8. CASE loc > lastLoc
  <2> DEFINE len == tokens[EndOf(loc)].end - loc
  <2>1. ends(loc) = {EndOf(loc)} /\ ~(loc <= lastLoc)
    BY <1>2, <1>4, <1>6, <1>8
  <2>2. len \in Int /\ len >= 0 /\ loc + len = TokenEnd(loc)
    BY <1>4
  <2>3. /\ sorted' = Append(sorted, [off |-> loc, len |-> len, param |-> clocs[r].param])
        /\ lexed' = EndOf(loc) /\ lastLoc' = loc
    BY <1>1, <1>4, <2>1
  <2>4. len \in Int
    BY <2>2
  <2> HIDE DEF len
  <2> WITNESS r \in left, len \in Int
  <2> QED BY <1>1, <1>3, <1>8, <2>2, <2>3
<1> QED BY <1>2, <1>4, <1>7, <1>8

LEMMA LengthsStep ==
  ASSUME NumbersInv, LocationsInv, Located, ReplacedInv, PhasesInv, LexedInv, FillLength
  PROVE  ReplacedInv' /\ PhasesInv' /\ LexedInv'
<1>0. /\ phase = "lengths" /\ query \in Queries /\ left \subseteq DOMAIN clocs
      /\ \A r \in DOMAIN clocs : clocs[r].location \in Constants
  BY AllAreRecorded DEF FillLength, NumbersInv, TypeInv, TypeOK, Locations
<1>1. PICK r \in left, len \in Int, loc \in Constants :
        /\ loc = clocs[r].location
        /\ \A s \in left : loc <= clocs[s].location
        /\ left' = left \ {r}
        /\ sorted' = Append(sorted, [off |-> loc, len |-> len, param |-> clocs[r].param])
        /\ \/ /\ loc = lastLoc /\ lastLoc \in Constants /\ len = -1
              /\ lexed' = lexed /\ lastLoc' = lastLoc
           \/ /\ loc > lastLoc /\ len >= 0 /\ loc + len = TokenEnd(loc)
              /\ lexed' = EndOf(loc) /\ lastLoc' = loc
  BY <1>0, ConstantLexed
<1> DEFINE c == [off |-> loc, len |-> len, param |-> clocs[r].param]
<1>2. /\ phase = "lengths" /\ phase' = phase /\ query' = query /\ clocs' = clocs
      /\ out' = out /\ out = <<>>
  BY DEF FillLength, walkVars, textVars, PhasesInv
<1>3. /\ query \in Queries /\ left \subseteq DOMAIN clocs /\ lastLoc \in Int
      /\ sorted \in Seq(Replacement) /\ clocs \in Seq(Clocation)
  BY DEF NumbersInv, TypeInv, TypeOK, Clocation
<1>4. clocs[r] \in Clocation
  BY <1>3, ElementOfSeq, LenProperties
<1>5. loc \in Nat /\ c \in Replacement /\ c.off = loc /\ c.len = len
  BY <1>1, <1>4 DEF Clocation, Replacement
<1> HIDE DEF c
<1>6. /\ DOMAIN sorted' = 1 .. Len(sorted) + 1 /\ DOMAIN sorted = 1 .. Len(sorted)
      /\ Len(sorted) \in Nat
      /\ \A i \in 1 .. Len(sorted) : sorted'[i] = sorted[i]
      /\ sorted'[Len(sorted) + 1] = c
  BY <1>1, <1>3, <1>5, AppendProperties, LenProperties DEF c
<1>7. /\ \A i : i \in DOMAIN sorted' <=> i \in DOMAIN sorted \/ i = Len(sorted) + 1
      /\ \A i \in DOMAIN sorted : sorted'[i] = sorted[i] /\ i \in Nat /\ i < Len(sorted) + 1
      /\ \A i \in DOMAIN sorted : sorted[i].off \in Nat
  <2>1. \A i \in DOMAIN sorted : sorted[i] \in Replacement
    BY <1>3, <1>6, ElementOfSeq
  <2> QED BY <1>6, <2>1 DEF Replacement
<1>8. Constants' = Constants /\ \A a : TokenEnd(a)' = TokenEnd(a) /\ EndOf(a)' = EndOf(a)
  BY <1>2 DEF Constants, TokenEnd, EndOf, StartOf, tokens
<1>9. \A i \in DOMAIN sorted : Kept(sorted[i]) => Right(sorted[i]) /\ sorted[i].off <= lastLoc
  BY <1>2 DEF ReplacedInv, LexedInv
<1>10. Kept(c) => Right(c) /\ loc > lastLoc
  BY <1>1, <1>5 DEF Kept, Right
<1>11. \A a : Handled(a) => Handled(a)'
  BY <1>2, <1>7 DEF Handled, Kept
<1>12. Handled(loc)' /\ loc \in Constants
  <2>1. CASE Kept(c)
    BY <1>1, <1>5, <1>6, <1>7, <2>1 DEF Handled, Kept
  <2>2. CASE ~Kept(c)
    <3>1. loc = lastLoc /\ lastLoc \in Constants
      BY <1>1, <1>5, <2>2 DEF Kept
    <3>2. lastLoc # -1
      BY <1>5, <3>1
    <3> QED BY <1>2, <1>11, <3>1, <3>2 DEF LexedInv
  <2> QED BY <1>1, <2>1, <2>2
<1>13. ReplacedInv'
  <2>1. \A i \in DOMAIN sorted' : Kept(sorted'[i]) => Right(sorted'[i])
    BY <1>6, <1>7, <1>9, <1>10
  <2>2. \A i, j \in DOMAIN sorted' :
          i < j /\ Kept(sorted'[i]) /\ Kept(sorted'[j]) => sorted'[i].off < sorted'[j].off
    <3> SUFFICES ASSUME NEW i \in DOMAIN sorted', NEW j \in DOMAIN sorted',
                        i < j, Kept(sorted'[i]), Kept(sorted'[j])
                 PROVE  sorted'[i].off < sorted'[j].off
      OBVIOUS
    <3>1. i \in DOMAIN sorted
      BY <1>6
    <3>2. CASE j \in DOMAIN sorted
      BY <1>7, <3>1, <3>2 DEF ReplacedInv
    <3>3. CASE j = Len(sorted) + 1
      <4>1. sorted'[j] = c /\ sorted'[i] = sorted[i]
        BY <1>6, <1>7, <3>1, <3>3
      <4>2. sorted[i].off <= lastLoc /\ loc > lastLoc /\ sorted[i].off \in Nat
        BY <1>7, <1>9, <1>10, <3>1, <4>1
      <4> QED BY <1>3, <1>5, <4>1, <4>2
    <3> QED BY <1>7, <3>2, <3>3
  <2>3. \A i : ~(i \in DOMAIN out')
    BY <1>2
  <2> QED BY <1>8, <2>1, <2>2, <2>3 DEF ReplacedInv, Right, Kept
<1>14. PhasesInv'
  <2>1. \A s \in DOMAIN clocs \ left' : Handled(clocs[s].location)'
    BY <1>1, <1>2, <1>11, <1>12 DEF PhasesInv
  <2> QED BY <1>2, <2>1 DEF PhasesInv
<1>15. LexedInv'
  <2>1. lastLoc' = loc /\ lexed' = EndOf(loc) /\ loc >= lastLoc
    <3>1. CASE loc = lastLoc /\ lexed' = lexed /\ lastLoc' = lastLoc
      BY <1>2, <1>5, <3>1 DEF LexedInv
    <3>2. CASE loc > lastLoc /\ lexed' = EndOf(loc) /\ lastLoc' = loc
      BY <1>3, <1>5, <3>2
    <3> QED BY <1>1, <3>1, <3>2
  <2>2. \A s \in left' : clocs[s].location >= loc
    <3>1. \A s \in left : clocs[s].location \in Nat
      <4>1. \A s \in left : clocs[s] \in Clocation
        BY <1>3, ElementOfSeq, LenProperties
      <4> QED BY <4>1 DEF Clocation
    <3> QED BY <1>1, <1>5, <3>1
  <2>3. \A i \in DOMAIN sorted' : Kept(sorted'[i]) => sorted'[i].off <= loc
    <3>1. \A i \in DOMAIN sorted : Kept(sorted[i]) => sorted[i].off <= loc
      BY <1>3, <1>5, <1>7, <1>9, <2>1
    <3> QED BY <1>5, <1>6, <1>7, <3>1
  <2> QED BY <1>2, <1>8, <1>12, <2>1, <2>2, <2>3 DEF LexedInv, Kept
<1> QED BY <1>13, <1>14, <1>15

LEMMA WriteStep ==
  ASSUME NumbersInv, ReplacedInv, PhasesInv, WriteParam
  PROVE  ReplacedInv' /\ PhasesInv'
<1> DEFINE c == sorted[1]
           written == [off |-> c.off, len |-> c.len, param |-> Final(c.param)]
<1>1. /\ phase = "text" /\ phase' = phase /\ query' = query /\ clocs' = clocs
      /\ left' = left /\ left = {}
  BY DEF WriteParam, walkVars, PhasesInv
<1>2. /\ sorted \in Seq(Replacement) /\ sorted # <<>> /\ out \in Seq(Replacement)
      /\ extern \in 0 .. MaxInt
  BY DEF WriteParam, NumbersInv, TypeInv, TypeOK
<1>3. c \in Replacement /\ c = Head(sorted) /\ 1 \in DOMAIN sorted
  BY <1>2, HeadTailProperties, EmptySeq, LenProperties
<1>4. c.off \in Nat /\ c.len \in Int /\ c.param \in Int
  BY <1>3 DEF Replacement
<1>5. /\ sorted' = Tail(sorted) /\ Len(sorted) \in Nat /\ DOMAIN sorted = 1 .. Len(sorted)
      /\ DOMAIN sorted' = 1 .. Len(sorted) - 1
      /\ \A i \in 1 .. Len(sorted) - 1 : sorted'[i] = sorted[i + 1]
  <2>1. sorted' = Tail(sorted)
    BY DEF WriteParam
  <2> QED BY <1>2, <2>1, HeadTailProperties, LenProperties
<1>6. \A i \in DOMAIN sorted' : /\ i + 1 \in DOMAIN sorted /\ sorted'[i] = sorted[i + 1]
                                /\ i \in Nat /\ 1 < i + 1
  BY <1>5
<1>7. \A i \in DOMAIN sorted : i = 1 \/ (i - 1 \in DOMAIN sorted' /\ sorted'[i - 1] = sorted[i])
  BY <1>5
<1>8. Constants' = Constants /\ \A a : TokenEnd(a)' = TokenEnd(a)
  BY <1>1 DEF Constants, TokenEnd
<1>9. written \in Replacement
  BY <1>2, <1>4, WidthIsNat DEF Replacement
<1>10. IF Kept(c) THEN out' = Append(out, written) ELSE out' = out
  BY <1>3, <1>4 DEF WriteParam, textVars, Kept
<1>11. /\ \A i \in DOMAIN sorted' : Kept(sorted'[i]) => Right(sorted'[i])
       /\ \A i, j \in DOMAIN sorted' :
            i < j /\ Kept(sorted'[i]) /\ Kept(sorted'[j]) => sorted'[i].off < sorted'[j].off
  BY <1>6 DEF ReplacedInv
<1>12. CASE ~Kept(c)
  <2>1. out' = out
    BY <1>10, <1>12
  <2>2. \A a : Handled(a) => Handled(a)'
    BY <1>7, <1>12, <2>1 DEF Handled, Kept
  <2>3. ReplacedInv'
    BY <1>6, <1>8, <1>11, <2>1 DEF ReplacedInv, Right, Kept
  <2> QED BY <1>1, <2>2, <2>3 DEF PhasesInv
<1>13. CASE Kept(c)
  <2>0. written.off = c.off /\ written.len = c.len
    OBVIOUS
  <2> HIDE DEF written
  <2>1. /\ DOMAIN out' = 1 .. Len(out) + 1 /\ DOMAIN out = 1 .. Len(out)
        /\ Len(out) \in Nat
        /\ \A i \in 1 .. Len(out) : out'[i] = out[i]
        /\ out'[Len(out) + 1] = written
    BY <1>2, <1>9, <1>10, <1>13, AppendProperties, LenProperties
  <2>2. /\ \A i : i \in DOMAIN out' <=> i \in DOMAIN out \/ i = Len(out) + 1
        /\ \A i \in DOMAIN out : out'[i] = out[i] /\ i \in Nat /\ i < Len(out) + 1
    BY <2>1
  <2>3. Right(c) /\ \A i \in DOMAIN out : out[i].off < c.off
    BY <1>3, <1>13 DEF ReplacedInv
  <2>4. \A j \in DOMAIN sorted' : Kept(sorted'[j]) => c.off < sorted'[j].off
    BY <1>3, <1>6, <1>13 DEF ReplacedInv
  <2>5. \A i \in DOMAIN out' : Right(out'[i])
    BY <2>0, <2>1, <2>2, <2>3 DEF ReplacedInv, Right
  <2>6. \A i, j \in DOMAIN out' : i < j => out'[i].off < out'[j].off
    <3> SUFFICES ASSUME NEW i \in DOMAIN out', NEW j \in DOMAIN out', i < j
                 PROVE  out'[i].off < out'[j].off
      OBVIOUS
    <3>1. i \in DOMAIN out
      BY <2>1
    <3> QED BY <2>0, <2>1, <2>2, <2>3, <3>1 DEF ReplacedInv
  <2>7. \A i \in DOMAIN out', j \in DOMAIN sorted' :
          Kept(sorted'[j]) => out'[i].off < sorted'[j].off
    BY <1>6, <2>0, <2>1, <2>2, <2>4 DEF ReplacedInv
  <2>8. ReplacedInv'
    BY <1>8, <1>11, <2>5, <2>6, <2>7 DEF ReplacedInv, Right, Kept
  <2>9. \A a : Handled(a) => Handled(a)'
    <3> SUFFICES ASSUME NEW a, Handled(a) PROVE Handled(a)'
      OBVIOUS
    <3>1. CASE \E i \in DOMAIN out : out[i].off = a
      BY <2>2, <3>1 DEF Handled
    <3>2. CASE c.off = a
      BY <2>0, <2>1, <2>2, <3>2 DEF Handled
    <3>3. CASE \E i \in DOMAIN sorted' : Kept(sorted'[i]) /\ sorted'[i].off = a
      BY <3>3 DEF Handled, Kept
    <3> QED BY <1>7, <3>1, <3>2, <3>3 DEF Handled
  <2> QED BY <1>1, <2>8, <2>9 DEF PhasesInv
<1> QED BY <1>12, <1>13

(* The steps of the walk touch nothing of this, and the end of a phase     *)
(* leaves it as the next one needs it.                                     *)
LEMMA OtherSteps ==
  ASSUME NumbersInv, ReplacedInv, PhasesInv, LexedInv, [Next]_vars, ~FillLength, ~WriteParam
  PROVE  ReplacedInv' /\ PhasesInv' /\ LexedInv'
<1> DEFINE Walks == VisitConst \/ VisitParamRef \/ VisitDefElem \/ VisitSubscription
             \/ EnterSelect \/ LeaveSelect \/ EnterTarget \/ LeaveTarget
             \/ EnterGroupItem \/ LeaveGroupItem
<1>1. query' = query /\ sorted' = sorted /\ out' = out
  BY DEF Next, VisitConst, VisitParamRef, VisitDefElem, VisitSubscription, EnterSelect,
         LeaveSelect, EnterTarget, LeaveTarget, EnterGroupItem, LeaveGroupItem, EndWalk,
         EndLengths, WriteRest, InSelect, Visit, vars, lengthVars, textVars
<1>2. Constants' = Constants /\ \A a : TokenEnd(a)' = TokenEnd(a) /\ EndOf(a)' = EndOf(a)
  BY <1>1 DEF Constants, TokenEnd, EndOf, StartOf, tokens
<1>3. \A a : Handled(a)' = Handled(a)
  BY <1>1 DEF Handled, Kept
<1>4. ReplacedInv'
  BY <1>1, <1>2 DEF ReplacedInv, Right, Kept
<1>5. CASE Walks
  <2>1. phase = "walk" /\ phase' = "walk" /\ lexed' = lexed /\ lastLoc' = lastLoc
    BY <1>5 DEF VisitConst, VisitParamRef, VisitDefElem, VisitSubscription, EnterSelect,
                LeaveSelect, EnterTarget, LeaveTarget, EnterGroupItem, LeaveGroupItem,
                InSelect, Visit, lengthVars
  <2> QED BY <1>1, <1>4, <2>1 DEF PhasesInv, LexedInv
<1>6. CASE EndWalk
  <2>1. /\ phase = "walk" /\ phase' = "lengths" /\ left' = DOMAIN clocs /\ clocs' = clocs
        /\ lexed' = lexed /\ lastLoc' = lastLoc
    BY <1>6 DEF EndWalk, walkVars
  <2>2. sorted = <<>> /\ lexed = 0 /\ lastLoc = -1 /\ out = <<>>
    BY <2>1 DEF PhasesInv
  <2>3. \A r \in DOMAIN clocs : clocs[r].location \in Nat
    <3>1. clocs \in Seq(Clocation)
      BY DEF NumbersInv, TypeInv, TypeOK, Clocation
    <3>2. \A r \in DOMAIN clocs : clocs[r] \in Clocation
      BY <3>1, ElementOfSeq, LenProperties
    <3> QED BY <3>2 DEF Clocation
  <2>4. PhasesInv'
    BY <1>1, <2>1, <2>2 DEF PhasesInv
  <2>5. LexedInv'
    BY <1>1, <2>1, <2>2, <2>3 DEF LexedInv
  <2> QED BY <1>4, <2>4, <2>5
<1>7. CASE EndLengths \/ WriteRest
  <2>1. /\ clocs' = clocs /\ left' = left /\ phase # "walk" /\ left = {}
        /\ \/ phase' = "text"
           \/ phase' = "done" /\ sorted = <<>>
    BY <1>7 DEF EndLengths, WriteRest, walkVars, lengthVars, PhasesInv
  <2> QED BY <1>1, <1>3, <1>4, <2>1 DEF PhasesInv, LexedInv
<1>8. CASE UNCHANGED vars
  <2>1. /\ clocs' = clocs /\ left' = left /\ phase' = phase
        /\ lexed' = lexed /\ lastLoc' = lastLoc
    BY <1>8 DEF vars, walkVars, lengthVars
  <2> QED BY <1>1, <1>2, <1>3, <1>4, <2>1 DEF PhasesInv, LexedInv, Kept
<1> QED BY <1>5, <1>6, <1>7, <1>8 DEF Next

(* The inductive invariant. *)
ReplacingInv ==
  /\ NumbersInv
  /\ Located => LocationsInv /\ ReplacedInv /\ PhasesInv /\ LexedInv

LEMMA ReplacingInit == Init => ReplacingInv
<1> SUFFICES ASSUME Init PROVE LocationsInv /\ ReplacedInv /\ PhasesInv /\ LexedInv
  BY NumbersInit DEF ReplacingInv
<1>1. LocationsInv
  BY LocationsInit
<1>2. \A i : i \notin DOMAIN sorted /\ i \notin DOMAIN out
  BY DEF Init
<1> QED BY <1>1, <1>2 DEF Init, ReplacedInv, PhasesInv, LexedInv

LEMMA ReplacingStep ==
  ASSUME ReplacingInv, [Next]_vars
  PROVE  ReplacingInv'
<1>1. NumbersInv'
  BY NumbersStep DEF ReplacingInv
<1>2. query' = query
  BY DEF Next, VisitConst, VisitParamRef, VisitDefElem, VisitSubscription, EnterSelect,
         LeaveSelect, EnterTarget, LeaveTarget, EnterGroupItem, LeaveGroupItem, EndWalk,
         FillLength, EndLengths, WriteParam, WriteRest, InSelect, Visit, vars
<1>3. Located' = Located
  BY <1>2 DEF Located, Constants, tokens
<1>4. ASSUME Located
      PROVE  LocationsInv' /\ ReplacedInv' /\ PhasesInv' /\ LexedInv'
  <2>1. NumbersInv /\ LocationsInv /\ ReplacedInv /\ PhasesInv /\ LexedInv
    BY <1>4 DEF ReplacingInv
  <2>2. LocationsInv'
    BY <1>4, <2>1, LocationsStep
  <2>3. CASE FillLength
    BY <1>4, <2>1, <2>2, <2>3, LengthsStep
  <2>4. CASE WriteParam
    <3>1. phase' = "text"
      BY <2>4 DEF WriteParam
    <3> QED BY <2>1, <2>2, <2>4, <3>1, WriteStep DEF LexedInv
  <2>5. CASE ~FillLength /\ ~WriteParam
    BY <2>1, <2>2, <2>5, OtherSteps
  <2> QED BY <2>3, <2>4, <2>5
<1> QED BY <1>1, <1>3, <1>4 DEF ReplacingInv

(* The replacements are as many as the constants, since they stand at      *)
(* places that grow.                                                       *)
LEMMA AsManyAsConstants ==
  ASSUME out \in Seq(Replacement),
         \A i, j \in DOMAIN out : i < j => out[i].off < out[j].off,
         {out[i].off : i \in DOMAIN out} = Constants
  PROVE  Len(out) = Cardinality(Constants)
<1> DEFINE offs == [i \in 1 .. Len(out) |-> out[i].off]
<1>1. DOMAIN out = 1 .. Len(out) /\ Len(out) \in Nat
  BY LenProperties
<1>2. \A i \in 1 .. Len(out) : out[i].off \in Nat
  <2>1. \A i \in 1 .. Len(out) : out[i] \in Replacement
    BY ElementOfSeq
  <2> QED BY <2>1 DEF Replacement
<1>3. offs \in [1 .. Len(out) -> Constants]
  BY <1>1
<1>4. \A a, b \in 1 .. Len(out) : offs[a] = offs[b] => a = b
  <2> SUFFICES ASSUME NEW a \in 1 .. Len(out), NEW b \in 1 .. Len(out), out[a].off = out[b].off
               PROVE  a = b
    OBVIOUS
  <2> QED BY <1>1, <1>2
<1>5. \A loc \in Constants : \E a \in 1 .. Len(out) : offs[a] = loc
  BY <1>1
<1> HIDE DEF offs
<1>6. ExistsBijection(1 .. Len(out), Constants)
  <2>1. DOMAIN offs = 1 .. Len(out)
    BY <1>3
  <2>2. offs \in Injection(1 .. Len(out), Constants)
    BY <1>3, <1>4, <2>1 DEF Injection, IsInjective
  <2>3. offs \in Surjection(1 .. Len(out), Constants)
    BY <1>3, <1>5 DEF Surjection
  <2>4. offs \in Bijection(1 .. Len(out), Constants)
    BY <2>2, <2>3 DEF Bijection
  <2> QED BY <2>4 DEF ExistsBijection
<1>7. \A n \in Nat : IsFiniteSet(1 .. n) /\ Cardinality(1 .. n) = n
  <2>1. \A n \in Nat : /\ IsFiniteSet(1 .. n)
                       /\ Cardinality(1 .. n) = IF 1 > n THEN 0 ELSE n - 1 + 1
    BY FS_Interval
  <2> QED BY <2>1
<1>8. Cardinality(Constants) = Cardinality(1 .. Len(out))
  BY <1>1, <1>6, <1>7, FS_Bijection
<1> QED BY <1>1, <1>7, <1>8

(* What is written in the end is every constant of the query, each once    *)
(* and from its first to its last character, for every query whose         *)
(* constants are tokens of its text (pg_query_normalize.c:105-208).        *)
THEOREM ConstantsAreReplaced == Spec => [](Located => EachConstantOnce)
<1>1. ASSUME ReplacingInv, Located
      PROVE  EachConstantOnce
  <2> SUFFICES ASSUME phase = "done"
               PROVE  /\ {<<out[i].off, out[i].off + out[i].len>> : i \in DOMAIN out}
                            = {<<loc, TokenEnd(loc)>> : loc \in Constants}
                      /\ Len(out) = Cardinality(Constants)
    BY DEF EachConstantOnce
  <2>1. NumbersInv /\ LocationsInv /\ ReplacedInv /\ PhasesInv
    BY <1>1 DEF ReplacingInv
  <2>2. Locations = Constants
    BY <2>1, AllAreRecorded
  <2>3. \A loc \in Constants : \E i \in DOMAIN out : out[i].off = loc
    <3>1. \A loc \in Constants : Handled(loc)
      BY <2>1, <2>2 DEF PhasesInv, Locations
    <3>2. \A i : i \notin DOMAIN sorted
      BY <2>1 DEF PhasesInv
    <3> QED BY <3>1, <3>2 DEF Handled
  <2>4. \A i \in DOMAIN out : /\ out[i].off \in Constants
                             /\ out[i].off + out[i].len = TokenEnd(out[i].off)
    BY <2>1 DEF ReplacedInv, Right
  <2>5. {out[i].off : i \in DOMAIN out} = Constants
    BY <2>3, <2>4
  <2>6. Len(out) = Cardinality(Constants)
    BY <2>1, <2>5, AsManyAsConstants DEF ReplacedInv, NumbersInv, TypeInv, TypeOK
  <2> QED BY <2>3, <2>4, <2>6
<1>2. ReplacingInv => (Located => EachConstantOnce)
  BY <1>1
<1> QED BY <1>2, ReplacingInit, ReplacingStep, PTL DEF Spec
=============================================================================
