-------------------------- MODULE TruncatorProofs --------------------------
(***************************************************************************)
(* What holds of Truncator for all statements and limits: it never follows *)
(* a path into a part that it has replaced, it gives up the innermost      *)
(* parts first, what it returns is within the limit, and it cuts the text  *)
(* only when no choice of parts would have been enough.                    *)
(***************************************************************************)
EXTENDS Truncator, NaturalsInduction, WellFoundedInduction, FiniteSetTheorems, TLAPS

(* What is still to be tried is never deeper than what is replaced already, *)
(* and only something deeper is inside it.                                 *)
StatementInv == statement \in Statements /\ todo \subseteq Parts /\ replaced \subseteq Parts

DepthInv == \A i \in replaced, j \in todo : Depth(j) <= Depth(i)

Inv == StatementInv /\ DepthInv /\ NeverRaises

(* A strict prefix of a path is shorter than the path. *)
LEMMA PrefixIsShorter ==
  ASSUME NEW S, NEW s \in Seq(S), NEW t \in Seq(S), IsStrictPrefix(s, t)
  PROVE  Len(s) < Len(t)
<1>1. Len(s) <= Len(t) /\ SubSeq(s, 1, Len(s)) = SubSeq(t, 1, Len(s)) /\ s # t
  BY DEF IsStrictPrefix, IsPrefix
<1>2. Len(s) \in Nat /\ Len(t) \in Nat
  OBVIOUS
<1>3. SUFFICES ASSUME Len(s) = Len(t) PROVE FALSE
  BY <1>1, <1>2
<1>4. SubSeq(s, 1, Len(s)) = s /\ SubSeq(t, 1, Len(t)) = t
  OBVIOUS
<1> QED BY <1>1, <1>3, <1>4

(* What a sequence over S holds is in S. *)
LEMMA ElementOf ==
  ASSUME NEW S, NEW s \in Seq(S), NEW k \in DOMAIN s PROVE s[k] \in S
OBVIOUS

(* The path of a part is a sequence, and its depth a number. *)
LEMMA PathsAreSequences ==
  ASSUME statement \in Statements, NEW i \in Parts
  PROVE  Part(i).path \in Seq(STRING) /\ Depth(i) \in Nat
<1> DEFINE Record == [path : Seq(STRING), kind : Kinds, text : Nat, shown : BOOLEAN]
<1>1. statement.parts \in Seq(Record)
  BY StatementsAssumption
<1> HIDE DEF Record
<1>2. Part(i) \in Record
  BY <1>1, ElementOf DEF Parts, Part
<1>3. Part(i).path \in Seq(STRING)
  BY <1>2 DEF Record
<1> QED BY <1>3 DEF Depth

(* Something inside a part of the statement is deeper than the part. *)
LEMMA InsideIsDeeper ==
  ASSUME statement \in Statements, NEW i \in Parts, NEW j \in Parts, Inside(i, j)
  PROVE  Depth(j) < Depth(i)
BY PathsAreSequences, PrefixIsShorter DEF Inside, Depth

LEMMA InvInit == Init => Inv
BY DEF Init, Inv, StatementInv, DepthInv, NeverRaises

LEMMA InvWhole == Inv /\ Whole => Inv'
<1> SUFFICES ASSUME Inv, Whole PROVE Inv'
  OBVIOUS
<1>1. statement' = statement /\ replaced' = {} /\ Candidates \subseteq Parts
  BY DEF Whole, Candidates
<1>2. todo' = todo \/ todo' = Candidates
  BY DEF Whole
<1>3. result' # "raised"
  BY DEF Whole, Return, Inv, NeverRaises
<1> QED BY <1>1, <1>2, <1>3
  DEF Inv, StatementInv, DepthInv, NeverRaises, Parts

LEMMA InvOmit == Inv /\ Omit => Inv'
<1> SUFFICES ASSUME Inv, Omit PROVE Inv'
  OBVIOUS
<1>1. PICK i \in todo :
        /\ \A j \in todo \ {i} : Before(i, j)
        /\ todo' = todo \ {i}
        /\ replaced' = replaced \cup {i}
        /\ Unreachable(i) \/ result' # "raised"
  BY DEF Omit, Return, Inv, NeverRaises
<1>2. statement' = statement
  BY DEF Omit
<1>3. StatementInv'
  BY <1>1, <1>2 DEF Inv, StatementInv, Parts
<1>4. \A j \in todo \ {i} : Depth(j) <= Depth(i)
  <2>1. SUFFICES ASSUME NEW j \in todo \ {i} PROVE Depth(j) <= Depth(i)
    OBVIOUS
  <2>2. Depth(i) \in Nat /\ Depth(j) \in Nat
    BY PathsAreSequences DEF Inv, StatementInv
  <2> QED BY <1>1, <2>1, <2>2 DEF Before
<1>5. DepthInv'
  BY <1>1, <1>2, <1>4 DEF Inv, DepthInv, Depth, Part
<1>6. ~Unreachable(i)
  <2>1. SUFFICES ASSUME NEW j \in replaced, Inside(i, j) PROVE FALSE
    BY DEF Unreachable
  <2>2. i \in Parts /\ j \in Parts /\ statement \in Statements
    BY <1>1 DEF Inv, StatementInv
  <2>3. Depth(j) < Depth(i)
    BY <2>1, <2>2, InsideIsDeeper
  <2>4. Depth(i) <= Depth(j)
    BY <1>1, <2>1 DEF Inv, DepthInv
  <2> QED BY <2>2, <2>3, <2>4, PathsAreSequences
<1> QED BY <1>1, <1>3, <1>5, <1>6 DEF Inv, NeverRaises

(* AST.put never meets a part that was replaced, so reduce_while never     *)
(* raises, whatever the statement and the limit.  (try_smart_truncation)   *)
THEOREM PathsStayValid == Spec => []NeverRaises
<1>1. Inv /\ UNCHANGED vars => Inv'
  BY DEF vars, Inv, StatementInv, DepthInv, NeverRaises, Parts, Depth, Part
<1>2. Inv /\ [Next]_vars => Inv'
  BY <1>1, InvWhole, InvOmit DEF Next
<1>3. Inv => NeverRaises
  BY DEF Inv
<1> QED BY InvInit, <1>2, <1>3, PTL DEF Spec
---------------------------------------------------------------------------
(* The order in which parts are given up.  What was replaced and was not   *)
(* enough is, whenever the next part is less deep than all of it, just     *)
(* what is deeper than that part.                                          *)

Deeper(i) == {j \in Candidates : Depth(j) > Depth(i)}

(* Between two rounds every candidate is replaced or still to be tried.    *)
RoundInv ==
  result = "none" /\ todo # {} => todo \cup replaced = Candidates /\ ~Fits(replaced)

OrderInv ==
  /\ Inv /\ RoundInv
  /\ result = "none" /\ todo = {} => replaced = {}
  /\ InnermostFirst

(* What is measured is the statement, which never changes. *)
LEMMA SameStatement ==
  ASSUME statement' = statement, maxLength' = maxLength
  PROVE  /\ \A i : Depth(i)' = Depth(i)
         /\ \A R : Fits(R)' = Fits(R)
         /\ Candidates' = Candidates
<1>1. Parts' = Parts /\ \A i : Depth(i)' = Depth(i) /\ Part(i)' = Part(i)
  BY DEF Parts, Depth, Part
<1>2. \A i, j : Inside(i, j)' = Inside(i, j)
  BY <1>1 DEF Inside
<1>3. \A i : Filler(i)' = Filler(i) /\ Empty(i)' = Empty(i)
  BY <1>1 DEF Filler, Empty
<1>4. \A R : Length(R)' = Length(R)
  <2>1. \A R, i : Printed(R, i)' = Printed(R, i)
    BY <1>1, <1>2, <1>3 DEF Printed
  <2> QED BY <1>1, <2>1 DEF Length
<1>5. \A R : Fits(R)' = Fits(R)
  BY <1>4 DEF Fits
<1>6. \A i : Alone(i)' = Alone(i)
  BY <1>1, <1>2, <1>3 DEF Alone
<1> QED BY <1>1, <1>5, <1>6 DEF Candidates

(* What was not enough of a statement is not enough later. *)
LEMMA SameDeeper ==
  ASSUME statement' = statement, maxLength' = maxLength, NEW i
  PROVE  Fits({j \in Candidates : Depth(j) > Depth(i)})'
           = Fits({j \in Candidates : Depth(j) > Depth(i)})
<1>1. {j \in Candidates : Depth(j) > Depth(i)}' = {j \in Candidates : Depth(j) > Depth(i)}
  BY SameStatement
<1> QED BY <1>1, SameStatement

LEMMA OrderInit == Init => OrderInv
BY InvInit DEF Init, OrderInv, RoundInv, InnermostFirst

LEMMA OrderWhole == OrderInv /\ Whole => OrderInv'
<1> SUFFICES ASSUME OrderInv, Whole PROVE OrderInv'
  OBVIOUS
<1>1. /\ statement' = statement /\ maxLength' = maxLength
      /\ todo = {} /\ replaced = {} /\ replaced' = {}
  BY DEF Whole
<1>2. Inv' /\ InnermostFirst'
  BY <1>1, InvWhole DEF OrderInv, InnermostFirst
<1>3. \/ todo' = {}
      \/ todo' = Candidates /\ ~Fits({})
  BY <1>1 DEF Whole
<1>4. RoundInv'
  BY <1>1, <1>3, SameStatement DEF RoundInv
<1> QED BY <1>1, <1>2, <1>4 DEF OrderInv

(* The next part in order has replaced before it all that is deeper. *)
LEMMA DeeperCameBefore ==
  ASSUME OrderInv, result = "none", NEW i \in todo, \A j \in todo \ {i} : Before(i, j)
  PROVE  ~Fits(Deeper(i))
<1>1. /\ todo \cup replaced = Candidates /\ ~Fits(replaced)
      /\ statement \in Statements /\ Candidates \subseteq Parts /\ DepthInv
  BY DEF OrderInv, RoundInv, Inv, StatementInv, Candidates
<1>2. \A j \in Candidates : Depth(j) \in Nat
  BY <1>1, PathsAreSequences
<1>3. \A j \in replaced : Depth(i) <= Depth(j)
  BY <1>1 DEF DepthInv
<1>4. \A j \in todo : Depth(j) <= Depth(i)
  BY <1>1, <1>2 DEF Before
<1>5. CASE \E k \in replaced : Depth(k) = Depth(i)
  <2>1. PICK k \in replaced : Depth(k) = Depth(i)
    BY <1>5
  <2>2. {j \in Candidates : Depth(j) > Depth(k)} = Deeper(i)
    BY <2>1 DEF Deeper
  <2>3. ~Fits({j \in Candidates : Depth(j) > Depth(k)})
    BY <2>1 DEF OrderInv, InnermostFirst
  <2> QED BY <2>2, <2>3
<1>6. CASE ~\E k \in replaced : Depth(k) = Depth(i)
  <2>1. \A j \in replaced : Depth(j) > Depth(i)
    BY <1>1, <1>2, <1>3, <1>6
  <2>2. \A j \in todo : ~(Depth(j) > Depth(i))
    BY <1>1, <1>2, <1>4
  <2>3. Deeper(i) = replaced
    BY <1>1, <2>1, <2>2 DEF Deeper
  <2> QED BY <1>1, <2>3
<1> QED BY <1>5, <1>6

LEMMA OrderOmit == OrderInv /\ Omit => OrderInv'
<1> SUFFICES ASSUME OrderInv, Omit PROVE OrderInv'
  OBVIOUS
<1>1. PICK i \in todo :
        /\ \A j \in todo \ {i} : Before(i, j)
        /\ todo' = todo \ {i} /\ replaced' = replaced \cup {i}
        /\ \/ result' # "none"
           \/ ~Fits(replaced \cup {i}) /\ todo' # {}
  BY DEF Omit, Return
<1>2. statement' = statement /\ maxLength' = maxLength /\ result = "none"
  BY DEF Omit
<1>3. Inv'
  BY InvOmit DEF OrderInv
<1>4. RoundInv'
  <2>1. todo' \cup replaced' = Candidates
    BY <1>1, <1>2 DEF OrderInv, RoundInv
  <2> QED BY <1>1, <1>2, <2>1, SameStatement DEF RoundInv
<1>5. InnermostFirst'
  <2>1. ~Fits({j \in Candidates : Depth(j) > Depth(i)})
    BY <1>1, <1>2, DeeperCameBefore DEF Deeper
  <2>2. \A k \in replaced' : ~Fits({j \in Candidates : Depth(j) > Depth(k)})
    BY <1>1, <2>1 DEF OrderInv, InnermostFirst
  <2>3. \A k : Fits({j \in Candidates : Depth(j) > Depth(k)})'
                 = Fits({j \in Candidates : Depth(j) > Depth(k)})
    BY <1>2, SameDeeper
  <2> QED BY <2>2, <2>3 DEF InnermostFirst
<1> QED BY <1>1, <1>3, <1>4, <1>5 DEF OrderInv

LEMMA OrderStep == OrderInv /\ [Next]_vars => OrderInv'
<1>1. OrderInv /\ UNCHANGED vars => OrderInv'
  <2> SUFFICES ASSUME OrderInv, UNCHANGED vars PROVE OrderInv'
    OBVIOUS
  <2>1. /\ statement' = statement /\ maxLength' = maxLength /\ todo' = todo
        /\ replaced' = replaced /\ result' = result
    BY DEF vars
  <2>2. Inv'
    BY <2>1 DEF OrderInv, Inv, StatementInv, DepthInv, NeverRaises, Parts, Depth, Part
  <2>3. InnermostFirst'
    BY <2>1, SameDeeper DEF OrderInv, InnermostFirst
  <2> QED BY <2>1, <2>2, <2>3, SameStatement DEF OrderInv, RoundInv
<1> QED BY <1>1, OrderWhole, OrderOmit DEF Next

(* A part is given up only when giving up everything deeper, all of it and *)
(* not just what was tried so far, leaves the text too long, whatever the  *)
(* statement and the limit.  (sort_by in do_truncate)                      *)
THEOREM InnermostGoesFirst == Spec => []InnermostFirst
<1>1. OrderInv => InnermostFirst
  BY DEF OrderInv
<1> QED BY OrderInit, OrderStep, <1>1, PTL DEF Spec
---------------------------------------------------------------------------
(* A set of numbers that holds any has a least one. *)
LEMMA LeastNumber ==
  ASSUME NEW T \in SUBSET Nat, T # {}
  PROVE  \E n \in T : \A m \in T : n <= m
<1>1. PICK n \in T : \A m \in T : <<m, n>> \notin OpToRel(<, Nat)
  BY NatLessThanWellFounded, WFMin
<1>2. \A m \in T : ~(m < n)
  BY <1>1 DEF OpToRel
<1> QED BY <1>2

(* What holds of 0, and of a number up to N when it holds of the one       *)
(* before, holds up to N.                                                  *)
LEMMA UpTo ==
  ASSUME NEW N \in Nat, NEW T, 0 \in T, \A n \in 1 .. N : n - 1 \in T => n \in T
  PROVE  \A n \in 0 .. N : n \in T
<1> DEFINE Bad == {n \in 0 .. N : n \notin T}
<1> SUFFICES ASSUME Bad # {} PROVE FALSE
  OBVIOUS
<1>1. PICK n \in Bad : \A m \in Bad : n <= m
  <2>1. Bad \in SUBSET Nat
    OBVIOUS
  <2> HIDE DEF Bad
  <2> QED BY <2>1, LeastNumber
<1>2. n \in 1 .. N /\ n - 1 \in 0 .. N /\ n - 1 \notin Bad
  BY <1>1
<1> QED BY <1>1, <1>2

(* s holds the sums of what f gives for 1, 1 and 2, 1 to 3 and so on. *)
Sums(s, f, N) == s = [n \in 0 .. N |-> IF n = 0 THEN 0 ELSE s[n - 1] + f[n]]

LEMMA SumsAre ==
  ASSUME NEW N \in Nat, NEW f, NEW s, Sums(s, f, N)
  PROVE  s[0] = 0 /\ \A n \in 1 .. N : s[n] = s[n - 1] + f[n]
BY DEF Sums

(* There are such sums, so that the recursion of Total defines them. *)
LEMMA SumsExist ==
  ASSUME NEW N \in Nat, NEW f
  PROVE  \E s : Sums(s, f, N)
<1> DEFINE T == {n \in Nat : \E s : Sums(s, f, n)}
<1>1. 0 \in T
  <2>1. Sums([n \in 0 .. 0 |-> 0], f, 0)
    BY DEF Sums
  <2> QED BY <2>1
<1>2. ASSUME NEW n \in 1 .. N, n - 1 \in T PROVE n \in T
  <2>1. PICK s : Sums(s, f, n - 1)
    BY <1>2
  <2> DEFINE t == [k \in 0 .. n |-> IF k = n THEN s[n - 1] + f[n] ELSE s[k]]
  <2>2. ASSUME NEW k \in 0 .. n PROVE t[k] = IF k = 0 THEN 0 ELSE t[k - 1] + f[k]
    <3>1. CASE k = n
      BY <3>1
    <3>2. CASE k # n
      <4>1. k \in 0 .. n - 1
        BY <3>2
      <4>2. s[k] = IF k = 0 THEN 0 ELSE s[k - 1] + f[k]
        BY <2>1, <4>1 DEF Sums
      <4> QED BY <3>2, <4>2
    <3> QED BY <3>1, <3>2
  <2>3. t = [k \in 0 .. n |-> IF k = 0 THEN 0 ELSE t[k - 1] + f[k]]
    BY <2>2
  <2>4. Sums(t, f, n)
    BY <2>3 DEF Sums
  <2> QED BY <2>4
<1> HIDE DEF T
<1>3. N \in T
  BY <1>1, <1>2, UpTo
<1> QED BY <1>3 DEF T

(* Total gives the last of them. *)
LEMMA TotalIs ==
  ASSUME NEW N \in Nat, NEW f, Len(f) = N
  PROVE  \E s : Sums(s, f, N) /\ Total(f) = s[N]
<1> DEFINE Sum(s) == s = [n \in 0 .. Len(f) |-> IF n = 0 THEN 0 ELSE s[n - 1] + f[n]]
<1>1. Total(f) = (CHOOSE s : Sum(s))[Len(f)]
  BY DEF Total
<1>2. \E s : Sum(s)
  BY SumsExist DEF Sums
<1> HIDE DEF Sum
<1>3. Sum(CHOOSE s : Sum(s))
  BY <1>2
<1>4. \E s : Sum(s) /\ Total(f) = s[Len(f)]
  BY <1>1, <1>3
<1> QED BY <1>4 DEF Sum, Sums

(* What a function gives for the places of a sequence is a sequence. *)
LEMMA LengthOf ==
  ASSUME NEW N \in Nat, NEW f \in [1 .. N -> Nat] PROVE Len(f) = N
OBVIOUS

SumsTo(s, f, N) ==
  /\ Total(f) = s[N]
  /\ s[0] = 0 /\ \A n \in 1 .. N : s[n] = s[n - 1] + f[n]
  /\ \A n \in 0 .. N : s[n] \in Nat

(* Total gives the last of a sequence of sums, all of them numbers. *)
LEMMA TotalIsSum ==
  ASSUME NEW N \in Nat, NEW f \in [1 .. N -> Nat]
  PROVE  \E s : SumsTo(s, f, N)
<1>1. PICK s : Sums(s, f, N) /\ Total(f) = s[N]
  BY LengthOf, TotalIs, Zenon
<1>2. s[0] = 0 /\ \A n \in 1 .. N : s[n] = s[n - 1] + f[n]
  BY <1>1, SumsAre, Zenon
<1> DEFINE T == {n \in 0 .. N : s[n] \in Nat}
<1>3. 0 \in T
  BY <1>2
<1>4. \A n \in 1 .. N : n - 1 \in T => n \in T
  BY <1>2
<1> HIDE DEF T
<1>5. \A n \in 0 .. N : n \in T
  BY <1>3, <1>4, UpTo, Zenon
<1> QED BY <1>1, <1>2, <1>5 DEF T, SumsTo

(* It is a number, and no smaller than any one of what it adds up. *)
LEMMA TotalIsNumber ==
  ASSUME NEW N \in Nat, NEW f \in [1 .. N -> Nat]
  PROVE  Total(f) \in Nat /\ \A i \in 1 .. N : f[i] <= Total(f)
<1>1. PICK s : SumsTo(s, f, N)
  BY TotalIsSum, Zenon
<1>2. ASSUME NEW i \in 1 .. N PROVE f[i] <= s[N]
  <2> DEFINE T == {n \in 0 .. N : n >= i => f[i] <= s[n]}
  <2>1. 0 \in T
    OBVIOUS
  <2>2. ASSUME NEW n \in 1 .. N, n - 1 \in T PROVE n \in T
    <3>1. s[n] = s[n - 1] + f[n] /\ s[n - 1] \in Nat
      BY <1>1 DEF SumsTo
    <3>2. f[n] \in Nat /\ f[i] \in Nat
      OBVIOUS
    <3>3. CASE n = i
      BY <3>1, <3>2, <3>3
    <3>4. CASE n # i
      BY <2>2, <3>1, <3>2, <3>4
    <3> QED BY <3>3, <3>4
  <2> HIDE DEF T
  <2>3. \A n \in 0 .. N : n \in T
    BY <2>1, <2>2, UpTo, Zenon
  <2>4. N \in T
    BY <2>3
  <2> QED BY <2>4 DEF T
<1> QED BY <1>1, <1>2 DEF SumsTo

(* It grows with what it adds up. *)
LEMMA TotalGrows ==
  ASSUME NEW N \in Nat, NEW f \in [1 .. N -> Nat], NEW g \in [1 .. N -> Nat],
         \A n \in 1 .. N : f[n] <= g[n]
  PROVE  Total(f) <= Total(g)
<1>1. PICK s : SumsTo(s, f, N)
  BY TotalIsSum, Zenon
<1>2. PICK t : SumsTo(t, g, N)
  BY TotalIsSum, Zenon
<1> DEFINE T == {n \in 0 .. N : s[n] <= t[n]}
<1>3. 0 \in T
  BY <1>1, <1>2 DEF SumsTo
<1>4. ASSUME NEW n \in 1 .. N, n - 1 \in T PROVE n \in T
  <2>1. s[n - 1] \in Nat /\ t[n - 1] \in Nat /\ s[n - 1] <= t[n - 1]
    BY <1>1, <1>2, <1>4 DEF SumsTo
  <2>2. f[n] \in Nat /\ g[n] \in Nat /\ f[n] <= g[n]
    OBVIOUS
  <2>3. s[n - 1] + f[n] <= t[n - 1] + g[n]
    BY <2>1, <2>2
  <2>4. s[n] = s[n - 1] + f[n] /\ t[n] = t[n - 1] + g[n]
    BY <1>1, <1>2 DEF SumsTo
  <2> QED BY <2>3, <2>4
<1> HIDE DEF T
<1>5. \A n \in 0 .. N : n \in T
  BY <1>3, <1>4, UpTo, Zenon
<1>6. N \in T
  BY <1>5
<1> QED BY <1>1, <1>2, <1>6 DEF T, SumsTo

(* The total of what two functions give together is that of their totals. *)
AddsUp(h, f, g, N) ==
  /\ f \in [1 .. N -> Nat] /\ g \in [1 .. N -> Nat] /\ h \in [1 .. N -> Nat]
  /\ \A n \in 1 .. N : h[n] = f[n] + g[n]

LEMMA TotalAdds ==
  ASSUME NEW N \in Nat, NEW f, NEW g, NEW h, AddsUp(h, f, g, N)
  PROVE  Total(h) = Total(f) + Total(g)
<1>1. PICK s : SumsTo(s, f, N)
  BY TotalIsSum, Zenon DEF AddsUp
<1>2. PICK t : SumsTo(t, g, N)
  BY TotalIsSum, Zenon DEF AddsUp
<1>3. PICK u : SumsTo(u, h, N)
  BY TotalIsSum, Zenon DEF AddsUp
<1> DEFINE T == {n \in 0 .. N : u[n] = s[n] + t[n]}
<1>4. 0 \in T
  BY <1>1, <1>2, <1>3 DEF SumsTo
<1>5. ASSUME NEW n \in 1 .. N, n - 1 \in T PROVE n \in T
  <2>1. s[n - 1] \in Nat /\ t[n - 1] \in Nat /\ f[n] \in Nat /\ g[n] \in Nat
    BY <1>1, <1>2 DEF SumsTo, AddsUp
  <2>2. u[n - 1] = s[n - 1] + t[n - 1] /\ h[n] = f[n] + g[n]
    BY <1>5 DEF AddsUp
  <2>3. u[n] = u[n - 1] + h[n] /\ s[n] = s[n - 1] + f[n] /\ t[n] = t[n - 1] + g[n]
    BY <1>1, <1>2, <1>3 DEF SumsTo
  <2> HIDE DEF T
  <2>4. (s[n - 1] + t[n - 1]) + (f[n] + g[n]) = (s[n - 1] + f[n]) + (t[n - 1] + g[n])
    BY <2>1
  <2>5. u[n] = s[n] + t[n]
    BY <2>2, <2>3, <2>4, Zenon
  <2> QED BY <2>5 DEF T
<1> HIDE DEF T
<1>6. \A n \in 0 .. N : n \in T
  BY <1>4, <1>5, UpTo, Zenon
<1>7. N \in T
  BY <1>6
<1> QED BY <1>1, <1>2, <1>3, <1>7 DEF T, SumsTo

N == Len(statement.parts)

(* What a part is: numbers, and places from 1 on. *)
LEMMA PartsAre ==
  ASSUME statement \in Statements
  PROVE  /\ N \in Nat /\ Parts = 1 .. N /\ statement.fixed \in Nat
         /\ \A i \in Parts : /\ Part(i).text \in Nat /\ Filler(i) \in Nat
                             /\ Part(i).shown => Filler(i) >= Ellipsis
<1> DEFINE Record == [path : Seq(STRING), kind : Kinds, text : Nat, shown : BOOLEAN]
<1>1. statement.parts \in Seq(Record) /\ statement.fixed \in Nat
  BY StatementsAssumption
<1> HIDE DEF Record
<1>2. N \in Nat /\ Parts = 1 .. N
  BY <1>1 DEF Parts, N
<1>3. \A i \in Parts : Part(i) \in Record
  BY <1>1, ElementOf DEF Parts, Part
<1>4. \A i \in Parts : Part(i).text \in Nat
  BY <1>3 DEF Record
<1>5. \A i : Filler(i) \in Nat /\ (Part(i).shown => Filler(i) >= Ellipsis)
  BY DEF Filler, Ellipsis
<1> QED BY <1>1, <1>2, <1>4, <1>5

Prints(R) == [i \in Parts |-> Printed(R, i)]

LEMMA PrintsAre ==
  ASSUME statement \in Statements, NEW R
  PROVE  Prints(R) \in [1 .. N -> Nat]
<1>1. \A i \in Parts : Printed(R, i) \in Nat
  BY PartsAre DEF Printed
<1> QED BY <1>1, PartsAre DEF Prints

LEMMA LengthIs ==
  ASSUME statement \in Statements, NEW R
  PROVE  Length(R) \in Nat /\ Length(R) = statement.fixed + Total(Prints(R))
<1>1. Total(Prints(R)) \in Nat
  BY PartsAre, PrintsAre, TotalIsNumber, Zenon
<1>2. Length(R) = statement.fixed + Total(Prints(R))
  BY DEF Length, Prints
<1> QED BY <1>1, <1>2, PartsAre

(* Where no part prints more, the text is not longer. *)
LEMMA LengthGrows ==
  ASSUME statement \in Statements, NEW R, NEW Q,
         \A i \in Parts : Printed(R, i) <= Printed(Q, i)
  PROVE  Length(R) <= Length(Q)
<1>1. \A i \in 1 .. N : Prints(R)[i] <= Prints(Q)[i]
  BY PartsAre DEF Prints
<1>2. Total(Prints(R)) <= Total(Prints(Q))
  BY <1>1, PartsAre, PrintsAre, TotalGrows, Zenon
<1>3. Total(Prints(R)) \in Nat /\ Total(Prints(Q)) \in Nat
  BY PartsAre, PrintsAre, TotalIsNumber, Zenon
<1> QED BY <1>2, <1>3, LengthIs, PartsAre

(* What is inside something is inside all that is around it. *)
LEMMA PrefixOfPrefix ==
  ASSUME NEW S, NEW s \in Seq(S), NEW t \in Seq(S), NEW u \in Seq(S),
         IsStrictPrefix(s, t), IsStrictPrefix(t, u)
  PROVE  IsStrictPrefix(s, u)
<1>1. /\ Len(s) < Len(t) /\ SubSeq(s, 1, Len(s)) = SubSeq(t, 1, Len(s))
      /\ Len(t) < Len(u) /\ SubSeq(t, 1, Len(t)) = SubSeq(u, 1, Len(t))
  BY PrefixIsShorter DEF IsStrictPrefix, IsPrefix
<1>2. Len(s) \in Nat /\ Len(t) \in Nat /\ Len(u) \in Nat
  OBVIOUS
<1>3. ASSUME NEW k \in 1 .. Len(s) PROVE t[k] = u[k]
  <2>1. k \in 1 .. Len(t)
    BY <1>1, <1>2
  <2>2. SubSeq(t, 1, Len(t))[k] = t[k] /\ SubSeq(u, 1, Len(t))[k] = u[k]
    BY <1>1, <1>2, <2>1
  <2> QED BY <1>1, <2>2
<1>4. SubSeq(t, 1, Len(s)) = SubSeq(u, 1, Len(s))
  BY <1>1, <1>2, <1>3
<1>5. Len(s) < Len(u)
  BY <1>1, <1>2
<1> QED BY <1>1, <1>2, <1>4, <1>5 DEF IsStrictPrefix, IsPrefix

LEMMA InsideIsTransitive ==
  ASSUME statement \in Statements, NEW i \in Parts, NEW j \in Parts, NEW k \in Parts,
         Inside(i, j), Inside(j, k)
  PROVE  Inside(i, k)
BY PathsAreSequences, PrefixOfPrefix DEF Inside
(* No replacement of a candidate is longer than what it stands for. *)
NoneGrows == \A i \in Candidates : Filler(i) <= Part(i).text

(* A part that is no candidate is, with all that is inside it, shorter     *)
(* than an ellipsis.                                                       *)
Alones(i) == [j \in Parts |-> IF j = i \/ Inside(j, i) THEN Part(j).text ELSE 0]

LEMMA TooShort ==
  ASSUME statement \in Statements, NEW i \in Parts \ Candidates
  PROVE  /\ Alones(i) \in [1 .. N -> Nat] /\ Total(Alones(i)) \in Nat
         /\ Total(Alones(i)) < Ellipsis
<1>1. Alones(i) \in [1 .. N -> Nat]
  BY PartsAre DEF Alones
<1>2. Total(Alones(i)) \in Nat
  BY <1>1, PartsAre, TotalIsNumber, Zenon
<1>3. ~(Alone(i) >= Ellipsis)
  BY DEF Candidates
<1>4. ~Empty(i)
  BY <1>3 DEF Alone, Ellipsis
<1>5. Alone(i) = Total(Alones(i))
  BY <1>4 DEF Alone, Alones
<1> QED BY <1>1, <1>2, <1>3, <1>5 DEF Ellipsis

(* Whoever gives up a part that is no candidate, none of them inside it,   *)
(* is no better off for it.                                                *)
LEMMA OneLess ==
  ASSUME statement \in Statements, NoneGrows, NEW R \in SUBSET Parts,
         NEW i \in R \ Candidates, \A k \in R \ Candidates : ~Inside(k, i)
  PROVE  Length(R \ {i}) <= Length(R)
<1> DEFINE Q == R \ {i}
<1>1. i \in Parts /\ Parts = 1 .. N /\ N \in Nat
  BY PartsAre
<1>2. CASE \E j \in R : Inside(i, j)
  <2>1. PICK j \in R : Inside(i, j)
    BY <1>2
  <2>2. j # i
    BY <2>1, <1>1, InsideIsDeeper, PathsAreSequences
  <2>3. ASSUME NEW k \in Parts PROVE Printed(Q, k) <= Printed(R, k)
    <3>1. Printed(R, k) \in Nat
      BY PartsAre DEF Printed
    <3>2. (\E l \in R : Inside(k, l)) <=> (\E l \in Q : Inside(k, l))
      BY <1>1, <2>1, <2>2, InsideIsTransitive
    <3>3. Printed(Q, k) = Printed(R, k)
      BY <1>2, <2>1, <2>2, <3>2 DEF Printed
    <3> QED BY <3>1, <3>3
  <2> QED BY <2>3, LengthGrows
<1>3. CASE ~(\E j \in R : Inside(i, j)) /\ ~Part(i).shown
  <2>1. Part(i).text = 0 /\ \A k \in Parts : ~Inside(k, i)
    <3>1. ~statement.parts[i].shown
      BY <1>3 DEF Part
    <3>2. i \in DOMAIN statement.parts /\ statement \in Statements
      BY <1>1 DEF Parts
    <3>3. /\ statement.parts[i].text = 0
          /\ \A k \in DOMAIN statement.parts :
               ~IsStrictPrefix(statement.parts[i].path, statement.parts[k].path)
      BY <3>1, <3>2, HiddenAssumption
    <3> QED BY <3>3 DEF Parts, Part, Inside
  <2>2. Filler(i) = 0
    BY <1>3 DEF Filler
  <2>3. ASSUME NEW k \in Parts PROVE Printed(Q, k) <= Printed(R, k)
    <3>1. Printed(R, k) \in Nat
      BY PartsAre DEF Printed
    <3>2. (\E l \in R : Inside(k, l)) <=> (\E l \in Q : Inside(k, l))
      BY <2>1
    <3>3. Printed(Q, k) = Printed(R, k)
      BY <2>1, <2>2, <3>2 DEF Printed
    <3> QED BY <3>1, <3>3
  <2> QED BY <2>3, LengthGrows
<1>4. CASE ~(\E j \in R : Inside(i, j)) /\ Part(i).shown
  <2> DEFINE rest == [k \in Parts |-> IF k = i THEN 0 ELSE Printed(R, k)]
             mine == [k \in Parts |-> IF k = i THEN Filler(i) ELSE 0]
             both == [k \in Parts |-> rest[k] + Alones(i)[k]]
  <2>1. \A k \in Parts : Printed(R, k) \in Nat
    BY PartsAre DEF Printed
  <2>2. Filler(i) \in Nat /\ Filler(i) >= Ellipsis
    BY <1>1, <1>4, PartsAre
  <2>3. rest \in [1 .. N -> Nat] /\ mine \in [1 .. N -> Nat] /\ Alones(i) \in [1 .. N -> Nat]
    BY <1>1, <2>1, <2>2, TooShort
  <2>4. both \in [1 .. N -> Nat]
    BY <1>1, <2>3
  <2>5. Prints(R) \in [1 .. N -> Nat] /\ Prints(Q) \in [1 .. N -> Nat]
    BY PrintsAre
  <2>6. \A k \in 1 .. N : both[k] = rest[k] + Alones(i)[k]
    BY <1>1
  <2>7. \A k \in 1 .. N : Prints(R)[k] = rest[k] + mine[k]
    BY <1>1, <1>4, <2>1, <2>2 DEF Prints, Printed
  <2>8. \A k \in 1 .. N : Prints(Q)[k] <= both[k]
    <3> SUFFICES ASSUME NEW k \in Parts PROVE Printed(Q, k) <= both[k]
      BY <1>1 DEF Prints
    <3>1. Part(k).text \in Nat /\ Filler(k) \in Nat /\ Printed(R, k) \in Nat /\ Printed(Q, k) \in Nat
      BY PartsAre DEF Printed
    <3>2. CASE k = i
      <4>1. Printed(Q, k) = Part(k).text
        BY <1>4, <3>2 DEF Printed
      <4>2. both[k] = 0 + Part(k).text
        BY <3>2 DEF Alones
      <4> QED BY <3>1, <4>1, <4>2
    <3>3. CASE k # i /\ Inside(k, i)
      <4>1. both[k] = Printed(R, k) + Part(k).text
        BY <3>3 DEF Alones
      <4>2. k \in Q => k \in Candidates
        BY <3>3
      <4>3. k \in Q => Filler(k) <= Part(k).text
        BY <4>2 DEF NoneGrows
      <4>4. Printed(Q, k) <= Part(k).text
        BY <3>1, <4>3 DEF Printed
      <4> QED BY <3>1, <4>1, <4>4
    <3>4. CASE k # i /\ ~Inside(k, i)
      <4>1. both[k] = Printed(R, k) + 0
        BY <3>4 DEF Alones
      <4>2. Printed(Q, k) = Printed(R, k)
        BY <3>4 DEF Printed
      <4> QED BY <3>1, <4>1, <4>2
    <3> QED BY <3>2, <3>3, <3>4
  <2> HIDE DEF rest, mine, both, Q
  <2>9. Total(both) = Total(rest) + Total(Alones(i))
    <3>1. AddsUp(both, rest, Alones(i), N)
      BY <2>3, <2>4, <2>6 DEF AddsUp
    <3> QED BY <1>1, <3>1, TotalAdds
  <2>10. Total(Prints(R)) = Total(rest) + Total(mine)
    <3>1. AddsUp(Prints(R), rest, mine, N)
      BY <2>3, <2>5, <2>7 DEF AddsUp
    <3> QED BY <1>1, <3>1, TotalAdds
  <2>11. Total(Prints(Q)) <= Total(both)
    BY <1>1, <2>4, <2>5, <2>8, TotalGrows
  <2>12. Filler(i) <= Total(mine)
    <3>1. mine[i] = Filler(i)
      BY <1>1 DEF mine
    <3> QED BY <1>1, <2>3, <3>1, TotalIsNumber
  <2>13. Total(rest) \in Nat /\ Total(mine) \in Nat /\ Total(both) \in Nat
    BY <1>1, <2>3, <2>4, TotalIsNumber
  <2>14. Total(Alones(i)) \in Nat /\ Total(Alones(i)) < Ellipsis
    BY TooShort
  <2>15. Total(Prints(Q)) \in Nat /\ Total(Prints(R)) \in Nat
    BY <1>1, <2>5, TotalIsNumber
  <2>16. Total(Prints(Q)) <= Total(Prints(R))
    BY <2>2, <2>9, <2>10, <2>11, <2>12, <2>13, <2>14, <2>15 DEF Ellipsis
  <2>17. Length(Q) <= Length(R)
    BY <2>15, <2>16, LengthIs, PartsAre
  <2> QED BY <2>17 DEF Q
<1> QED BY <1>2, <1>3, <1>4
(* Some part of a choice that holds parts that are no candidates has none  *)
(* of the others inside it: one of the deepest.                            *)
LEMMA SomeInnermost ==
  ASSUME statement \in Statements, NEW D \in SUBSET Parts, D # {}
  PROVE  \E i \in D : \A k \in D : ~Inside(k, i)
<1> DEFINE depths == [i \in Parts |-> Depth(i)]
           Bounds == {n \in Nat : \A i \in D : Depth(i) <= n}
<1>1. N \in Nat /\ Parts = 1 .. N
  BY PartsAre
<1>2. \A i \in Parts : Depth(i) \in Nat
  BY PathsAreSequences
<1>3. depths \in [1 .. N -> Nat]
  BY <1>1, <1>2
<1>4. Total(depths) \in Nat /\ \A i \in 1 .. N : depths[i] <= Total(depths)
  BY <1>1, <1>3, TotalIsNumber, Zenon
<1>5. Total(depths) \in Bounds
  BY <1>1, <1>4
<1>6. PICK n \in Bounds : \A m \in Bounds : n <= m
  <2>1. Bounds \in SUBSET Nat /\ Bounds # {}
    BY <1>5
  <2> HIDE DEF Bounds
  <2> QED BY <2>1, LeastNumber
<1>7. PICK i \in D : Depth(i) = n
  <2>1. CASE n = 0
    BY <1>2, <1>6, <2>1
  <2>2. CASE n # 0
    <3>1. n - 1 \in Nat /\ n - 1 \notin Bounds
      BY <1>6, <2>2
    <3>2. PICK i \in D : ~(Depth(i) <= n - 1)
      BY <3>1
    <3>3. Depth(i) \in Nat /\ Depth(i) <= n
      BY <1>2, <1>6
    <3> QED BY <1>6, <3>2, <3>3
  <2> QED BY <2>1, <2>2
<1>8. \A k \in D : ~Inside(k, i)
  <2>1. SUFFICES ASSUME NEW k \in D, Inside(k, i) PROVE FALSE
    OBVIOUS
  <2>2. Depth(i) < Depth(k)
    BY <2>1, InsideIsDeeper
  <2>3. Depth(k) <= n
    BY <1>6
  <2> QED BY <1>2, <1>7, <2>2, <2>3
<1> QED BY <1>8

(* Of the candidates, the more are given up the shorter the text. *)
LEMMA AllIsShortest ==
  ASSUME statement \in Statements, NoneGrows, NEW R \in SUBSET Candidates
  PROVE  Length(Candidates) <= Length(R)
<1>1. Candidates \subseteq Parts
  BY DEF Candidates
<1>2. ASSUME NEW k \in Parts PROVE Printed(Candidates, k) <= Printed(R, k)
  <2>1. Part(k).text \in Nat /\ Filler(k) \in Nat
    BY PartsAre
  <2>2. k \in Candidates => Filler(k) <= Part(k).text
    BY DEF NoneGrows
  <2> QED BY <2>1, <2>2 DEF Printed
<1> QED BY <1>2, LengthGrows

(* No choice of parts leaves the text shorter than all candidates do.  Of  *)
(* a choice that did, and with as few parts that are no candidates as such *)
(* a choice can have, one of those could be taken out.                     *)
LEMMA CandidatesAreBest ==
  ASSUME statement \in Statements, NoneGrows, NEW R \in SUBSET Parts
  PROVE  Length(Candidates) <= Length(R)
<1> DEFINE Others(Q) == Q \ Candidates
           Better(Q) == Q \in SUBSET Parts /\ ~(Length(Candidates) <= Length(Q))
           Counts == {n \in Nat : \E Q \in SUBSET Parts :
                                    Better(Q) /\ n = Cardinality(Others(Q))}
<1>1. IsFiniteSet(Parts)
  BY PartsAre, FS_Interval
<1>2. \A Q \in SUBSET Parts : /\ IsFiniteSet(Others(Q)) /\ Cardinality(Others(Q)) \in Nat
                              /\ Length(Q) \in Nat
  BY <1>1, FS_Subset, FS_CardinalityType, LengthIs
<1> SUFFICES ASSUME Better(R) PROVE FALSE
  OBVIOUS
<1>3. Cardinality(Others(R)) \in Counts
  BY <1>2
<1>4. PICK n \in Counts : \A m \in Counts : n <= m
  <2>1. Counts \in SUBSET Nat /\ Counts # {}
    BY <1>3
  <2> HIDE DEF Counts
  <2> QED BY <2>1, LeastNumber
<1>5. PICK Q \in SUBSET Parts : Better(Q) /\ n = Cardinality(Others(Q))
  BY <1>4
<1>6. Others(Q) # {}
  BY <1>5, AllIsShortest
<1>7. PICK i \in Others(Q) : \A k \in Others(Q) : ~Inside(k, i)
  BY <1>6, SomeInnermost
<1>8. Length(Q \ {i}) <= Length(Q)
  BY <1>7, OneLess
<1>9. Better(Q \ {i})
  <2>1. Length(Candidates) \in Nat /\ Length(Q) \in Nat /\ Length(Q \ {i}) \in Nat
    BY LengthIs
  <2> QED BY <1>5, <1>8, <2>1
<1>10. Others(Q \ {i}) = Others(Q) \ {i}
  OBVIOUS
<1>11. Cardinality(Others(Q \ {i})) = Cardinality(Others(Q)) - 1
  <2>1. IsFiniteSet(Others(Q))
    BY <1>2
  <2> HIDE DEF Others
  <2>2. Cardinality(Others(Q) \ {i}) = Cardinality(Others(Q)) - 1
    BY <1>7, <2>1, FS_RemoveElement
  <2> QED BY <1>10, <2>2
<1>12. Cardinality(Others(Q \ {i})) \in Counts
  <2>1. Q \ {i} \in SUBSET Parts
    OBVIOUS
  <2>2. Cardinality(Others(Q \ {i})) \in Nat
    BY <1>2, <2>1
  <2> HIDE DEF Others, Better
  <2> QED BY <1>9, <2>1, <2>2
<1>13. n \in Nat
  BY <1>4
<1>14. n <= Cardinality(Others(Q \ {i}))
  BY <1>4, <1>12
<1> QED BY <1>5, <1>11, <1>13, <1>14

---------------------------------------------------------------------------
(* What the end of the attempts means for the text. *)
EndInv ==
  /\ maxLength \in Limits /\ length \in Nat
  /\ result \in {"none", "error", "raised", "whole", "smart", "hard"}
  /\ result = "hard" => ~Fits(Candidates)
  /\ FitsMaxLength

FullInv == OrderInv /\ EndInv

LEMMA HardLengthFits ==
  ASSUME maxLength \in Int, NEW n \in Nat
  PROVE  /\ HardLength(n) \in Nat
         /\ HardLength(n) <= (IF maxLength < 0 THEN 0 ELSE maxLength)
BY DEF HardLength, Ellipsis

LEMMA EndInit == Init => EndInv
BY DEF Init, EndInv, FitsMaxLength

LEMMA EndWhole == FullInv /\ Whole => EndInv'
<1> SUFFICES ASSUME FullInv, Whole PROVE EndInv'
  OBVIOUS
<1>1. statement' = statement /\ maxLength' = maxLength /\ result = "none"
  BY DEF Whole
<1>2. maxLength \in Limits /\ maxLength \in Int /\ length \in Nat
  BY LimitsAssumption DEF FullInv, EndInv
<1>3. Length({}) \in Nat
  BY LengthIs DEF FullInv, OrderInv, Inv, StatementInv
<1>4. CASE result' = "error" /\ length' = 0
  BY <1>1, <1>2, <1>4 DEF EndInv, FitsMaxLength
<1>5. CASE Fits({}) /\ result' = "whole" /\ length' = Length({})
  BY <1>1, <1>2, <1>3, <1>5 DEF EndInv, FitsMaxLength, Fits
<1>6. CASE /\ ~Fits({}) /\ Candidates = {}
           /\ result' = "hard" /\ length' = HardLength(Length({}))
  <2>1. ~Fits(Candidates)'
    BY <1>1, <1>6, SameStatement
  <2>2. /\ length' \in Nat
        /\ length' <= (IF maxLength < 0 THEN 0 ELSE maxLength)
    BY <1>2, <1>3, <1>6, HardLengthFits
  <2> QED BY <1>1, <1>2, <1>6, <2>1, <2>2 DEF EndInv, FitsMaxLength
<1>7. CASE UNCHANGED <<result, length>>
  BY <1>1, <1>2, <1>7 DEF EndInv, FitsMaxLength
<1> QED BY <1>4, <1>5, <1>6, <1>7 DEF Whole, Return

LEMMA EndOmit == FullInv /\ Omit => EndInv'
<1> SUFFICES ASSUME FullInv, Omit PROVE EndInv'
  OBVIOUS
<1>1. statement' = statement /\ maxLength' = maxLength /\ result = "none"
  BY DEF Omit
<1>2. maxLength \in Limits /\ maxLength \in Int /\ length \in Nat
  BY LimitsAssumption DEF FullInv, EndInv
<1>3. PICK i \in todo :
        /\ todo' = todo \ {i} /\ replaced' = replaced \cup {i}
        /\ \/ result' = "raised" /\ length' = 0
           \/ /\ Fits(replaced \cup {i})
              /\ result' = "smart" /\ length' = Length(replaced \cup {i})
           \/ /\ ~Fits(replaced \cup {i}) /\ todo' = {}
              /\ result' = "hard" /\ length' = HardLength(Length(replaced \cup {i}))
           \/ UNCHANGED <<result, length>>
  BY DEF Omit, Return
<1>4. Length(replaced \cup {i}) \in Nat
  BY LengthIs DEF FullInv, OrderInv, Inv, StatementInv
<1>5. CASE result' = "raised" /\ length' = 0
  BY <1>1, <1>2, <1>5 DEF EndInv, FitsMaxLength
<1>6. CASE /\ Fits(replaced \cup {i})
           /\ result' = "smart" /\ length' = Length(replaced \cup {i})
  BY <1>1, <1>2, <1>4, <1>6 DEF EndInv, FitsMaxLength, Fits
<1>7. CASE /\ ~Fits(replaced \cup {i}) /\ todo' = {}
           /\ result' = "hard" /\ length' = HardLength(Length(replaced \cup {i}))
  <2>1. replaced \cup {i} = Candidates
    BY <1>1, <1>3, <1>7 DEF FullInv, OrderInv, RoundInv
  <2>2. ~Fits(Candidates)'
    BY <1>1, <1>7, <2>1, SameStatement
  <2>3. /\ length' \in Nat
        /\ length' <= (IF maxLength < 0 THEN 0 ELSE maxLength)
    BY <1>2, <1>4, <1>7, HardLengthFits
  <2> QED BY <1>1, <1>2, <1>7, <2>2, <2>3 DEF EndInv, FitsMaxLength
<1>8. CASE UNCHANGED <<result, length>>
  BY <1>1, <1>2, <1>8 DEF EndInv, FitsMaxLength
<1> QED BY <1>3, <1>5, <1>6, <1>7, <1>8

LEMMA FullStep == FullInv /\ [Next]_vars => FullInv'
<1> SUFFICES ASSUME FullInv, [Next]_vars PROVE FullInv'
  OBVIOUS
<1>1. OrderInv'
  BY OrderStep DEF FullInv
<1>2. EndInv'
  <2>1. CASE Whole
    BY <2>1, EndWhole
  <2>2. CASE Omit
    BY <2>2, EndOmit
  <2>3. CASE UNCHANGED vars
    <3>1. statement' = statement /\ maxLength' = maxLength /\ result' = result /\ length' = length
      BY <2>3 DEF vars
    <3>2. Fits(Candidates)' = Fits(Candidates)
      BY <3>1, SameStatement
    <3> QED BY <3>1, <3>2 DEF FullInv, EndInv, FitsMaxLength
  <2> QED BY <2>1, <2>2, <2>3 DEF Next
<1> QED BY <1>1, <1>2 DEF FullInv

LEMMA FullInvariant == Spec => []FullInv
<1>1. Init => FullInv
  BY OrderInit, EndInit DEF FullInv
<1> QED BY <1>1, FullStep, PTL DEF Spec

(* The state has its types, and what is still to be tried and what is      *)
(* replaced are parts of the statement.  (truncate)                        *)
THEOREM TypeCorrect == Spec => []TypeOK
<1>1. FullInv => TypeOK
  BY DEF FullInv, OrderInv, EndInv, Inv, StatementInv, TypeOK
<1> QED BY <1>1, FullInvariant, PTL

(* Whatever the statement and the limit, what truncate returns is within   *)
(* the limit, and empty when the limit is below zero.  (hard_truncate)     *)
THEOREM TextIsWithinTheLimit == Spec => []FitsMaxLength
<1>1. FullInv => FitsMaxLength
  BY DEF FullInv, EndInv
<1> QED BY <1>1, FullInvariant, PTL

(* When no replacement is longer than what it stands for, the greedy order *)
(* of try_smart_truncation loses nothing: it ends in the cut of the text   *)
(* only if no choice of parts at all would have made the statement fit.    *)
THEOREM GreedyLosesNothing == Spec => []GreedyIsEnough
<1>1. FullInv => GreedyIsEnough
  <2> SUFFICES ASSUME FullInv, result = "hard", NoneGrows, NEW R \in SUBSET Parts
               PROVE  ~Fits(R)
    BY DEF GreedyIsEnough, NoneGrows
  <2>1. statement \in Statements /\ Candidates \subseteq Parts
    BY DEF FullInv, OrderInv, Inv, StatementInv, Candidates
  <2>2. maxLength \in Int /\ ~(Length(Candidates) <= maxLength)
    BY LimitsAssumption DEF FullInv, EndInv, Fits
  <2>3. Length(Candidates) \in Nat /\ Length(R) \in Nat
    BY <2>1, LengthIs
  <2>4. Length(Candidates) <= Length(R)
    BY <2>1, CandidatesAreBest
  <2> QED BY <2>2, <2>3, <2>4 DEF Fits
<1> QED BY <1>1, FullInvariant, PTL
=============================================================================
