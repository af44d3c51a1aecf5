-------------------------- MODULE FingerprintProofs --------------------------
(***************************************************************************)
(* The printed tokens spell out what was hashed, for every parse tree,     *)
(* every depth and every order of the hashes.  What the proof is about is  *)
(* the stack: whoever takes a token back has put it there, and at most one *)
(* context on the stack prints tokens.  The first that was put there does. *)
(* And the work is linear: what was looked at and what is still to come is *)
(* counted together, node by node down from the root.                      *)
(***************************************************************************)
EXTENDS Fingerprint, SequenceTheorems, FiniteSetTheorems, NaturalsInduction,
        WellFoundedInduction, TLAPS

IsSeq(s) == Len(s) \in Nat /\ s = [i \in 1..Len(s) |-> s[i]]

(* A field that is to be taken back was the last thing hashed before it.   *)
IsClosing(call) ==
  call.do = "close" =>
    /\ IsSeq(call.prev)
    /\ \E name : call.hash = Append(call.prev, name)

IsQuiet(call) == call.do # "hashed" /\ IsClosing(call)
AreQuiet(first) == IsSeq(first) /\ \A i \in 1..Len(first) : IsQuiet(first[i])

IsPrinting(call) == call.do = "hashed" /\ call.ctx.write_tokens

(* A context that waits for an item has printed all that it has hashed.    *)
HasPrinted(call, printed) ==
  call.do = "hashed" => /\ call.ctx = [hash |-> call.ctx.hash,
                                       write_tokens |-> call.ctx.write_tokens]
                        /\ call.ctx.write_tokens \in BOOLEAN
                        /\ IsSeq(call.ctx.hash)
                        /\ call.ctx.write_tokens => printed = call.ctx.hash

StackInv ==
  /\ IsSeq(calls)
  /\ \A i \in 1..Len(calls) : IsClosing(calls[i]) /\ HasPrinted(calls[i], tokens)

(* At most one context prints: the one at work, or one of those that wait. *)
OnePrints ==
  /\ context.write_tokens => \A i \in 1..Len(calls) : ~IsPrinting(calls[i])
  /\ \A i, j \in 1..Len(calls) : IsPrinting(calls[i]) /\ IsPrinting(calls[j]) => i = j

IInv ==
  /\ context = [hash |-> context.hash, write_tokens |-> context.write_tokens]
  /\ context.write_tokens \in BOOLEAN
  /\ IsSeq(context.hash)
  /\ StackInv
  /\ OnePrints
  /\ TokensSpellFingerprint
-----------------------------------------------------------------------------
LEMMA SeqOfItsElements ==
  ASSUME NEW s, IsSeq(s)
  PROVE  \E S : s \in Seq(S)
  <1> DEFINE S == {s[i] : i \in 1..Len(s)}
  <1>1. s \in [1..Len(s) -> S]
    BY DEF IsSeq
  <1>2. s \in Seq(S)
    BY <1>1, SeqDef DEF IsSeq
  <1> QED BY <1>2

LEMMA ElementsMakeSeq ==
  ASSUME NEW S, NEW s \in Seq(S)
  PROVE  IsSeq(s)
  BY DEF IsSeq

LEMMA Concatenated ==
  ASSUME NEW s, NEW t, IsSeq(s), IsSeq(t)
  PROVE  /\ IsSeq(s \o t)
         /\ Len(s \o t) = Len(s) + Len(t)
         /\ \A i \in 1..Len(s) : (s \o t)[i] = s[i]
         /\ \A i \in 1..Len(t) : (s \o t)[Len(s) + i] = t[i]
  <1>1. PICK S : s \in Seq(S)
    BY SeqOfItsElements
  <1>2. PICK T : t \in Seq(T)
    BY SeqOfItsElements
  <1>3. s \in Seq(S \cup T) /\ t \in Seq(S \cup T)
    BY <1>1, <1>2
  <1>4. s \o t \in Seq(S \cup T)
    BY <1>3
  <1>5. IsSeq(s \o t)
    BY <1>4, ElementsMakeSeq
  <1> QED BY <1>3, <1>5

LEMMA TailOf ==
  ASSUME NEW s, IsSeq(s), s # <<>>
  PROVE  /\ IsSeq(Tail(s)) /\ Len(Tail(s)) = Len(s) - 1 /\ Len(s) >= 1
         /\ \A i \in 1..Len(s) - 1 : Tail(s)[i] = s[i + 1]
         /\ Head(s) = s[1]
  <1>1. PICK S : s \in Seq(S)
    BY SeqOfItsElements
  <1>2. Tail(s) \in Seq(S)
    BY <1>1
  <1>3. IsSeq(Tail(s))
    BY <1>2, ElementsMakeSeq
  <1> QED BY <1>1, <1>3

LEMMA Appended ==
  ASSUME NEW s, IsSeq(s), NEW e
  PROVE  IsSeq(Append(s, e)) /\ Front(Append(s, e)) = s
  <1>1. PICK S : s \in Seq(S)
    BY SeqOfItsElements
  <1>2. s \in Seq(S \cup {e}) /\ Append(s, e) \in Seq(S \cup {e})
    BY <1>1
  <1>3. IsSeq(Append(s, e))
    BY <1>2, ElementsMakeSeq
  <1>4. Front(Append(s, e)) = SubSeq(Append(s, e), 1, Len(s))
    BY <1>2 DEF Front
  <1>5. SubSeq(Append(s, e), 1, Len(s)) = s
    BY <1>2
  <1> QED BY <1>3, <1>4, <1>5
-----------------------------------------------------------------------------
LEMMA LoopsAreQuiet ==
  ASSUME NEW do \in {"fields", "items", "hash"}, NEW path, NEW todo
  PROVE  AreQuiet(Loop(do, path, todo))
  BY DEF AreQuiet, Loop, IsSeq, IsQuiet, IsClosing

LEMMA QuietTogether ==
  ASSUME NEW s, NEW t, AreQuiet(s), AreQuiet(t)
  PROVE  AreQuiet(s \o t)
  <1>1. IsSeq(s) /\ IsSeq(t) /\ IsSeq(s \o t)
    BY Concatenated DEF AreQuiet
  <1>2. ASSUME NEW i \in 1..Len(s \o t) PROVE IsQuiet((s \o t)[i])
    <2>1. CASE i <= Len(s)
      BY <1>1, <2>1, Concatenated DEF AreQuiet, IsSeq
    <2>2. CASE i > Len(s)
      <3>1. i - Len(s) \in 1..Len(t) /\ i = Len(s) + (i - Len(s))
        BY <1>1, <2>2, Concatenated DEF IsSeq
      <3>2. (s \o t)[i] = t[i - Len(s)]
        BY <1>1, <3>1, Concatenated
      <3> QED BY <3>1, <3>2 DEF AreQuiet
    <2> QED BY <1>1, <2>1, <2>2 DEF IsSeq
  <1> QED BY <1>1, <1>2 DEF AreQuiet

(* Where the calls after a step come from.                                 *)
LEMMA WhereCallsAreFrom ==
  ASSUME IsSeq(calls), calls # <<>>, NEW first, IsSeq(first), Continue(first)
  PROVE  /\ IsSeq(calls') /\ Len(calls') = Len(first) + Len(calls) - 1
         /\ \A i \in 1..Len(first) : calls'[i] = first[i]
         /\ \A i \in 1..Len(calls') :
              i > Len(first) => /\ i - Len(first) + 1 \in 2..Len(calls)
                                /\ calls'[i] = calls[i - Len(first) + 1]
  <1>1. /\ IsSeq(Tail(calls)) /\ Len(Tail(calls)) = Len(calls) - 1
        /\ \A i \in 1..Len(calls) - 1 : Tail(calls)[i] = calls[i + 1]
    BY TailOf
  <1>2. calls' = first \o Tail(calls)
    BY DEF Continue
  <1>a. Len(first) \in Nat /\ Len(calls) \in Nat
    BY DEF IsSeq
  <1>b. /\ IsSeq(first \o Tail(calls))
        /\ Len(first \o Tail(calls)) = Len(first) + (Len(calls) - 1)
    BY <1>1, Concatenated
  <1>3. IsSeq(calls') /\ Len(calls') = Len(first) + Len(calls) - 1
    BY <1>a, <1>b, <1>2
  <1>4. \A i \in 1..Len(first) : calls'[i] = first[i]
    BY <1>1, <1>2, Concatenated
  <1>5. ASSUME NEW i \in 1..Len(calls'), i > Len(first)
        PROVE  /\ i - Len(first) + 1 \in 2..Len(calls)
               /\ calls'[i] = calls[i - Len(first) + 1]
    <2> DEFINE k == i - Len(first)
    <2>1. k \in 1..Len(calls) - 1 /\ i = Len(first) + k
      BY <1>a, <1>3, <1>5
    <2>2. calls'[i] = Tail(calls)[k]
      BY <1>1, <1>2, <2>1, Concatenated
    <2>3. k + 1 \in 2..Len(calls)
      BY <1>a, <2>1
    <2>4. Tail(calls)[k] = calls[k + 1]
      BY <1>1, <2>1
    <2> QED BY <2>2, <2>3, <2>4
  <1> QED BY <1>3, <1>4, <1>5
-----------------------------------------------------------------------------
(* A step that leaves it to the same context to print, and prints what it  *)
(* hashes, keeps the invariant.                                            *)
LEMMA QuietStep ==
  ASSUME IInv, calls # <<>>, NEW first, AreQuiet(first), Continue(first),
         context' = [hash |-> context'.hash, write_tokens |-> context.write_tokens],
         IsSeq(context'.hash),
         context.write_tokens => tokens' = context'.hash,
         ~context.write_tokens => tokens' = tokens
  PROVE  IInv'
  <1>1. /\ IsSeq(calls') /\ Len(calls') = Len(first) + Len(calls) - 1
        /\ \A i \in 1..Len(first) : calls'[i] = first[i]
        /\ \A i \in 1..Len(calls') :
              i > Len(first) => /\ i - Len(first) + 1 \in 2..Len(calls)
                                /\ calls'[i] = calls[i - Len(first) + 1]
    BY WhereCallsAreFrom DEF IInv, StackInv, AreQuiet
  <1>2. Len(first) \in Nat /\ Len(calls) \in Nat
    BY DEF IInv, StackInv, AreQuiet, IsSeq
  <1>3. ASSUME NEW i \in 1..Len(calls')
        PROVE  \/ IsQuiet(calls'[i])
               \/ i > Len(first) /\ \E k \in 1..Len(calls) :
                    k = i - Len(first) + 1 /\ calls'[i] = calls[k]
    BY <1>1, <1>2 DEF AreQuiet
  <1>4. ASSUME NEW i \in 1..Len(calls'), IsPrinting(calls'[i])
        PROVE  /\ i > Len(first)
               /\ i - Len(first) + 1 \in 1..Len(calls)
               /\ IsPrinting(calls[i - Len(first) + 1])
    BY <1>3, <1>4 DEF IsQuiet, IsPrinting
  <1>5. OnePrints'
    <2>1. context'.write_tokens = context.write_tokens
      OBVIOUS
    <2>2. ASSUME context'.write_tokens, NEW i \in 1..Len(calls'), IsPrinting(calls'[i])
          PROVE  FALSE
      BY <1>4, <2>1, <2>2 DEF IInv, OnePrints
    <2>3. ASSUME NEW i \in 1..Len(calls'), NEW j \in 1..Len(calls'),
                 IsPrinting(calls'[i]), IsPrinting(calls'[j])
          PROVE  i = j
      <3>1. i - Len(first) + 1 = j - Len(first) + 1
        BY <1>4, <2>3 DEF IInv, OnePrints
      <3> QED BY <1>1, <1>2, <3>1
    <2> QED BY <2>2, <2>3 DEF OnePrints
  <1>6. ASSUME NEW i \in 1..Len(calls')
        PROVE  IsClosing(calls'[i])
    BY <1>3 DEF IInv, StackInv, IsQuiet
  <1>7. ASSUME NEW i \in 1..Len(calls')
        PROVE  HasPrinted(calls'[i], tokens')
    <2>1. CASE IsQuiet(calls'[i])
      BY <2>1 DEF IsQuiet, HasPrinted
    <2>2. CASE \E k \in 1..Len(calls) : calls'[i] = calls[k]
      <3>1. PICK k \in 1..Len(calls) : calls'[i] = calls[k]
        BY <2>2
      <3>2. HasPrinted(calls[k], tokens)
        BY DEF IInv, StackInv
      <3>3. CASE context.write_tokens
        BY <3>1, <3>2, <3>3 DEF HasPrinted, IInv, OnePrints, IsPrinting
      <3>4. CASE ~context.write_tokens
        BY <3>1, <3>2, <3>4 DEF HasPrinted
      <3> QED BY <3>3, <3>4
    <2> QED BY <1>3, <2>1, <2>2
  <1>8. StackInv'
    BY <1>1, <1>6, <1>7 DEF StackInv
  <1>9. TokensSpellFingerprint' /\ (context.write_tokens \in BOOLEAN)'
    BY DEF TokensSpellFingerprint, IInv
  <1> QED BY <1>5, <1>8, <1>9 DEF IInv

(* What a text does to the context at work and to the tokens.              *)
LEMMA StringIsPrinted ==
  ASSUME IInv, NEW texts, IsSeq(texts), FingerprintString(texts)
  PROVE  /\ context' = [hash |-> context'.hash, write_tokens |-> context.write_tokens]
         /\ IsSeq(context'.hash)
         /\ context'.hash = context.hash \o texts
         /\ context.write_tokens => tokens' = context'.hash
         /\ ~context.write_tokens => tokens' = tokens
  <1>1. context' = [hash |-> context.hash \o texts, write_tokens |-> context.write_tokens]
    BY DEF FingerprintString, IInv
  <1>2. IsSeq(context.hash \o texts)
    BY Concatenated DEF IInv
  <1> QED BY <1>1, <1>2 DEF FingerprintString, IInv, TokensSpellFingerprint

(* Nothing is hashed: only the stack changes.                              *)
LEMMA NothingHashed ==
  ASSUME IInv, calls # <<>>, NEW first, AreQuiet(first), Continue(first),
         UNCHANGED <<context, tokens>>
  PROVE  IInv'
  BY QuietStep DEF IInv, TokensSpellFingerprint

(* A node is hashed, and something is left to be done for it.              *)
LEMMA TextsHashed ==
  ASSUME IInv, calls # <<>>, NEW first, AreQuiet(first), Continue(first),
         NEW texts, IsSeq(texts), FingerprintString(texts)
  PROVE  IInv'
  BY StringIsPrinted, QuietStep

(* A value gives a name and a text, or nothing.                            *)
LEMMA ValuesHaveTexts ==
  ASSUME NEW node, node.tag \in {"String", "Integer"}
  PROVE  IsSeq(ValueTexts(node))
  <1>1. \A a, b, c : IsSeq(<<a, b, c>>)
    BY DEF IsSeq
  <1>2. IsSeq(<<>>)
    BY DEF IsSeq
  <1>3. CASE node.tag = "String"
    <2>1. ValueTexts(node) = <<"String", "str", node.sval>>
      BY <1>3 DEF ValueTexts
    <2> QED BY <1>1, <2>1
  <1>4. CASE node.tag = "Integer" /\ node.ival # "0"
    <2>1. ValueTexts(node) = <<"Integer", "ival", node.ival>>
      BY <1>4 DEF ValueTexts
    <2> QED BY <1>1, <2>1
  <1>5. CASE node.tag = "Integer" /\ node.ival = "0"
    <2>1. ValueTexts(node) = <<>>
      BY <1>5 DEF ValueTexts
    <2> QED BY <1>2, <2>1
  <1> QED BY <1>3, <1>4, <1>5

LEMMA NoCalls == AreQuiet(<<>>)
  BY DEF AreQuiet, IsSeq

LEMMA OneCall ==
  ASSUME NEW do \in {"node", "struct", "sort"}, NEW path
  PROVE  AreQuiet(<<Call(do, path)>>)
  BY DEF AreQuiet, IsSeq, Call, IsQuiet, IsClosing
-----------------------------------------------------------------------------
LEMMA InitInv == Init => IInv
  BY DEF Init, IInv, StackInv, OnePrints, FirstCall, NewContext, Call, IsSeq, IsClosing,
         HasPrinted, IsPrinting, TokensSpellFingerprint

LEMMA HashItemKeeps == IInv /\ HashItem => IInv'
  <1> SUFFICES ASSUME IInv, HashItem PROVE IInv'
    OBVIOUS
  <1> DEFINE hashed == [do |-> "hashed", path |-> Inner, ctx |-> context]
             two == <<Call("node", Inner), hashed>>
             first == two \o Rest
  <1>1. calls # <<>> /\ Here.do = "hash" /\ Continue(first) /\ tokens' = tokens
        /\ context' = [hash |-> <<>>, write_tokens |-> FALSE]
    BY DEF HashItem, NewContext
  <1>2. AreQuiet(Rest)
    BY <1>1, LoopsAreQuiet DEF Rest
  <1>3. IsSeq(two) /\ Len(two) = 2 /\ two[1] = Call("node", Inner) /\ two[2] = hashed
    BY DEF IsSeq
  <1> HIDE DEF two
  <1>4. /\ IsSeq(first) /\ Len(first) = 2 + Len(Rest)
        /\ first[1] = Call("node", Inner) /\ first[2] = hashed
        /\ \A i \in 1..Len(Rest) : first[2 + i] = Rest[i]
    <2>1. IsSeq(Rest)
      BY <1>2 DEF AreQuiet
    <2>2. /\ IsSeq(first) /\ Len(first) = Len(two) + Len(Rest)
          /\ \A i \in 1..Len(two) : first[i] = two[i]
          /\ \A i \in 1..Len(Rest) : first[Len(two) + i] = Rest[i]
      <3>1. IsSeq(two)
        BY <1>3
      <3> QED BY <2>1, <3>1, Concatenated
    <2> HIDE DEF first
    <2> QED BY <1>3, <2>2
  <1> HIDE DEF first
  <1>5. Len(Rest) \in Nat /\ Len(calls) \in Nat
    BY <1>2 DEF AreQuiet, IsSeq, IInv, StackInv
  <1>6. ASSUME NEW i \in 1..Len(first), i # 2
        PROVE  IsQuiet(first[i])
    <2>1. CASE i = 1
      BY <1>4, <2>1 DEF Call, IsQuiet, IsClosing
    <2>2. CASE i > 2
      <3>1. i - 2 \in 1..Len(Rest) /\ i = 2 + (i - 2)
        BY <1>4, <1>5, <2>2
      <3> QED BY <1>2, <1>4, <3>1 DEF AreQuiet
    <2> QED BY <1>4, <1>5, <1>6, <2>1, <2>2
  <1>7. /\ IsSeq(calls') /\ Len(calls') = Len(first) + Len(calls) - 1
        /\ \A i \in 1..Len(first) : calls'[i] = first[i]
        /\ \A i \in 1..Len(calls') :
              i > Len(first) => /\ i - Len(first) + 1 \in 2..Len(calls)
                                /\ calls'[i] = calls[i - Len(first) + 1]
    BY <1>1, <1>4, WhereCallsAreFrom DEF IInv, StackInv
  <1>8. IsClosing(hashed) /\ HasPrinted(hashed, tokens)
    BY DEF IsClosing, HasPrinted, IInv, TokensSpellFingerprint
  <1>9. IsPrinting(hashed) <=> context.write_tokens
    BY DEF IsPrinting
  <1> HIDE DEF hashed
  <1>10. ASSUME NEW i \in 1..Len(calls')
         PROVE  \/ i <= Len(first) /\ i # 2 /\ IsQuiet(calls'[i])
                \/ i = 2 /\ calls'[i] = hashed
                \/ /\ i > Len(first) /\ i - Len(first) + 1 \in 1..Len(calls)
                   /\ calls'[i] = calls[i - Len(first) + 1]
    <2>1. CASE i > Len(first)
      BY <1>5, <1>7, <2>1
    <2>2. CASE i <= Len(first)
      <3>1. i \in 1..Len(first) /\ calls'[i] = first[i]
        BY <1>4, <1>5, <1>7, <2>2
      <3> QED BY <1>4, <1>6, <2>2, <3>1
    <2> QED BY <1>4, <1>5, <2>1, <2>2
  <1>11. ASSUME NEW i \in 1..Len(calls')
         PROVE  IsClosing(calls'[i]) /\ HasPrinted(calls'[i], tokens')
    BY <1>1, <1>8, <1>10 DEF IInv, StackInv, IsQuiet, HasPrinted
  <1>12. ASSUME NEW i \in 1..Len(calls'), IsPrinting(calls'[i])
         PROVE  \/ i = 2 /\ context.write_tokens
                \/ /\ i > Len(first) /\ i - Len(first) + 1 \in 1..Len(calls)
                   /\ IsPrinting(calls[i - Len(first) + 1])
    BY <1>9, <1>10, <1>12 DEF IsQuiet, IsPrinting
  <1>13. ASSUME NEW i \in 1..Len(calls'), NEW j \in 1..Len(calls'),
                IsPrinting(calls'[i]), IsPrinting(calls'[j])
         PROVE  i = j
    <2>1. CASE context.write_tokens
      BY <1>12, <1>13, <2>1 DEF IInv, OnePrints
    <2>2. CASE ~context.write_tokens
      <3>1. i - Len(first) + 1 = j - Len(first) + 1
        BY <1>12, <1>13, <2>2 DEF IInv, OnePrints
      <3> QED BY <1>4, <1>5, <3>1
    <2> QED BY <2>1, <2>2
  <1>14. StackInv' /\ OnePrints'
    BY <1>1, <1>7, <1>11, <1>13 DEF StackInv, OnePrints
  <1>15. IsSeq(<<>>)
    BY DEF IsSeq
  <1> QED BY <1>1, <1>14, <1>15 DEF IInv, TokensSpellFingerprint

LEMMA ItemHashedKeeps == IInv /\ ItemHashed => IInv'
  <1> SUFFICES ASSUME IInv, ItemHashed PROVE IInv'
    OBVIOUS
  <1>1. calls # <<>> /\ Here.do = "hashed" /\ Continue(<<>>) /\ tokens' = tokens
        /\ context' = Here.ctx
    BY DEF ItemHashed
  <1>2. IsSeq(calls) /\ Len(calls) \in Nat /\ IsSeq(<<>>) /\ Len(<<>>) = 0
    BY DEF IInv, StackInv, IsSeq
  <1>3. Len(calls) >= 1 /\ Here = calls[1]
    BY <1>1, <1>2, TailOf DEF Here
  <1>4. /\ IsSeq(calls') /\ Len(calls') = Len(calls) - 1
        /\ \A i \in 1..Len(calls') : i + 1 \in 2..Len(calls) /\ calls'[i] = calls[i + 1]
    BY <1>1, <1>2, WhereCallsAreFrom
  <1>5. HasPrinted(calls[1], tokens)
    BY <1>2, <1>3 DEF IInv, StackInv
  <1>6. /\ context' = [hash |-> context'.hash, write_tokens |-> context'.write_tokens]
        /\ context'.write_tokens \in BOOLEAN /\ IsSeq(context'.hash)
        /\ context'.write_tokens => tokens' = context'.hash
    BY <1>1, <1>3, <1>5 DEF HasPrinted
  <1>7. context'.write_tokens => IsPrinting(calls[1])
    BY <1>1, <1>3 DEF IsPrinting
  <1>8. OnePrints'
    <2>1. ASSUME NEW i \in 1..Len(calls'), NEW j \in 1..Len(calls'),
                 IsPrinting(calls'[i]), IsPrinting(calls'[j])
          PROVE  i = j
      <3>1. i + 1 = j + 1
        <4>1. /\ i + 1 \in 1..Len(calls) /\ IsPrinting(calls[i + 1])
              /\ j + 1 \in 1..Len(calls) /\ IsPrinting(calls[j + 1])
          BY <1>2, <1>4, <2>1
        <4> QED BY <4>1 DEF IInv, OnePrints
      <3> QED BY <1>2, <1>4, <3>1
    <2>2. ASSUME context'.write_tokens, NEW i \in 1..Len(calls'), IsPrinting(calls'[i])
          PROVE  FALSE
      <3>1. IsPrinting(calls[1]) /\ 1 \in 1..Len(calls)
        BY <1>2, <1>3, <1>7, <2>2
      <3>2. i + 1 = 1
        BY <1>4, <2>2, <3>1 DEF IInv, OnePrints
      <3> QED BY <1>2, <1>4, <3>2
    <2> QED BY <2>1, <2>2 DEF OnePrints
  <1>9. StackInv'
    BY <1>1, <1>2, <1>4 DEF IInv, StackInv
  <1> QED BY <1>6, <1>8, <1>9 DEF IInv, TokensSpellFingerprint

LEMMA CloseFieldKeeps == IInv /\ CloseField => IInv'
  <1> SUFFICES ASSUME IInv, CloseField PROVE IInv'
    OBVIOUS
  <1>1. calls # <<>> /\ Here.do = "close" /\ Continue(<<>>)
    BY DEF CloseField
  <1>2. CASE UNCHANGED <<context, tokens>>
    BY <1>1, <1>2, NothingHashed, NoCalls
  <1>3. CASE /\ context.hash = Here.hash
             /\ context' = [context EXCEPT !.hash = Here.prev]
             /\ tokens' = IF context.write_tokens THEN Front(tokens) ELSE tokens
    <2>1. IsClosing(Here)
      <3>1. IsSeq(calls)
        BY DEF IInv, StackInv
      <3>2. Here = calls[1] /\ 1 \in 1..Len(calls)
        BY <1>1, <3>1, TailOf DEF Here, IsSeq
      <3> QED BY <3>2 DEF IInv, StackInv
    <2>2. PICK name : Here.hash = Append(Here.prev, name)
      BY <1>1, <2>1 DEF IsClosing
    <2>3. IsSeq(Here.prev)
      BY <1>1, <2>1 DEF IsClosing
    <2>4. Front(context.hash) = Here.prev
      BY <1>3, <2>2, <2>3, Appended
    <2>5. context' = [hash |-> Here.prev, write_tokens |-> context.write_tokens]
      BY <1>3 DEF IInv
    <2>6. context.write_tokens => tokens' = context'.hash
      BY <1>3, <2>4, <2>5 DEF IInv, TokensSpellFingerprint
    <2>7. ~context.write_tokens => tokens' = tokens
      BY <1>3
    <2> QED BY <1>1, <2>3, <2>5, <2>6, <2>7, QuietStep, NoCalls
  <1> QED BY <1>2, <1>3 DEF CloseField

(* The calls for a field: the second takes its name back.                  *)
LEMMA CallsOfAField ==
  ASSUME IInv, NEW how \in {"node", "struct"}, NEW name
  PROVE  AreQuiet(<<Call(how, Inner),
                    [do |-> "close", path |-> Inner, prev |-> context.hash,
                     hash |-> Append(context.hash, name)]>>)
  <1> DEFINE close == [do |-> "close", path |-> Inner, prev |-> context.hash,
                       hash |-> Append(context.hash, name)]
  <1>1. IsQuiet(Call(how, Inner))
    BY DEF IsQuiet, IsClosing, Call
  <1>2. IsQuiet(close)
    BY DEF IsQuiet, IsClosing, IInv
  <1> HIDE DEF close
  <1>3. AreQuiet(<<Call(how, Inner), close>>)
    BY <1>1, <1>2 DEF AreQuiet, IsSeq
  <1> QED BY <1>3 DEF close

LEMMA FingerprintFieldKeeps == IInv /\ FingerprintField => IInv'
  <1> SUFFICES ASSUME IInv, FingerprintField PROVE IInv'
    OBVIOUS
  <1>1. calls # <<>> /\ Here.do = "fields"
    BY DEF FingerprintField, AtField
  <1> DEFINE name == At(Inner).field_name
  <1>2. PICK how \in {"node", "struct"} :
          /\ FingerprintString(<<name>>)
          /\ Continue(<<Call(how, Inner),
                        [do |-> "close", path |-> Inner, prev |-> context.hash,
                         hash |-> Append(context.hash, name)]>> \o Rest)
    BY DEF FingerprintField
  <1> HIDE DEF name
  <1> DEFINE two == <<Call(how, Inner),
                      [do |-> "close", path |-> Inner, prev |-> context.hash,
                       hash |-> Append(context.hash, name)]>>
  <1>3. AreQuiet(two)
    BY CallsOfAField
  <1>4. AreQuiet(Rest)
    BY <1>1, LoopsAreQuiet DEF Rest
  <1> HIDE DEF two
  <1>5. AreQuiet(two \o Rest)
    BY <1>3, <1>4, QuietTogether
  <1>6. Continue(two \o Rest)
    BY <1>2 DEF two
  <1>7. IsSeq(<<name>>)
    BY DEF IsSeq
  <1> QED BY <1>1, <1>2, <1>5, <1>6, <1>7, TextsHashed

LEMMA NextKeeps == IInv /\ [Next]_vars => IInv'
  <1> SUFFICES ASSUME IInv, [Next]_vars PROVE IInv'
    OBVIOUS
  <1>1. CASE IgnoreNode
    <2>1. calls # <<>> /\ Continue(<<>>) /\ UNCHANGED <<context, tokens>>
      BY <1>1 DEF IgnoreNode, AtNode
    <2> QED BY <2>1, NothingHashed, NoCalls
  <1>2. CASE FingerprintValue
    <2>1. calls # <<>> /\ Continue(<<>>) /\ FingerprintString(ValueTexts(At(Here.path).node))
      BY <1>2 DEF FingerprintValue, AtNode
    <2>2. At(Here.path).node.tag \in {"String", "Integer"}
      BY <1>2 DEF FingerprintValue
    <2>3. IsSeq(ValueTexts(At(Here.path).node))
      BY <2>2, ValuesHaveTexts
    <2> QED BY <2>1, <2>3, TextsHashed, NoCalls
  <1>3. CASE FingerprintMessage
    <2>1. calls # <<>> /\ Continue(FieldLoop(Here.path))
          /\ FingerprintString(<<At(Here.path).node.tag>>)
      BY <1>3 DEF FingerprintMessage, AtNode
    <2>2. IsSeq(<<At(Here.path).node.tag>>)
      BY DEF IsSeq
    <2>3. AreQuiet(FieldLoop(Here.path))
      BY LoopsAreQuiet DEF FieldLoop
    <2> QED BY <2>1, <2>2, <2>3, TextsHashed
  <1>4. CASE FingerprintStruct
    <2>1. calls # <<>> /\ Continue(FieldLoop(Here.path)) /\ UNCHANGED <<context, tokens>>
      BY <1>4 DEF FingerprintStruct
    <2>2. AreQuiet(FieldLoop(Here.path))
      BY LoopsAreQuiet DEF FieldLoop
    <2> QED BY <2>1, <2>2, NothingHashed
  <1>5. CASE FingerprintList \/ FingerprintCachedList
    <2>1. PICK todo : Continue(Loop("items", Here.path, todo))
      BY <1>5 DEF FingerprintList, FingerprintCachedList
    <2>2. calls # <<>> /\ UNCHANGED <<context, tokens>>
      BY <1>5 DEF FingerprintList, FingerprintCachedList, AtList, AtNode
    <2> QED BY <2>1, <2>2, LoopsAreQuiet, NothingHashed
  <1>6. CASE FingerprintNewList
    <2> DEFINE loop == Loop("hash", Here.path, Positions(Here.path))
               sort == <<Call("sort", Here.path)>>
    <2>1. calls # <<>> /\ Continue(loop \o sort) /\ UNCHANGED <<context, tokens>>
      BY <1>6 DEF FingerprintNewList, AtList, AtNode
    <2>2. AreQuiet(loop) /\ AreQuiet(sort)
      BY LoopsAreQuiet, OneCall
    <2> QED BY <2>1, <2>2, QuietTogether, NothingHashed
  <1>7. CASE NextItem
    <2> DEFINE node == <<Call("node", Inner)>>
    <2>1. calls # <<>> /\ Here.do = "items" /\ Continue(node \o Rest)
          /\ UNCHANGED <<context, tokens>>
      BY <1>7 DEF NextItem
    <2>2. AreQuiet(node) /\ AreQuiet(Rest)
      BY <2>1, LoopsAreQuiet, OneCall DEF Rest
    <2> QED BY <2>1, <2>2, QuietTogether, NothingHashed
  <1>8. CASE HashItem
    BY <1>8, HashItemKeeps
  <1>9. CASE ItemHashed
    BY <1>9, ItemHashedKeeps
  <1>10. CASE SortItems
    <2>1. PICK todo : Continue(Loop("items", Here.path, todo))
      BY <1>10 DEF SortItems
    <2>2. calls # <<>> /\ UNCHANGED <<context, tokens>>
      BY <1>10 DEF SortItems
    <2> QED BY <2>1, <2>2, LoopsAreQuiet, NothingHashed
  <1>11. CASE FingerprintText
    <2>1. PICK texts : texts = <<texts[1], texts[2]>> /\ FingerprintString(texts)
      BY <1>11 DEF FingerprintText
    <2>2. calls # <<>> /\ Here.do = "fields" /\ Continue(Rest)
      BY <1>11 DEF FingerprintText, AtField
    <2>3. IsSeq(texts)
      BY <2>1 DEF IsSeq
    <2>4. AreQuiet(Rest)
      BY <2>2, LoopsAreQuiet DEF Rest
    <2> QED BY <2>1, <2>2, <2>3, <2>4, TextsHashed
  <1>12. CASE FingerprintField
    BY <1>12, FingerprintFieldKeeps
  <1>13. CASE CloseField
    BY <1>13, CloseFieldKeeps
  <1>14. CASE FinishQuery
    BY <1>14 DEF FinishQuery, IInv, StackInv, OnePrints, FirstCall, NewContext, Call, IsSeq,
         IsClosing, HasPrinted, IsPrinting, TokensSpellFingerprint
  <1>15. CASE UNCHANGED vars
    BY <1>15 DEF vars, IInv, StackInv, OnePrints, TokensSpellFingerprint
  <1> QED BY <1>1, <1>2, <1>3, <1>4, <1>5, <1>6, <1>7, <1>8, <1>9, <1>10, <1>11, <1>12,
             <1>13, <1>14, <1>15 DEF Next

(* The invariant of the walk, for every query and every order of hashes:   *)
(* pg_query_fingerprint.c takes back no token but the name it has just     *)
(* added, and hashes the items of a list without printing.                 *)
THEOREM FingerprintInvariant == Spec => []IInv
  BY InitInv, NextKeeps, PTL DEF Spec

(* What is printed is what is hashed: with printTokens,                    *)
(* pg_query_fingerprint_with_opts prints the very tokens that the          *)
(* fingerprint it returns was made from.                                   *)
THEOREM TokensAreHashed == Spec => []TokensSpellFingerprint
  <1>1. IInv => TokensSpellFingerprint
    BY DEF IInv
  <1> QED BY <1>1, FingerprintInvariant, PTL
-----------------------------------------------------------------------------
(* The contexts that wait are on the stack in the order in which they were *)
(* left: the last of them is the one that the walk began with, which       *)
(* prints, and the others print nothing.                                   *)
Waits(stack, i) == i \in 1..Len(stack) /\ stack[i].do = "hashed"
LastWaits(stack, i) == \A j \in 1..Len(stack) : j > i => ~Waits(stack, j)

FirstPrints ==
  /\ context.write_tokens <=> \A i \in 1..Len(calls) : ~Waits(calls, i)
  /\ \A i \in 1..Len(calls) : Waits(calls, i) => (calls[i].ctx.write_tokens <=> LastWaits(calls, i))

TInv == IInv /\ FirstPrints /\ IsSeq(tokens) /\ order \in HashOrders /\ tree \in Queries

(* Where the calls go in a step.                                           *)
LEMMA WhereCallsGo ==
  ASSUME IsSeq(calls), calls # <<>>, NEW first, IsSeq(first), Continue(first)
  PROVE  /\ Len(first) \in Nat /\ Len(calls) \in Nat /\ Len(calls) >= 1
         /\ Len(calls') = Len(first) + Len(calls) - 1
         /\ \A i \in 1..Len(first) : calls'[i] = first[i]
         /\ \A i \in 2..Len(calls) : LET j == i + Len(first) - 1 IN
              j \in 1..Len(calls') /\ j > Len(first) /\ calls'[j] = calls[i]
         /\ \A j \in 1..Len(calls') : j > Len(first) =>
              \E i \in 2..Len(calls) : j = i + Len(first) - 1
  <1>1. Len(calls) \in Nat /\ Len(first) \in Nat /\ Len(calls) >= 1
    BY TailOf DEF IsSeq
  <1>2. /\ Len(calls') = Len(first) + Len(calls) - 1
        /\ \A i \in 1..Len(first) : calls'[i] = first[i]
        /\ \A j \in 1..Len(calls') :
              j > Len(first) => calls'[j] = calls[j - Len(first) + 1]
    BY WhereCallsAreFrom
  <1>3. ASSUME NEW i \in 2..Len(calls)
        PROVE  /\ i + Len(first) - 1 \in 1..Len(calls') /\ i + Len(first) - 1 > Len(first)
               /\ calls'[i + Len(first) - 1] = calls[i]
    <2> DEFINE j == i + Len(first) - 1
    <2>1. j \in 1..Len(calls') /\ j > Len(first) /\ j - Len(first) + 1 = i
      BY <1>1, <1>2
    <2> HIDE DEF j
    <2>2. calls'[j] = calls[i]
      BY <1>2, <2>1
    <2> QED BY <2>1, <2>2 DEF j
  <1>4. ASSUME NEW j \in 1..Len(calls'), j > Len(first)
        PROVE  \E i \in 2..Len(calls) : j = i + Len(first) - 1
    <2>1. j - Len(first) + 1 \in 2..Len(calls) /\ j = (j - Len(first) + 1) + Len(first) - 1
      BY <1>1, <1>2, <1>4
    <2> QED BY <2>1
  <1> QED BY <1>1, <1>2, <1>3, <1>4

(* The contexts that wait behind what is at hand wait on.                  *)
LEMMA WaitOn ==
  ASSUME IsSeq(calls), calls # <<>>, NEW first, IsSeq(first), Continue(first),
         NEW i \in 2..Len(calls)
  PROVE  LET j == i + Len(first) - 1 IN
           /\ j \in 1..Len(calls')
           /\ Waits(calls', j) <=> Waits(calls, i)
           /\ LastWaits(calls', j) <=> LastWaits(calls, i)
  <1> DEFINE j == i + Len(first) - 1
  <1>1. /\ Len(first) \in Nat /\ Len(calls) \in Nat
        /\ \A k \in 2..Len(calls) : /\ k + Len(first) - 1 \in 1..Len(calls')
                                    /\ calls'[k + Len(first) - 1] = calls[k]
        /\ \A k \in 1..Len(calls') : k > Len(first) =>
              \E l \in 2..Len(calls) : k = l + Len(first) - 1
    BY WhereCallsGo
  <1>2. \A k \in 2..Len(calls) : Waits(calls', k + Len(first) - 1) <=> Waits(calls, k)
    BY <1>1 DEF Waits
  <1>3. ASSUME LastWaits(calls, i) PROVE LastWaits(calls', j)
    <2> SUFFICES ASSUME NEW m \in 1..Len(calls'), m > j PROVE ~Waits(calls', m)
      BY DEF LastWaits
    <2>0. m > Len(first)
      BY <1>1
    <2>1. PICK l \in 2..Len(calls) : m = l + Len(first) - 1
      BY <1>1, <2>0
    <2>2. l > i
      BY <1>1, <2>1
    <2> QED BY <1>2, <1>3, <2>1, <2>2 DEF LastWaits
  <1>4. ASSUME LastWaits(calls', j) PROVE LastWaits(calls, i)
    <2> SUFFICES ASSUME NEW l \in 1..Len(calls), l > i PROVE ~Waits(calls, l)
      BY DEF LastWaits
    <2>1. l \in 2..Len(calls) /\ l + Len(first) - 1 > j
      BY <1>1
    <2> QED BY <1>1, <1>2, <1>4, <2>1 DEF LastWaits
  <1> QED BY <1>1, <1>2, <1>3, <1>4

(* A step that leaves no context and comes back to none.                   *)
LEMMA StillFirstPrints ==
  ASSUME IInv, FirstPrints, calls # <<>>, Here.do # "hashed",
         NEW first, AreQuiet(first), Continue(first),
         context'.write_tokens = context.write_tokens
  PROVE  FirstPrints'
  <1>1. IsSeq(calls) /\ IsSeq(first) /\ Here = calls[1] /\ ~Waits(calls, 1)
    BY TailOf DEF IInv, StackInv, AreQuiet, IsSeq, Here, Waits
  <1>2. /\ Len(first) \in Nat /\ Len(calls) \in Nat
        /\ \A i \in 1..Len(first) : calls'[i] = first[i]
        /\ \A k \in 1..Len(calls') : k > Len(first) =>
              \E l \in 2..Len(calls) : k = l + Len(first) - 1
        /\ Len(calls') = Len(first) + Len(calls) - 1
    BY <1>1, WhereCallsGo
  <1>3. \A k \in 1..Len(first) : ~Waits(calls', k)
    BY <1>2 DEF AreQuiet, IsQuiet, Waits
  <1>4. \A i \in 2..Len(calls) : LET j == i + Len(first) - 1 IN
          /\ j \in 1..Len(calls') /\ (Waits(calls', j) <=> Waits(calls, i)) /\ (LastWaits(calls', j) <=> LastWaits(calls, i))
          /\ calls'[j] = calls[i]
    BY <1>1, WaitOn, WhereCallsGo
  <1>5. ASSUME NEW k \in 1..Len(calls'), Waits(calls', k)
        PROVE  \E i \in 2..Len(calls) : k = i + Len(first) - 1
    BY <1>2, <1>3, <1>5
  <1>6. (\A k \in 1..Len(calls') : ~Waits(calls', k)) <=> \A i \in 1..Len(calls) : ~Waits(calls, i)
    <2>1. ASSUME NEW i \in 1..Len(calls), Waits(calls, i)
          PROVE  \E k \in 1..Len(calls') : Waits(calls', k)
      <3>1. i \in 2..Len(calls)
        BY <1>1, <1>2, <2>1
      <3> QED BY <1>4, <2>1, <3>1
    <2>2. ASSUME NEW k \in 1..Len(calls'), Waits(calls', k)
          PROVE  \E i \in 1..Len(calls) : Waits(calls, i)
      <3>1. PICK i \in 2..Len(calls) : k = i + Len(first) - 1
        BY <1>5, <2>2
      <3>2. Waits(calls, i) /\ i \in 1..Len(calls)
        BY <1>2, <1>4, <2>2, <3>1
      <3> QED BY <3>2
    <2> QED BY <2>1, <2>2
  <1>7. ASSUME NEW k \in 1..Len(calls'), Waits(calls', k)
        PROVE  calls'[k].ctx.write_tokens <=> LastWaits(calls', k)
    <2>1. PICK i \in 2..Len(calls) : k = i + Len(first) - 1
      BY <1>5, <1>7
    <2>2. i \in 1..Len(calls) /\ Waits(calls, i) /\ calls'[k] = calls[i] /\ (LastWaits(calls', k) <=> LastWaits(calls, i))
      BY <1>2, <1>4, <1>7, <2>1
    <2> QED BY <2>2 DEF FirstPrints
  <1> QED BY <1>6, <1>7 DEF FirstPrints

LEMMA HashItemKeepsFirst == IInv /\ FirstPrints /\ HashItem => FirstPrints'
  <1> SUFFICES ASSUME IInv, FirstPrints, HashItem PROVE FirstPrints'
    OBVIOUS
  <1> DEFINE hashed == [do |-> "hashed", path |-> Inner, ctx |-> context]
             two == <<Call("node", Inner), hashed>>
             first == two \o Rest
  <1>1. calls # <<>> /\ Here.do = "hash" /\ Continue(first) /\ context'.write_tokens = FALSE
    BY DEF HashItem, NewContext
  <1>2. AreQuiet(Rest) /\ IsSeq(Rest)
    BY <1>1, LoopsAreQuiet DEF Rest, AreQuiet
  <1>3. IsSeq(two) /\ Len(two) = 2 /\ two[1] = Call("node", Inner) /\ two[2] = hashed
    BY DEF IsSeq
  <1> HIDE DEF two
  <1>4. /\ IsSeq(first) /\ Len(first) = 2 + Len(Rest)
        /\ first[1] = Call("node", Inner) /\ first[2] = hashed
        /\ \A i \in 1..Len(Rest) : first[2 + i] = Rest[i]
    <2>1. /\ IsSeq(first) /\ Len(first) = Len(two) + Len(Rest)
          /\ \A i \in 1..Len(two) : first[i] = two[i]
          /\ \A i \in 1..Len(Rest) : first[Len(two) + i] = Rest[i]
      <3>1. IsSeq(two) /\ IsSeq(Rest)
        BY <1>2, <1>3
      <3> QED BY <3>1, Concatenated
    <2> HIDE DEF first
    <2> QED BY <1>3, <2>1
  <1> HIDE DEF first
  <1>5. IsSeq(calls) /\ Here = calls[1] /\ ~Waits(calls, 1) /\ Len(Rest) \in Nat
    BY <1>1, <1>2, TailOf DEF IInv, StackInv, IsSeq, Here, Waits
  <1>6. /\ Len(first) \in Nat /\ Len(calls) \in Nat /\ Len(calls) >= 1
        /\ \A i \in 1..Len(first) : calls'[i] = first[i]
        /\ \A k \in 1..Len(calls') : k > Len(first) =>
              \E l \in 2..Len(calls) : k = l + Len(first) - 1
        /\ Len(calls') = Len(first) + Len(calls) - 1
    BY <1>1, <1>4, <1>5, WhereCallsGo
  <1>7. ASSUME NEW k \in 1..Len(first), k # 2 PROVE ~Waits(calls', k)
    <2>1. CASE k = 1
      BY <1>4, <1>6, <2>1 DEF Waits, Call
    <2>2. CASE k > 2
      <3>1. k - 2 \in 1..Len(Rest) /\ k = 2 + (k - 2)
        BY <1>4, <1>5, <2>2
      <3>2. calls'[k] = Rest[k - 2]
        BY <1>4, <1>6, <3>1
      <3> QED BY <1>2, <3>1, <3>2 DEF AreQuiet, IsQuiet, Waits
    <2> QED BY <1>4, <1>5, <1>7, <2>1, <2>2
  <1>8. \A i \in 2..Len(calls) : LET j == i + Len(first) - 1 IN
          /\ j \in 1..Len(calls') /\ (Waits(calls', j) <=> Waits(calls, i)) /\ (LastWaits(calls', j) <=> LastWaits(calls, i))
          /\ calls'[j] = calls[i]
    BY <1>1, <1>4, <1>5, WaitOn, WhereCallsGo
  <1>9. 2 \in 1..Len(calls') /\ calls'[2] = hashed /\ Waits(calls', 2)
    <2>1. 2 \in 1..Len(first)
      BY <1>4, <1>5
    <2>2. 2 \in 1..Len(calls') /\ calls'[2] = hashed
      BY <1>4, <1>6, <2>1
    <2> QED BY <2>2 DEF Waits
  <1>10. hashed.ctx.write_tokens <=> LastWaits(calls', 2)
    <2>1. ASSUME NEW i \in 1..Len(calls), Waits(calls, i) PROVE ~LastWaits(calls', 2)
      <3>1. i \in 2..Len(calls)
        BY <1>5, <1>6, <2>1
      <3>2. i + Len(first) - 1 \in 1..Len(calls') /\ Waits(calls', i + Len(first) - 1)
        BY <1>8, <2>1, <3>1
      <3>3. i + Len(first) - 1 > 2
        BY <1>4, <1>5, <3>1
      <3> QED BY <3>2, <3>3 DEF LastWaits
    <2>2. ASSUME NEW k \in 1..Len(calls'), k > 2, Waits(calls', k)
          PROVE  \E i \in 1..Len(calls) : Waits(calls, i)
      <3>1. k > Len(first)
        BY <1>6, <1>7, <2>2
      <3>2. PICK i \in 2..Len(calls) : k = i + Len(first) - 1
        BY <1>6, <3>1
      <3>3. Waits(calls, i) /\ i \in 1..Len(calls)
        BY <1>6, <1>8, <2>2, <3>2
      <3> QED BY <3>3
    <2>3. LastWaits(calls', 2) <=> \A i \in 1..Len(calls) : ~Waits(calls, i)
      BY <2>1, <2>2 DEF LastWaits
    <2> QED BY <2>3 DEF FirstPrints
  <1> HIDE DEF hashed
  <1>11. ASSUME NEW k \in 1..Len(calls'), Waits(calls', k)
         PROVE  calls'[k].ctx.write_tokens <=> LastWaits(calls', k)
    <2>1. CASE k = 2
      BY <1>9, <1>10, <2>1
    <2>2. CASE k # 2
      <3>1. k > Len(first)
        BY <1>6, <1>7, <1>11, <2>2
      <3>2. PICK i \in 2..Len(calls) : k = i + Len(first) - 1
        BY <1>6, <3>1
      <3>3. i \in 1..Len(calls) /\ Waits(calls, i) /\ calls'[k] = calls[i]
            /\ (LastWaits(calls', k) <=> LastWaits(calls, i))
        BY <1>6, <1>8, <1>11, <3>2
      <3> QED BY <3>3 DEF FirstPrints
    <2> QED BY <2>1, <2>2
  <1> QED BY <1>1, <1>9, <1>11 DEF FirstPrints

LEMMA ItemHashedKeepsFirst == IInv /\ FirstPrints /\ ItemHashed => FirstPrints'
  <1> SUFFICES ASSUME IInv, FirstPrints, ItemHashed PROVE FirstPrints'
    OBVIOUS
  <1>1. calls # <<>> /\ Here.do = "hashed" /\ Continue(<<>>) /\ context' = Here.ctx
    BY DEF ItemHashed
  <1>2. /\ IsSeq(calls) /\ IsSeq(<<>>) /\ Len(<<>>) = 0 /\ Here = calls[1]
        /\ 1 \in 1..Len(calls) /\ Waits(calls, 1)
    BY <1>1, TailOf DEF IInv, StackInv, IsSeq, Here, Waits
  <1>3. /\ Len(calls) \in Nat
        /\ \A k \in 1..Len(calls') : \E i \in 2..Len(calls) : k = i - 1
        /\ \A i \in 2..Len(calls) : calls'[i - 1] = calls[i]
    BY <1>1, <1>2, WhereCallsGo
  <1>4. \A i \in 2..Len(calls) :
          /\ i - 1 \in 1..Len(calls') /\ (Waits(calls', i - 1) <=> Waits(calls, i))
          /\ (LastWaits(calls', i - 1) <=> LastWaits(calls, i))
    <2>1. \A i \in 2..Len(calls) : i + Len(<<>>) - 1 = i - 1
      BY <1>2, <1>3
    <2> QED BY <1>1, <1>2, <2>1, WaitOn
  <1>5. LastWaits(calls, 1) <=> \A k \in 1..Len(calls') : ~Waits(calls', k)
    <2>1. ASSUME LastWaits(calls, 1), NEW k \in 1..Len(calls') PROVE ~Waits(calls', k)
      <3>1. PICK i \in 2..Len(calls) : k = i - 1
        BY <1>3
      <3>2. i \in 1..Len(calls) /\ i > 1
        BY <1>3, <3>1
      <3> QED BY <1>4, <2>1, <3>1, <3>2 DEF LastWaits
    <2>2. ASSUME NEW i \in 1..Len(calls), i > 1, Waits(calls, i)
          PROVE  \E k \in 1..Len(calls') : Waits(calls', k)
      <3>1. i \in 2..Len(calls)
        BY <1>3, <2>2
      <3> QED BY <1>4, <2>2, <3>1
    <2> QED BY <2>1, <2>2 DEF LastWaits
  <1>6. ASSUME NEW k \in 1..Len(calls'), Waits(calls', k)
        PROVE  calls'[k].ctx.write_tokens <=> LastWaits(calls', k)
    <2>1. PICK i \in 2..Len(calls) : k = i - 1
      BY <1>3
    <2>2. i \in 1..Len(calls) /\ Waits(calls, i) /\ calls'[k] = calls[i]
          /\ (LastWaits(calls', k) <=> LastWaits(calls, i))
      BY <1>3, <1>4, <1>6, <2>1
    <2> QED BY <2>2 DEF FirstPrints
  <1>7. context'.write_tokens <=> \A k \in 1..Len(calls') : ~Waits(calls', k)
    BY <1>1, <1>2, <1>5 DEF FirstPrints
  <1> QED BY <1>6, <1>7 DEF FirstPrints

(* A step within the context at hand.                                      *)
StepInContext ==
  /\ calls # <<>> /\ Here.do # "hashed"
  /\ \E first : AreQuiet(first) /\ Continue(first)
  /\ context'.write_tokens = context.write_tokens
  /\ context.write_tokens \/ tokens' = tokens

LEMMA TextsInContext ==
  ASSUME NEW texts, FingerprintString(texts)
  PROVE  /\ context'.write_tokens = context.write_tokens
         /\ context.write_tokens \/ tokens' = tokens
  BY DEF FingerprintString

LEMMA StepsInContext ==
  ASSUME IInv,
         \/ IgnoreNode \/ FingerprintValue \/ FingerprintMessage \/ FingerprintStruct
         \/ FingerprintList \/ FingerprintCachedList \/ FingerprintNewList
         \/ NextItem \/ SortItems \/ FingerprintText \/ FingerprintField \/ CloseField
  PROVE  StepInContext
  <1>0. UNCHANGED <<context, tokens>> =>
          /\ context'.write_tokens = context.write_tokens
          /\ context.write_tokens \/ tokens' = tokens
    OBVIOUS
  <1>1. CASE IgnoreNode
    BY <1>0, <1>1, NoCalls DEF IgnoreNode, AtNode, StepInContext
  <1>2. CASE FingerprintValue
    <2>1. calls # <<>> /\ Here.do = "node" /\ Continue(<<>>)
          /\ FingerprintString(ValueTexts(At(Here.path).node))
      BY <1>2 DEF FingerprintValue, AtNode
    <2> QED BY <2>1, NoCalls, TextsInContext DEF StepInContext
  <1>3. CASE FingerprintMessage
    <2>1. calls # <<>> /\ Here.do = "node" /\ Continue(FieldLoop(Here.path))
          /\ FingerprintString(<<At(Here.path).node.tag>>)
      BY <1>3 DEF FingerprintMessage, AtNode
    <2>2. AreQuiet(FieldLoop(Here.path))
      BY LoopsAreQuiet DEF FieldLoop
    <2> QED BY <2>1, <2>2, TextsInContext DEF StepInContext
  <1>4. CASE FingerprintStruct
    <2>1. AreQuiet(FieldLoop(Here.path))
      BY LoopsAreQuiet DEF FieldLoop
    <2> QED BY <1>0, <1>4, <2>1 DEF FingerprintStruct, StepInContext
  <1>5. CASE FingerprintList \/ FingerprintCachedList
    <2>1. PICK todo : Continue(Loop("items", Here.path, todo))
      BY <1>5 DEF FingerprintList, FingerprintCachedList
    <2>2. calls # <<>> /\ Here.do = "node" /\ UNCHANGED <<context, tokens>>
      BY <1>5 DEF FingerprintList, FingerprintCachedList, AtList, AtNode
    <2> QED BY <1>0, <2>1, <2>2, LoopsAreQuiet DEF StepInContext
  <1>6. CASE FingerprintNewList
    <2> DEFINE loop == Loop("hash", Here.path, Positions(Here.path))
               sort == <<Call("sort", Here.path)>>
    <2>1. calls # <<>> /\ Here.do = "node" /\ Continue(loop \o sort)
          /\ UNCHANGED <<context, tokens>>
      BY <1>6 DEF FingerprintNewList, AtList, AtNode
    <2>2. AreQuiet(loop) /\ AreQuiet(sort)
      BY LoopsAreQuiet, OneCall
    <2>3. AreQuiet(loop \o sort)
      BY <2>2, QuietTogether
    <2> QED BY <1>0, <2>1, <2>3 DEF StepInContext
  <1>7. CASE NextItem
    <2> DEFINE node == <<Call("node", Inner)>>
    <2>1. calls # <<>> /\ Here.do = "items" /\ Continue(node \o Rest)
          /\ UNCHANGED <<context, tokens>>
      BY <1>7 DEF NextItem
    <2>2. AreQuiet(node) /\ AreQuiet(Rest)
      BY <2>1, LoopsAreQuiet, OneCall DEF Rest
    <2>3. AreQuiet(node \o Rest)
      BY <2>2, QuietTogether
    <2> QED BY <1>0, <2>1, <2>3 DEF StepInContext
  <1>8. CASE SortItems
    <2>1. PICK todo : Continue(Loop("items", Here.path, todo))
      BY <1>8 DEF SortItems
    <2>2. calls # <<>> /\ Here.do = "sort" /\ UNCHANGED <<context, tokens>>
      BY <1>8 DEF SortItems
    <2> QED BY <1>0, <2>1, <2>2, LoopsAreQuiet DEF StepInContext
  <1>9. CASE FingerprintText
    <2>1. PICK texts : FingerprintString(texts)
      BY <1>9 DEF FingerprintText
    <2>2. calls # <<>> /\ Here.do = "fields" /\ Continue(Rest)
      BY <1>9 DEF FingerprintText, AtField
    <2>3. AreQuiet(Rest)
      BY <2>2, LoopsAreQuiet DEF Rest
    <2> QED BY <2>1, <2>2, <2>3, TextsInContext DEF StepInContext
  <1>10. CASE FingerprintField
    <2>1. calls # <<>> /\ Here.do = "fields"
      BY <1>10 DEF FingerprintField, AtField
    <2> DEFINE name == At(Inner).field_name
    <2>2. PICK how \in {"node", "struct"} :
            /\ FingerprintString(<<name>>)
            /\ Continue(<<Call(how, Inner),
                          [do |-> "close", path |-> Inner, prev |-> context.hash,
                           hash |-> Append(context.hash, name)]>> \o Rest)
      BY <1>10 DEF FingerprintField
    <2> HIDE DEF name
    <2>3. AreQuiet(<<Call(how, Inner),
                     [do |-> "close", path |-> Inner, prev |-> context.hash,
                      hash |-> Append(context.hash, name)]>>)
      BY CallsOfAField
    <2>4. AreQuiet(Rest)
      BY <2>1, LoopsAreQuiet DEF Rest
    <2> QED BY <2>1, <2>2, <2>3, <2>4, QuietTogether, TextsInContext DEF StepInContext
  <1>11. CASE CloseField
    <2>1. calls # <<>> /\ Here.do = "close" /\ Continue(<<>>)
      BY <1>11 DEF CloseField
    <2>2. /\ context'.write_tokens = context.write_tokens
          /\ context.write_tokens \/ tokens' = tokens
      BY <1>0, <1>11 DEF CloseField, IInv
    <2> QED BY <2>1, <2>2, NoCalls DEF StepInContext
  <1> QED BY <1>1, <1>2, <1>3, <1>4, <1>5, <1>6, <1>7, <1>8, <1>9, <1>10, <1>11

LEMMA TInvInit == Init => TInv
  <1> SUFFICES ASSUME Init PROVE TInv
    OBVIOUS
  <1>1. IInv /\ order \in HashOrders /\ tree \in Queries /\ IsSeq(tokens)
    BY InitInv DEF Init, IsSeq
  <1>2. FirstPrints
    BY DEF Init, FirstPrints, FirstCall, NewContext, Call, Waits
  <1> QED BY <1>1, <1>2 DEF TInv

LEMMA TInvStep == TInv /\ [Next]_vars => TInv'
  <1> SUFFICES ASSUME TInv, [Next]_vars PROVE TInv'
    OBVIOUS
  <1>1. IInv /\ IInv' /\ FirstPrints /\ IsSeq(tokens)
    BY NextKeeps DEF TInv
  <1>2. context'.write_tokens \/ tokens' = tokens => IsSeq(tokens')
    BY <1>1 DEF IInv, TokensSpellFingerprint
  <1>3. order' \in HashOrders /\ tree' \in Queries
    BY DEF TInv, Next, vars, IgnoreNode, FingerprintValue, FingerprintMessage,
           FingerprintStruct, FingerprintList, FingerprintCachedList, FingerprintNewList,
           NextItem, HashItem, ItemHashed, SortItems, FingerprintText, FingerprintField,
           CloseField, FinishQuery
  <1>4. CASE HashItem
    BY <1>1, <1>2, <1>3, <1>4, HashItemKeepsFirst DEF TInv, HashItem
  <1>5. CASE ItemHashed
    BY <1>1, <1>2, <1>3, <1>5, ItemHashedKeepsFirst DEF TInv, ItemHashed
  <1>6. CASE \/ IgnoreNode \/ FingerprintValue \/ FingerprintMessage \/ FingerprintStruct
             \/ FingerprintList \/ FingerprintCachedList \/ FingerprintNewList
             \/ NextItem \/ SortItems \/ FingerprintText \/ FingerprintField \/ CloseField
    <2>1. StepInContext
      BY <1>1, <1>6, StepsInContext
    <2>2. FirstPrints'
      BY <1>1, <2>1, StillFirstPrints DEF StepInContext
    <2> QED BY <1>1, <1>2, <1>3, <2>1, <2>2 DEF TInv, StepInContext
  <1>7. CASE FinishQuery
    <2>1. /\ calls' = FirstCall /\ context' = NewContext(TRUE) /\ tokens' = <<>>
      BY <1>7 DEF FinishQuery
    <2>2. FirstPrints' /\ IsSeq(tokens')
      BY <2>1 DEF FirstPrints, FirstCall, NewContext, Call, Waits, IsSeq
    <2> QED BY <1>1, <1>3, <2>2 DEF TInv
  <1>8. CASE UNCHANGED vars
    BY <1>1, <1>2, <1>3, <1>8 DEF vars, TInv, FirstPrints, Waits, LastWaits
  <1> QED BY <1>4, <1>5, <1>6, <1>7, <1>8 DEF Next

(* The variables keep their types, and the walk ends in the context that   *)
(* prints (pg_query_fingerprint.c:232-245): those made for the items of a  *)
(* list are all left by then.                                              *)
THEOREM TypeCorrect == Spec => []TypeOK
  <1>1. TInv => TypeOK
    <2> SUFFICES ASSUME TInv PROVE TypeOK
      OBVIOUS
    <2>1. /\ Len(calls) \in Nat /\ Len(tokens) \in Nat /\ Len(context.hash) \in Nat
          /\ context.write_tokens \in BOOLEAN
      BY DEF TInv, IInv, StackInv, IsSeq
    <2>2. calls = <<>> => context.write_tokens
      BY DEF TInv, FirstPrints
    <2> QED BY <2>1, <2>2 DEF TInv, TypeOK
  <1> QED BY <1>1, TInvInit, TInvStep, PTL DEF Spec
-----------------------------------------------------------------------------
(* The work.  A number of a set that is not empty has a least one.         *)
LEMMA LeastNumber ==
  ASSUME NEW T \in SUBSET Nat, T # {}
  PROVE  \E n \in T : \A m \in T : n <= m
  <1>1. PICK n \in T : \A m \in T : <<m, n>> \notin OpToRel(<, Nat)
    BY NatLessThanWellFounded, WFMin
  <1>2. \A m \in T : ~(m < n)
    BY <1>1 DEF OpToRel
  <1> QED BY <1>2

LEMMA FromZeroUp ==
  ASSUME NEW N \in Nat, NEW T, 0 \in T, \A n \in 1..N : n - 1 \in T => n \in T
  PROVE  N \in T
  <1> DEFINE Bad == {n \in 0..N : n \notin T}
  <1> SUFFICES ASSUME Bad # {} PROVE FALSE
    OBVIOUS
  <1>1. PICK n \in Bad : \A m \in Bad : n <= m
    <2>1. Bad \in SUBSET Nat
      OBVIOUS
    <2> HIDE DEF Bad
    <2> QED BY <2>1, LeastNumber
  <1>2. n \in 1..N /\ n - 1 \in 0..N /\ n - 1 \notin Bad
    BY <1>1
  <1> QED BY <1>1, <1>2

(* What InTurn puts together, up to n.                                     *)
Turn(t, positions, n) ==
  t = [i \in 0..n |-> IF i = 0 THEN <<>>
                      ELSE IF i \in positions THEN Append(t[i - 1], i) ELSE t[i - 1]]

LEMMA TurnExists ==
  ASSUME NEW positions, NEW N \in Nat
  PROVE  \E t : Turn(t, positions, N)
  <1> DEFINE T == {n \in Nat : \E t : Turn(t, positions, n)}
  <1>1. 0 \in T
    <2>1. Turn([i \in 0..0 |-> <<>>], positions, 0)
      BY DEF Turn
    <2> QED BY <2>1
  <1>2. ASSUME NEW n \in 1..N, n - 1 \in T PROVE n \in T
    <2>1. PICK s : Turn(s, positions, n - 1)
      BY <1>2
    <2> DEFINE last == IF n \in positions THEN Append(s[n - 1], n) ELSE s[n - 1]
               t == [i \in 0..n |-> IF i = n THEN last ELSE s[i]]
    <2>2. ASSUME NEW i \in 0..n
          PROVE  t[i] = IF i = 0 THEN <<>>
                        ELSE IF i \in positions THEN Append(t[i - 1], i) ELSE t[i - 1]
      <3>1. CASE i = n
        BY <3>1
      <3>2. CASE i # n
        <4>1. i \in 0..(n - 1)
          BY <3>2
        <4>2. s[i] = IF i = 0 THEN <<>>
                     ELSE IF i \in positions THEN Append(s[i - 1], i) ELSE s[i - 1]
          BY <2>1, <4>1 DEF Turn
        <4> QED BY <3>2, <4>1, <4>2
      <3> QED BY <3>1, <3>2
    <2>3. t = [i \in 0..n |-> IF i = 0 THEN <<>>
                 ELSE IF i \in positions THEN Append(t[i - 1], i) ELSE t[i - 1]]
      BY <2>2
    <2>4. Turn(t, positions, n)
      BY <2>3 DEF Turn
    <2> QED BY <2>4
  <1> HIDE DEF T
  <1>3. N \in T
    BY <1>1, <1>2, FromZeroUp
  <1> QED BY <1>3 DEF T

LEMMA InTurnIs ==
  ASSUME NEW positions, NEW N \in Nat
  PROVE  \E t : Turn(t, positions, N) /\ InTurn(positions, N) = t[N]
  <1> DEFINE Is(t) == t = [i \in 0..N |->
                 IF i = 0 THEN <<>>
                 ELSE IF i \in positions THEN Append(t[i - 1], i) ELSE t[i - 1]]
  <1>1. InTurn(positions, N) = (CHOOSE t : Is(t))[N]
    BY DEF InTurn
  <1>2. \A t : Is(t) <=> Turn(t, positions, N)
    BY Zenon DEF Turn
  <1>3. \E t : Turn(t, positions, N)
    BY TurnExists
  <1> HIDE DEF Is
  <1>4. Is(CHOOSE t : Is(t))
    BY <1>2, <1>3
  <1> QED BY <1>1, <1>2, <1>4

Ascends(s, positions, n) ==
  /\ s \in Seq(Nat)
  /\ \A i \in 1..Len(s) : s[i] \in positions /\ s[i] \in 1..n
  /\ \A i, j \in 1..Len(s) : s[i] = s[j] => i = j

LEMMA InTurnAscends ==
  ASSUME NEW positions, NEW N \in Nat
  PROVE  Ascends(InTurn(positions, N), positions, N)
  <1>1. PICK t : Turn(t, positions, N) /\ InTurn(positions, N) = t[N]
    BY InTurnIs
  <1>2. /\ t[0] = <<>>
        /\ \A n \in 1..N : t[n] = IF n \in positions THEN Append(t[n - 1], n) ELSE t[n - 1]
    <2>1. \A i \in 0..N : t[i] = IF i = 0 THEN <<>>
            ELSE IF i \in positions THEN Append(t[i - 1], i) ELSE t[i - 1]
      BY <1>1, Zenon DEF Turn
    <2>2. 0 \in 0..N /\ \A n \in 1..N : n \in 0..N /\ n # 0
      OBVIOUS
    <2> QED BY <2>1, <2>2
  <1> DEFINE T == {n \in 0..N : Ascends(t[n], positions, n)}
  <1>3. 0 \in T
    <2>1. Ascends(<<>>, positions, 0)
      BY DEF Ascends
    <2> QED BY <1>2, <2>1
  <1>4. ASSUME NEW n \in 1..N, n - 1 \in T PROVE n \in T
    <2> DEFINE s == t[n - 1]
    <2>1. Ascends(s, positions, n - 1) /\ n \in 0..N /\ n \in Nat
      BY <1>4
    <2>2. t[n] = IF n \in positions THEN Append(s, n) ELSE s
      BY <1>2
    <2> HIDE DEF s
    <2>3. CASE n \in positions
      <3>1. Append(s, n) \in Seq(Nat) /\ Len(Append(s, n)) = Len(s) + 1 /\ Len(s) \in Nat
        BY <2>1 DEF Ascends
      <3>2. ASSUME NEW i \in 1..(Len(s) + 1)
            PROVE  Append(s, n)[i] = IF i <= Len(s) THEN s[i] ELSE n
        BY <2>1, <3>1 DEF Ascends
      <3> DEFINE u == Append(s, n)
      <3>3. ASSUME NEW i \in 1..Len(u)
            PROVE  u[i] \in positions /\ u[i] \in 1..n
        BY <2>1, <2>3, <3>1, <3>2 DEF Ascends
      <3>4. ASSUME NEW i \in 1..Len(u), NEW j \in 1..Len(u), u[i] = u[j]
            PROVE  i = j
        BY <2>1, <3>1, <3>2, <3>4 DEF Ascends
      <3>5. t[n] = u /\ u \in Seq(Nat)
        BY <2>2, <2>3, <3>1
      <3> HIDE DEF u
      <3>6. Ascends(u, positions, n)
        BY <3>3, <3>4, <3>5 DEF Ascends
      <3> QED BY <2>1, <3>5, <3>6
    <2>4. CASE n \notin positions
      BY <2>1, <2>2, <2>4 DEF Ascends
    <2> QED BY <2>3, <2>4
  <1> HIDE DEF T
  <1>5. N \in T
    BY <1>3, <1>4, FromZeroUp
  <1> QED BY <1>1, <1>5 DEF T
-----------------------------------------------------------------------------
(* What is at a path, and one segment further.                             *)
Root == [node |-> tree, parent |-> Null, field_name |-> "NULL"]

Descent(w, path, n) ==
  w = [k \in 0..n |-> IF k = 0 THEN Root ELSE Inside(w[k - 1], path[k])]

LEMMA DescentExists ==
  ASSUME NEW path, NEW N \in Nat
  PROVE  \E w : Descent(w, path, N)
  <1> DEFINE T == {n \in Nat : \E w : Descent(w, path, n)}
  <1>1. 0 \in T
    <2>1. Descent([k \in 0..0 |-> Root], path, 0)
      BY DEF Descent
    <2> QED BY <2>1
  <1>2. ASSUME NEW n \in 1..N, n - 1 \in T PROVE n \in T
    <2>1. PICK v : Descent(v, path, n - 1)
      BY <1>2
    <2> DEFINE last == Inside(v[n - 1], path[n])
               w == [k \in 0..n |-> IF k = n THEN last ELSE v[k]]
    <2>2. ASSUME NEW k \in 0..n
          PROVE  w[k] = IF k = 0 THEN Root ELSE Inside(w[k - 1], path[k])
      <3>1. CASE k = n
        BY <3>1
      <3>2. CASE k # n
        <4>1. k \in 0..(n - 1)
          BY <3>2
        <4>2. v[k] = IF k = 0 THEN Root ELSE Inside(v[k - 1], path[k])
          BY <2>1, <4>1 DEF Descent
        <4> QED BY <3>2, <4>2
      <3> QED BY <3>1, <3>2
    <2>3. w = [k \in 0..n |-> IF k = 0 THEN Root ELSE Inside(w[k - 1], path[k])]
      BY <2>2
    <2>4. Descent(w, path, n)
      BY <2>3 DEF Descent
    <2> QED BY <2>4
  <1> HIDE DEF T
  <1>3. N \in T
    BY <1>1, <1>2, FromZeroUp
  <1> QED BY <1>3 DEF T

Descends(w, path, N) ==
  N \in Nat /\ w[0] = Root /\ \A k \in 1..N : w[k] = Inside(w[k - 1], path[k])

LEMMA AtIs ==
  ASSUME NEW path, NEW N \in Nat, Len(path) = N
  PROVE  \E w : Descends(w, path, N) /\ At(path) = w[N]
  <1> DEFINE Is(w) == w = [k \in 0..Len(path) |->
                             IF k = 0 THEN Root ELSE Inside(w[k - 1], path[k])]
  <1>1. At(path) = (CHOOSE w : Is(w))[Len(path)]
    BY DEF At, Root
  <1>2. \A w : Is(w) <=> Descent(w, path, N)
    BY Zenon DEF Descent
  <1>3. \E w : Descent(w, path, N)
    BY DescentExists
  <1> HIDE DEF Is
  <1>4. Is(CHOOSE w : Is(w))
    BY <1>2, <1>3
  <1>5. PICK w : Descent(w, path, N) /\ At(path) = w[N]
    BY <1>1, <1>2, <1>4
  <1>6. \A k \in 0..N : w[k] = IF k = 0 THEN Root ELSE Inside(w[k - 1], path[k])
    BY <1>5, Zenon DEF Descent
  <1>7. 0 \in 0..N /\ \A k \in 1..N : k \in 0..N /\ k # 0
    OBVIOUS
  <1>8. Descends(w, path, N)
    BY <1>6, <1>7 DEF Descends
  <1> QED BY <1>5, <1>8

LEMMA DescentsAgree ==
  ASSUME NEW p, NEW q, NEW v, NEW w, NEW N,
         Descends(v, p, N), Descends(w, q, N + 1), \A k \in 1..N : p[k] = q[k]
  PROVE  v[N] = w[N]
  <1> DEFINE T == {n \in 0..N : v[n] = w[n]}
  <1>a. N \in Nat
    BY DEF Descends
  <1>1. 0 \in T
    BY <1>a DEF Descends
  <1>2. ASSUME NEW n \in 1..N, n - 1 \in T PROVE n \in T
    <2>1. n \in 1..(N + 1) /\ n \in 0..N
      BY <1>a
    <2>2. v[n] = Inside(v[n - 1], p[n]) /\ w[n] = Inside(w[n - 1], q[n])
      BY <1>a, <2>1 DEF Descends
    <2> QED BY <1>a, <1>2, <2>1, <2>2
  <1> HIDE DEF T
  <1>3. N \in T
    BY <1>a, <1>1, <1>2, FromZeroUp
  <1> QED BY <1>3 DEF T

LEMMA AtRoot == At(<<>>) = Root
  <1>1. Len(<<>>) = 0
    OBVIOUS
  <1>2. PICK w : Descends(w, <<>>, 0) /\ At(<<>>) = w[0]
    BY <1>1, AtIs
  <1> QED BY <1>2 DEF Descends

LEMMA AtInside ==
  ASSUME NEW path \in Seq(Nat), NEW i \in Nat
  PROVE  At(Append(path, i)) = Inside(At(path), i)
  <1> DEFINE longer == Append(path, i)
             N == Len(path)
             M == N + 1
  <1>1. /\ N \in Nat /\ M \in Nat /\ Len(longer) = M
        /\ longer[M] = i /\ \A k \in 1..N : path[k] = longer[k]
    OBVIOUS
  <1> HIDE DEF longer, M
  <1>2. PICK v : Descends(v, path, N) /\ At(path) = v[N]
    BY <1>1, AtIs
  <1>3. PICK w : Descends(w, longer, M) /\ At(longer) = w[M]
    BY <1>1, AtIs
  <1> HIDE DEF N
  <1>4. v[N] = w[N]
    <2>1. Descends(w, longer, N + 1)
      BY <1>3 DEF M
    <2>2. \A k \in 1..N : path[k] = longer[k]
      BY <1>1
    <2> QED BY <1>2, <2>1, <2>2, DescentsAgree
  <1>5. w[M] = Inside(w[M - 1], longer[M]) /\ M - 1 = N
    <2>1. M \in 1..M /\ M - 1 = N
      BY <1>1 DEF M
    <2> QED BY <1>3, <2>1 DEF Descends
  <1> QED BY <1>1, <1>2, <1>3, <1>4, <1>5 DEF longer

LEMMA TreeStays ==
  ASSUME tree' = tree
  PROVE  \A path : At(path)' = At(path)
  BY Zenon DEF At
-----------------------------------------------------------------------------
(* What the proof about the work knows of the stack: each call is for a    *)
(* node that is there, the calls are nested, and what is still to come is  *)
(* counted with what was looked at.                                        *)
NodeAt(path) == At(path).node
IsMessage(path) == NodeAt(path) \in Nodes /\ NodeAt(path).tag \in DOMAIN FieldsOf
IsList(path) == NodeAt(path) \in Nodes /\ NodeAt(path).tag = "List"
IsInAnyOrder(path) == NodeAt(path).tag = "List" /\ At(path).field_name \in InAnyOrder
Size(path) == Len(NodeAt(path).items)

IsVisit(call) == call.do \in {"node", "struct"}
IsLoop(call) == call.do \in {"fields", "items", "hash"}
IsActive(call) == IsVisit(call) \/ IsLoop(call) \/ call.do = "sort"

IsField(path, i) ==
  /\ i \in DOMAIN FieldsOf[NodeAt(path).tag]
  /\ FieldsOf[NodeAt(path).tag][i].name \in DOMAIN NodeAt(path)

IsTodo(call) ==
  /\ IsSeq(call.todo) /\ call.todo # <<>>
  /\ \A i \in 1..Len(call.todo) : call.todo[i] \in Nat
  /\ \A i, j \in 1..Len(call.todo) : call.todo[i] = call.todo[j] => i = j

(* The items that are still to be hashed are the last ones of the list,    *)
(* and no more hashes are kept than there were items so far.               *)
IsHashing(call) ==
  /\ IsInAnyOrder(call.path) /\ call.path \in DOMAIN hashes
  /\ \A i \in 1..Len(call.todo) : call.todo[i] = Size(call.path) - Len(call.todo) + i
  /\ Len(hashes[call.path]) <= Size(call.path) - Len(call.todo)

IsHashed(call) ==
  \E path \in Seq(Nat), i \in Nat :
    /\ call.path = Append(path, i)
    /\ path \in DOMAIN hashes /\ Len(hashes[path]) < i /\ i <= Size(path)

IsSound(call) ==
  /\ call.path \in Seq(Nat)
  /\ call.do = "node" => NodeAt(call.path) \in Nodes
  /\ call.do = "struct" => IsMessage(call.path)
  /\ IsLoop(call) => IsTodo(call)
  /\ call.do = "fields" =>
       IsMessage(call.path) /\ \A i \in 1..Len(call.todo) : IsField(call.path, call.todo[i])
  /\ call.do \in {"items", "hash"} =>
       IsList(call.path) /\ \A i \in 1..Len(call.todo) : call.todo[i] \in 1..Size(call.path)
  /\ call.do = "hash" => IsHashing(call)
  /\ call.do = "sort" => call.path \in DOMAIN hashes
  /\ call.do = "hashed" => IsHashed(call)

(* Of two calls, the first above the second.                               *)
AreNested(c, d) ==
  /\ Len(d.path) <= Len(c.path)
  /\ IsActive(c) /\ IsActive(d) =>
       Len(d.path) < Len(c.path) \/ (c.do = "hash" /\ d.do = "sort")
  /\ c.do = "hashed" /\ d.do = "hashed" => Len(d.path) < Len(c.path)
  /\ IsVisit(c) /\ IsLoop(d) =>
       \A i \in 1..Len(d.todo) : c.path # Append(d.path, d.todo[i])
  /\ c.do = "hashed" /\ d.do = "hash" /\ Front(c.path) = d.path => Last(c.path) < d.todo[1]

CallsNest ==
  \A i, j \in 1..Len(calls) : i < j => AreNested(calls[i], calls[j])

(* A list has hashes from when it is first met, is sorted once, and has    *)
(* its items in the cache from then on.                                    *)
Sorts(path) == \E i \in 1..Len(calls) : calls[i].do = "sort" /\ calls[i].path = path

IsTurn(items, n) ==
  /\ IsSeq(items)
  /\ \A i \in 1..Len(items) : items[i].list_pos \in 1..n
  /\ \A i, j \in 1..Len(items) : items[i].list_pos = items[j].list_pos => i = j

HashesInv ==
  \A path \in DOMAIN hashes :
    /\ path \in Seq(Nat) /\ IsInAnyOrder(path) /\ IsList(path)
    /\ IsSeq(hashes[path]) /\ Len(hashes[path]) <= Size(path)
    /\ path \in DOMAIN listsort_cache \/ Sorts(path)

CacheInv ==
  \A path \in DOMAIN listsort_cache : IsTurn(listsort_cache[path], Size(path))

(* A node is looked at once, and comes once more, for each time that the   *)
(* node above it was; when that is a list in any order, there is the round *)
(* of its hashes besides, which the sort still to come pays for.           *)
Count(path) == IF path \in DOMAIN visits THEN visits[path] ELSE 0
OneIf(condition) == IF condition THEN 1 ELSE 0

Leads(call, path, i) ==
  \/ IsVisit(call) /\ call.path = Append(path, i)
  \/ IsLoop(call) /\ call.path = path /\ \E j \in 1..Len(call.todo) : call.todo[j] = i
Coming(path, i) == \E k \in 1..Len(calls) : Leads(calls[k], path, i)

RootComing == \E k \in 1..Len(calls) : IsVisit(calls[k]) /\ calls[k].path = <<>>

CountInv ==
  /\ Count(<<>>) + OneIf(RootComing) <= 1
  /\ \A path \in Seq(Nat), i \in Nat :
       Count(Append(path, i)) + OneIf(Coming(path, i)) + OneIf(Sorts(path))
         <= Count(path) + OneIf(path \in DOMAIN hashes)

AllSound == \A i \in 1..Len(calls) : IsSound(calls[i])

VisitsInv ==
  /\ DOMAIN visits \subseteq Seq(Nat) /\ \A path \in DOMAIN visits : visits[path] \in Nat

WInv ==
  /\ IsSeq(calls) /\ tree \in Queries
  /\ AllSound /\ CallsNest /\ HashesInv /\ CacheInv /\ VisitsInv /\ CountInv
-----------------------------------------------------------------------------

LEMMA FieldsAreListed ==
  \A tag \in DOMAIN FieldsOf :
    /\ Len(FieldsOf[tag]) \in Nat
    /\ DOMAIN FieldsOf[tag] = 1..Len(FieldsOf[tag])
    /\ tag # "List"
  BY DEF FieldsOf, RawStmtFields, SelectStmtFields, InsertStmtFields, RangeVarFields,
         ColumnRefFields, A_ExprFields, BoolExprFields, ResTargetFields, SubLinkFields,
         RangeSubselectFields, WithClauseFields, CommonTableExprFields, UpdateStmtFields,
         DeleteStmtFields, JoinExprFields, CaseExprFields, CaseWhenFields, NullTestFields,
         FuncCallFields, SortByFields, TypeCastFields, TypeNameFields

LEMMA LastOf ==
  ASSUME NEW path \in Seq(Nat), NEW i \in Nat
  PROVE  /\ Append(path, i) \in Seq(Nat) /\ Len(Append(path, i)) = Len(path) + 1
         /\ Len(path) \in Nat
         /\ Front(Append(path, i)) = path /\ Last(Append(path, i)) = i
  <1>1. IsSeq(path)
    BY ElementsMakeSeq
  <1>2. Front(Append(path, i)) = path
    BY <1>1, Appended
  <1> QED BY <1>2 DEF Last

LEMMA OneAppend ==
  ASSUME NEW p \in Seq(Nat), NEW q \in Seq(Nat), NEW i \in Nat, NEW j \in Nat,
         Append(p, i) = Append(q, j)
  PROVE  p = q /\ i = j
  BY LastOf

LEMMA AtHasNode ==
  ASSUME NEW path \in Seq(Nat)
  PROVE  "node" \in DOMAIN At(path)
  <1>1. PICK w : Descends(w, path, Len(path)) /\ At(path) = w[Len(path)]
    BY AtIs
  <1> DEFINE N == Len(path)
             T == {n \in 0..N : "node" \in DOMAIN w[n]}
  <1>2. 0 \in T
    BY <1>1 DEF Descends, Root
  <1>3. ASSUME NEW n \in 1..N, n - 1 \in T PROVE n \in T
    <2>1. w[n] = Inside(w[n - 1], path[n])
      BY <1>1 DEF Descends
    <2>2. "node" \in DOMAIN w[n]
      BY <1>3, <2>1 DEF Inside
    <2> QED BY <2>2
  <1> HIDE DEF T
  <1>4. N \in T
    BY <1>2, <1>3, FromZeroUp
  <1> QED BY <1>1, <1>4 DEF T

LEMMA InsideList ==
  ASSUME NEW path \in Seq(Nat), IsList(path)
  PROVE  /\ Size(path) \in Nat /\ DOMAIN NodeAt(path).items = 1..Size(path)
         /\ \A i \in 1..Size(path) : NodeAt(Append(path, i)) \in Nodes
  <1>1. NodeAt(path).items \in Seq(Nodes)
    BY NodesAssumption DEF IsList
  <1>2. Size(path) \in Nat /\ DOMAIN NodeAt(path).items = 1..Size(path)
    BY <1>1 DEF Size
  <1>3. ASSUME NEW i \in 1..Size(path)
        PROVE  NodeAt(Append(path, i)) \in Nodes
    <2>1. At(Append(path, i)) = [At(path) EXCEPT !.node = At(path).node.items[i]]
      BY <1>2, <1>3, AtInside DEF Inside, IsList, NodeAt
    <2>2. "node" \in DOMAIN At(path)
      BY AtHasNode
    <2>3. NodeAt(Append(path, i)) = NodeAt(path).items[i]
      BY <2>1, <2>2 DEF NodeAt
    <2> QED BY <1>1, <1>2, <2>3
  <1> QED BY <1>2, <1>3

LEMMA InsideMessage ==
  ASSUME NEW path \in Seq(Nat), IsMessage(path), NEW i \in Nat, IsField(path, i)
  PROVE  LET field == FieldsOf[NodeAt(path).tag][i] IN
         /\ HowOf(Append(path, i)) = field.how
         /\ field.how # "text" => NodeAt(Append(path, i)) \in Nodes
         /\ field.how = "struct" => IsMessage(Append(path, i))
  <1> DEFINE field == FieldsOf[NodeAt(path).tag][i]
             there == Append(path, i)
  <1>1. NodeAt(path) \in {m \in Nodes : m.tag \in DOMAIN FieldsOf}
        /\ NodeAt(path).tag # "List" /\ i \in DOMAIN FieldsOf[NodeAt(path).tag]
        /\ field.name \in DOMAIN NodeAt(path)
    BY FieldsAreListed DEF IsMessage, IsField
  <1>2. At(there) = Inside(At(path), i)
    BY AtInside
  <1>3. At(there) = [node |-> NodeAt(path)[field.name], parent |-> NodeAt(path),
                     field_name |-> field.name]
    BY <1>1, <1>2 DEF Inside, NodeAt
  <1>4. NodeAt(there) = NodeAt(path)[field.name] /\ At(there).parent = NodeAt(path)
    BY <1>3 DEF NodeAt
  <1>5. HowOf(there) = field.how
    BY <1>4, LastOf DEF HowOf, FieldOf
  <1>6. field.how # "text" =>
          /\ NodeAt(path)[field.name] \in Nodes
          /\ field.how = "struct" => NodeAt(path)[field.name].tag \in DOMAIN FieldsOf
    BY <1>1, NodesAssumption
  <1> QED BY <1>4, <1>5, <1>6 DEF IsMessage

LEMMA LoopIs ==
  ASSUME NEW do, NEW path, NEW todo
  PROVE  \/ todo = <<>> /\ Loop(do, path, todo) = <<>>
         \/ /\ todo # <<>>
            /\ Loop(do, path, todo) = <<[do |-> do, path |-> path, todo |-> todo]>>
  BY DEF Loop

(* The calls of a step stay sound when the hashes do.                      *)
LEMMA PlacesStay ==
  ASSUME tree' = tree
  PROVE  \A path :
           /\ NodeAt(path)' = NodeAt(path) /\ IsInAnyOrder(path)' = IsInAnyOrder(path)
           /\ IsMessage(path)' = IsMessage(path) /\ IsList(path)' = IsList(path)
           /\ Size(path)' = Size(path)
           /\ \A i : IsField(path, i)' = IsField(path, i)
  <1> SUFFICES ASSUME NEW path
               PROVE  /\ NodeAt(path)' = NodeAt(path) /\ IsInAnyOrder(path)' = IsInAnyOrder(path)
                      /\ IsMessage(path)' = IsMessage(path) /\ IsList(path)' = IsList(path)
                      /\ Size(path)' = Size(path)
                      /\ \A i : IsField(path, i)' = IsField(path, i)
    OBVIOUS
  <1>1. At(path)' = At(path)
    BY TreeStays
  <1>2. NodeAt(path)' = NodeAt(path)
    BY <1>1 DEF NodeAt
  <1>3. Size(path)' = Size(path)
    BY <1>2 DEF Size
  <1>4. IsInAnyOrder(path)' = IsInAnyOrder(path)
    BY <1>1, <1>2 DEF IsInAnyOrder
  <1>5. IsMessage(path)' = IsMessage(path) /\ IsList(path)' = IsList(path)
    BY <1>2 DEF IsMessage, IsList
  <1>6. \A i : IsField(path, i)' = IsField(path, i)
    BY <1>2 DEF IsField
  <1> QED BY <1>2, <1>3, <1>4, <1>5, <1>6
-----------------------------------------------------------------------------
LEMMA StillSound ==
  ASSUME tree' = tree, NEW c, IsSound(c),
         c.do = "hash" => IsHashing(c)', c.do = "hashed" => IsHashed(c)',
         c.do = "sort" => c.path \in DOMAIN hashes'
  PROVE  IsSound(c)'
  BY PlacesStay DEF IsSound

LEMMA SoundStays ==
  ASSUME UNCHANGED <<tree, hashes>>
  PROVE  \A c : IsSound(c) => IsSound(c)'
  <1> SUFFICES ASSUME NEW c, IsSound(c) PROVE IsSound(c)'
    OBVIOUS
  <1>1. IsHashing(c) => IsHashing(c)'
    BY PlacesStay DEF IsHashing
  <1>2. IsHashed(c) => IsHashed(c)'
    BY PlacesStay DEF IsHashed
  <1> QED BY <1>1, <1>2, StillSound DEF IsSound

LEMMA CallsKept ==
  ASSUME IsSeq(calls), AllSound, CallsNest, calls # <<>>,
         NEW first, IsSeq(first), Continue(first),
         \A k \in 2..Len(calls) : \A c : c = calls[k] => IsSound(c)',
         \A i \in 1..Len(first) : IsSound(first[i])',
         \A i, j \in 1..Len(first) : i < j => AreNested(first[i], first[j]),
         \A d : IsSound(d) /\ AreNested(Here, d) =>
                  \A i \in 1..Len(first) : AreNested(first[i], d)
  PROVE  IsSeq(calls') /\ AllSound' /\ CallsNest'
  <1>1. /\ IsSeq(calls') /\ Len(calls') = Len(first) + Len(calls) - 1
        /\ \A i \in 1..Len(first) : calls'[i] = first[i]
        /\ \A i \in 1..Len(calls') :
              i > Len(first) => /\ i - Len(first) + 1 \in 2..Len(calls)
                                /\ calls'[i] = calls[i - Len(first) + 1]
    BY WhereCallsAreFrom
  <1>2. Len(first) \in Nat /\ Len(calls) \in Nat /\ Len(calls) >= 1 /\ Here = calls[1]
    BY TailOf DEF IsSeq, Here
  <1>3. ASSUME NEW i \in 1..Len(calls')
        PROVE  \/ i \in 1..Len(first) /\ calls'[i] = first[i]
               \/ /\ i > Len(first) /\ i - Len(first) + 1 \in 2..Len(calls)
                  /\ calls'[i] = calls[i - Len(first) + 1]
    BY <1>1, <1>2
  <1>4. AllSound'
    <2>1. ASSUME NEW i \in 1..Len(calls'), NEW c, c = calls'[i] PROVE IsSound(c)'
      BY <1>3, <2>1
    <2> QED BY <2>1 DEF AllSound
  <1>5. ASSUME NEW i \in 1..Len(calls'), NEW j \in 1..Len(calls'), i < j
        PROVE  AreNested(calls'[i], calls'[j])
    <2>1. CASE j \in 1..Len(first)
      BY <1>1, <1>2, <1>5, <2>1
    <2>2. CASE j > Len(first)
      <3> DEFINE l == j - Len(first) + 1
      <3>1. l \in 2..Len(calls) /\ calls'[j] = calls[l]
        BY <1>1, <2>2
      <3>2. IsSound(calls[l])
        BY <1>2, <3>1 DEF AllSound
      <3>3. CASE i \in 1..Len(first)
        <4>1. AreNested(Here, calls[l])
          BY <1>2, <3>1 DEF CallsNest
        <4> QED BY <1>1, <3>1, <3>2, <3>3, <4>1
      <3>4. CASE i > Len(first)
        <4> DEFINE k == i - Len(first) + 1
        <4>1. k \in 2..Len(calls) /\ calls'[i] = calls[k] /\ k < l
          BY <1>1, <1>2, <1>5, <2>2, <3>4
        <4>2. k \in 1..Len(calls) /\ l \in 1..Len(calls)
          BY <1>2, <3>1, <4>1
        <4> HIDE DEF k, l
        <4>3. AreNested(calls[k], calls[l])
          BY <4>1, <4>2 DEF CallsNest
        <4> QED BY <3>1, <4>1, <4>3
      <3> QED BY <1>2, <3>3, <3>4
    <2> QED BY <1>2, <2>1, <2>2
  <1>6. CallsNest'
    BY <1>5 DEF CallsNest
  <1> QED BY <1>1, <1>4, <1>6
-----------------------------------------------------------------------------
(* What is to come, by what is done next and what is below it.             *)
IsIn(first, c) == \E j \in 1..Len(first) : first[j] = c
IsBelow(c) == \E k \in 2..Len(calls) : calls[k] = c
IsCalled(c) == \E k \in 1..Len(calls) : calls[k] = c

LEMMA CallsAre ==
  ASSUME IsSeq(calls), calls # <<>>, NEW first, IsSeq(first), Continue(first)
  PROVE  /\ \A c : IsCalled(c)' <=> IsIn(first, c) \/ IsBelow(c)
         /\ \A c : IsCalled(c) <=> c = Here \/ IsBelow(c)
  <1>1. /\ Len(first) \in Nat /\ Len(calls) \in Nat /\ Len(calls) >= 1
        /\ Len(calls') = Len(first) + Len(calls) - 1
        /\ \A i \in 1..Len(first) : calls'[i] = first[i]
        /\ \A i \in 2..Len(calls) : LET j == i + Len(first) - 1 IN
             j \in 1..Len(calls') /\ j > Len(first) /\ calls'[j] = calls[i]
        /\ \A j \in 1..Len(calls') : j > Len(first) =>
             \E i \in 2..Len(calls) : j = i + Len(first) - 1
    BY WhereCallsGo
  <1>2. Here = calls[1]
    BY TailOf DEF Here
  <1>3. ASSUME NEW c PROVE IsCalled(c) <=> c = Here \/ IsBelow(c)
    BY <1>1, <1>2 DEF IsCalled, IsBelow
  <1>4. ASSUME NEW c, IsIn(first, c) PROVE IsCalled(c)'
    <2>1. PICK j \in 1..Len(first) : first[j] = c
      BY <1>4 DEF IsIn
    <2>2. j \in 1..Len(calls') /\ calls'[j] = c
      BY <1>1, <2>1
    <2> QED BY <2>2 DEF IsCalled
  <1>5. ASSUME NEW c, IsBelow(c) PROVE IsCalled(c)'
    <2>1. PICK k \in 2..Len(calls) : calls[k] = c
      BY <1>5 DEF IsBelow
    <2>2. k + Len(first) - 1 \in 1..Len(calls') /\ calls'[k + Len(first) - 1] = c
      BY <1>1, <2>1
    <2> QED BY <2>2 DEF IsCalled
  <1>6. ASSUME NEW c, IsCalled(c)' PROVE IsIn(first, c) \/ IsBelow(c)
    <2>1. PICK j \in 1..Len(calls') : calls'[j] = c
      BY <1>6 DEF IsCalled
    <2>2. CASE j > Len(first)
      <3>1. PICK i \in 2..Len(calls) : j = i + Len(first) - 1
        BY <1>1, <2>2
      <3>2. calls[i] = c
        BY <1>1, <2>1, <3>1
      <3> QED BY <3>2 DEF IsBelow
    <2>3. CASE ~(j > Len(first))
      <3>1. j \in 1..Len(first) /\ first[j] = c
        BY <1>1, <2>1, <2>3
      <3> QED BY <3>1 DEF IsIn
    <2> QED BY <2>2, <2>3
  <1> QED BY <1>3, <1>4, <1>5, <1>6

LEMMA CalledIs ==
  /\ \A path, i : Coming(path, i) <=> \E c : IsCalled(c) /\ Leads(c, path, i)
  /\ \A path : Sorts(path) <=> \E c : IsCalled(c) /\ c.do = "sort" /\ c.path = path
  /\ RootComing <=> \E c : IsCalled(c) /\ IsVisit(c) /\ c.path = <<>>
  BY DEF Coming, Sorts, RootComing, IsCalled

LEMMA CalledIsNext ==
  /\ \A path, i : Coming(path, i)' <=> \E c : IsCalled(c)' /\ Leads(c, path, i)
  /\ \A path : Sorts(path)' <=> \E c : IsCalled(c)' /\ c.do = "sort" /\ c.path = path
  /\ RootComing' <=> \E c : IsCalled(c)' /\ IsVisit(c) /\ c.path = <<>>
  BY DEF Coming, Sorts, RootComing, IsCalled

LEMMA Below ==
  ASSUME IsSeq(calls), calls # <<>>, AllSound, CallsNest
  PROVE  /\ IsSound(Here) /\ Here.path \in Seq(Nat)
         /\ \A c : IsBelow(c) => IsSound(c) /\ c.path \in Seq(Nat) /\ AreNested(Here, c)
  <1>1. Len(calls) \in Nat /\ Len(calls) >= 1 /\ Here = calls[1]
    BY TailOf DEF IsSeq, Here
  <1>2. IsSound(Here)
    BY <1>1 DEF AllSound
  <1>3. ASSUME NEW k \in 2..Len(calls) PROVE IsSound(calls[k]) /\ AreNested(Here, calls[k])
    <2>1. 1 \in 1..Len(calls) /\ k \in 1..Len(calls) /\ 1 < k
      BY <1>1
    <2> QED BY <1>1, <2>1 DEF AllSound, CallsNest
  <1> QED BY <1>2, <1>3 DEF IsSound, IsBelow
-----------------------------------------------------------------------------
LEMMA CountsAreNumbers ==
  ASSUME VisitsInv
  PROVE  \A path : Count(path) \in Nat
  BY DEF VisitsInv, Count

LEMMA NoMoreComing ==
  /\ \A path, i : OneIf(Coming(path, i)) \in {0, 1} /\ OneIf(Coming(path, i))' \in {0, 1}
  /\ \A path, i : (Coming(path, i)' => Coming(path, i)) =>
                    OneIf(Coming(path, i))' <= OneIf(Coming(path, i))
  /\ \A path : OneIf(Sorts(path)) \in {0, 1} /\ OneIf(Sorts(path))' \in {0, 1}
  /\ \A path : (Sorts(path)' => Sorts(path)) => OneIf(Sorts(path))' <= OneIf(Sorts(path))
  /\ OneIf(RootComing) \in {0, 1} /\ OneIf(RootComing)' \in {0, 1}
  /\ (RootComing' => RootComing) => OneIf(RootComing)' <= OneIf(RootComing)
  BY DEF OneIf

(* A step that visits nothing, and after which nothing is to come that was *)
(* not to come before.                                                     *)
LEMMA CountStays ==
  ASSUME WInv, calls # <<>>, NEW first, IsSeq(first), Continue(first),
         visits' = visits, DOMAIN hashes' = DOMAIN hashes,
         \A c : IsIn(first, c) => c.do # "sort",
         \A c : IsIn(first, c) /\ IsVisit(c) => c.path # <<>>,
         \A c : IsIn(first, c) => \A path \in Seq(Nat), i \in Nat :
                  Leads(c, path, i) => Leads(Here, path, i)
  PROVE  CountInv'
  <1>1. /\ \A c : IsCalled(c)' <=> IsIn(first, c) \/ IsBelow(c)
        /\ \A c : IsCalled(c) <=> c = Here \/ IsBelow(c)
    BY CallsAre DEF WInv
  <1>2. \A path : Count(path)' = Count(path) /\ Count(path) \in Nat
    BY CountsAreNumbers DEF Count, WInv
  <1>3. RootComing' => RootComing
    BY <1>1, CalledIs, CalledIsNext
  <1>4. \A path : Sorts(path)' => Sorts(path)
    BY <1>1, CalledIs, CalledIsNext
  <1>5. \A path \in Seq(Nat), i \in Nat : Coming(path, i)' => Coming(path, i)
    BY <1>1, CalledIs, CalledIsNext
  <1>6. Count(<<>>)' + OneIf(RootComing)' <= 1
    <2>1. Count(<<>>) + OneIf(RootComing) <= 1
      BY DEF WInv, CountInv
    <2>2. OneIf(RootComing)' <= OneIf(RootComing) /\ OneIf(RootComing) \in {0, 1}
          /\ OneIf(RootComing)' \in {0, 1}
      BY <1>3, NoMoreComing
    <2>3. Count(<<>>)' = Count(<<>>) /\ Count(<<>>) \in Nat
      BY <1>2
    <2> QED BY <2>1, <2>2, <2>3
  <1>7. ASSUME NEW path \in Seq(Nat), NEW i \in Nat
        PROVE  Count(Append(path, i))' + OneIf(Coming(path, i))' + OneIf(Sorts(path))'
                 <= Count(path)' + OneIf(path \in DOMAIN hashes)'
    <2>1. Count(Append(path, i)) + OneIf(Coming(path, i)) + OneIf(Sorts(path))
            <= Count(path) + OneIf(path \in DOMAIN hashes)
      BY DEF WInv, CountInv
    <2>2. OneIf(path \in DOMAIN hashes)' = OneIf(path \in DOMAIN hashes)
          /\ OneIf(path \in DOMAIN hashes) \in {0, 1}
      BY DEF OneIf
    <2>3. /\ OneIf(Coming(path, i))' <= OneIf(Coming(path, i))
          /\ OneIf(Sorts(path))' <= OneIf(Sorts(path))
          /\ OneIf(Coming(path, i))' \in {0, 1} /\ OneIf(Sorts(path))' \in {0, 1}
          /\ OneIf(Coming(path, i)) \in {0, 1} /\ OneIf(Sorts(path)) \in {0, 1}
      BY <1>4, <1>5, NoMoreComing
    <2>4. /\ Count(path)' = Count(path) /\ Count(Append(path, i))' = Count(Append(path, i))
          /\ Count(path) \in Nat /\ Count(Append(path, i)) \in Nat
      BY <1>2
    <2> QED BY <2>1, <2>2, <2>3, <2>4
  <1> QED BY <1>6, <1>7 DEF CountInv

(* What is below a visit is for nodes further up, and for other nodes.     *)
LEMMA BelowVisit ==
  ASSUME WInv, calls # <<>>, IsVisit(Here), NEW c, IsBelow(c)
  PROVE  /\ ~(c.do = "sort" /\ c.path = Here.path)
         /\ ~(IsVisit(c) /\ c.path = Here.path)
         /\ \A i \in Nat : ~Leads(c, Here.path, i)
         /\ \A path \in Seq(Nat), i \in Nat : Here.path = Append(path, i) => ~Leads(c, path, i)
  <1>1. Here.path \in Seq(Nat) /\ c.path \in Seq(Nat) /\ AreNested(Here, c)
    BY Below DEF WInv
  <1>2. IsActive(c) => Len(c.path) < Len(Here.path)
    BY <1>1 DEF AreNested, IsActive, IsVisit
  <1>3. Len(c.path) \in Nat /\ Len(Here.path) \in Nat
    BY <1>1
  <1>4. IsActive(c) => c.path # Here.path
    BY <1>2, <1>3
  <1>5. \A i \in Nat : IsActive(c) => c.path # Append(Here.path, i)
    BY <1>1, <1>2, <1>3, LastOf
  <1>6. IsVisit(c) \/ IsLoop(c) \/ c.do = "sort" => IsActive(c)
    BY DEF IsActive
  <1>7. IsLoop(c) => \A j \in 1..Len(c.todo) : Here.path # Append(c.path, c.todo[j])
    BY <1>1 DEF AreNested
  <1>8. ASSUME NEW path \in Seq(Nat), NEW i \in Nat, Here.path = Append(path, i)
        PROVE  ~Leads(c, path, i)
    BY <1>4, <1>6, <1>7, <1>8 DEF Leads
  <1> QED BY <1>4, <1>5, <1>6, <1>8 DEF Leads

LEMMA CountVisits ==
  ASSUME WInv, calls # <<>>, NEW first, IsSeq(first), Continue(first),
         IsVisit(Here), CountVisit,
         \A c : IsIn(first, c) => ~IsVisit(c) /\ c.path = Here.path,
         \/ DOMAIN hashes' = DOMAIN hashes /\ \A c : IsIn(first, c) => c.do # "sort"
         \/ Here.path \notin DOMAIN hashes /\ DOMAIN hashes' = DOMAIN hashes \cup {Here.path}
  PROVE  VisitsInv' /\ CountInv'
  <1>1. /\ \A c : IsCalled(c)' <=> IsIn(first, c) \/ IsBelow(c)
        /\ \A c : IsCalled(c) <=> c = Here \/ IsBelow(c)
    BY CallsAre DEF WInv
  <1> DEFINE at == Here.path
  <1>2. at \in Seq(Nat)
    BY Below DEF WInv
  <1>3. visits' = [path \in DOMAIN visits \cup {at} |->
                IF path = at THEN IF at \in DOMAIN visits THEN visits[at] + 1 ELSE 1
                ELSE visits[path]]
    BY DEF CountVisit, Put
  <1>4. VisitsInv'
    BY <1>2, <1>3 DEF WInv, VisitsInv
  <1>5. /\ \A path : Count(path) \in Nat
        /\ \A path : Count(path)' = IF path = at THEN Count(path) + 1 ELSE Count(path)
    <2>1. \A path : Count(path) \in Nat
      BY CountsAreNumbers DEF WInv
    <2>2. \A path : Count(path)' = IF path = at THEN Count(path) + 1 ELSE Count(path)
      BY <1>3 DEF Count
    <2> QED BY <2>1, <2>2
  <1>6. \A c : IsBelow(c) =>
          /\ ~(c.do = "sort" /\ c.path = at)
          /\ ~(IsVisit(c) /\ c.path = at)
          /\ \A i \in Nat : ~Leads(c, at, i)
          /\ \A path \in Seq(Nat), i \in Nat : at = Append(path, i) => ~Leads(c, path, i)
    BY BelowVisit
  <1>7. \A c : IsIn(first, c) => \A path, i : Leads(c, path, i) => path = at
    BY DEF Leads
  <1>8. at = <<>> => ~RootComing'
    BY <1>1, <1>6, CalledIsNext
  <1>9. RootComing' => RootComing
    BY <1>1, CalledIs, CalledIsNext
  <1>10. Count(<<>>)' + OneIf(RootComing)' <= 1
    <2>1. Count(<<>>) + OneIf(RootComing) <= 1 /\ Count(<<>>) \in Nat
      BY <1>5 DEF WInv, CountInv
    <2>2. OneIf(RootComing)' <= OneIf(RootComing) /\ OneIf(RootComing) \in {0, 1}
          /\ OneIf(RootComing)' \in {0, 1}
      BY <1>9, NoMoreComing
    <2>3. CASE at = <<>>
      <3>1. RootComing /\ ~RootComing'
        BY <1>1, <1>8, <2>3, CalledIs
      <3>2. OneIf(RootComing) = 1 /\ OneIf(RootComing)' = 0
        BY <3>1, Zenon DEF OneIf
      <3>3. Count(<<>>)' = Count(<<>>) + 1
        BY <1>5, <2>3
      <3> QED BY <2>1, <3>2, <3>3
    <2>4. CASE at # <<>>
      <3>1. Count(<<>>)' = Count(<<>>)
        BY <1>5, <2>4
      <3> QED BY <2>1, <2>2, <3>1
    <2> QED BY <2>3, <2>4
  <1>11. ASSUME NEW path \in Seq(Nat), NEW i \in Nat
         PROVE  Count(Append(path, i))' + OneIf(Coming(path, i))' + OneIf(Sorts(path))'
                  <= Count(path)' + OneIf(path \in DOMAIN hashes)'
    <2> DEFINE there == Append(path, i)
    <2>1. Count(there) + OneIf(Coming(path, i)) + OneIf(Sorts(path))
            <= Count(path) + OneIf(path \in DOMAIN hashes)
      BY DEF WInv, CountInv
    <2>2. Count(path) \in Nat /\ Count(there) \in Nat /\ path # there
      <3>1. path # there
        BY LastOf
      <3> QED BY <1>5, <3>1
    <2>3. /\ OneIf(Coming(path, i))' \in {0, 1} /\ OneIf(Sorts(path))' \in {0, 1}
          /\ OneIf(Coming(path, i)) \in {0, 1} /\ OneIf(Sorts(path)) \in {0, 1}
          /\ OneIf(path \in DOMAIN hashes) \in {0, 1} /\ OneIf(path \in DOMAIN hashes)' \in {0, 1}
      BY Zenon DEF OneIf
    <2>4. path # at => (Sorts(path)' => Sorts(path))
      BY <1>1, CalledIs, CalledIsNext
    <2>5. path # at => (Coming(path, i)' => Coming(path, i))
      BY <1>1, <1>7, CalledIs, CalledIsNext
    <2>6. path # at => OneIf(path \in DOMAIN hashes)' = OneIf(path \in DOMAIN hashes)
      BY DEF OneIf
    <2>7. path # at => /\ OneIf(Coming(path, i))' <= OneIf(Coming(path, i))
                       /\ OneIf(Sorts(path))' <= OneIf(Sorts(path))
      BY <2>4, <2>5, NoMoreComing
    <2>8. CASE there = at
      <3>1. Coming(path, i)
        BY <1>1, <2>8, CalledIs DEF Leads
      <3>2. ~Coming(path, i)'
        BY <1>1, <1>6, <1>7, <2>2, <2>8, CalledIsNext
      <3>3. OneIf(Coming(path, i)) = 1 /\ OneIf(Coming(path, i))' = 0
        BY <3>1, <3>2, Zenon DEF OneIf
      <3>4. Count(there)' = Count(there) + 1 /\ Count(path)' = Count(path)
        BY <1>5, <2>2, <2>8
      <3>5. /\ OneIf(Sorts(path))' <= OneIf(Sorts(path))
            /\ OneIf(path \in DOMAIN hashes)' = OneIf(path \in DOMAIN hashes)
        BY <2>2, <2>6, <2>7, <2>8
      <3> QED BY <2>1, <2>2, <2>3, <3>3, <3>4, <3>5
    <2>9. CASE path = at
      <3>1. Count(there)' = Count(there) /\ Count(path)' = Count(path) + 1
        BY <1>5, <2>2, <2>9
      <3>2. ~Sorts(path)
        BY <1>1, <1>6, <2>9, CalledIs DEF IsVisit
      <3>3. ~Coming(path, i)
        <4>1. \A c : IsBelow(c) => ~Leads(c, path, i)
          BY <1>6, <2>9
        <4>2. ~Leads(Here, path, i)
          BY <2>2, <2>9 DEF Leads, IsVisit, IsLoop
        <4> QED BY <1>1, <4>1, <4>2, CalledIs
      <3>4. OneIf(Coming(path, i)) = 0 /\ OneIf(Sorts(path)) = 0
        BY <3>2, <3>3, Zenon DEF OneIf
      <3>5. CASE DOMAIN hashes' = DOMAIN hashes /\ \A c : IsIn(first, c) => c.do # "sort"
        <4>1. ~Sorts(path)'
          BY <1>1, <1>6, <2>9, <3>5, CalledIsNext
        <4>2. OneIf(Sorts(path))' = 0
              /\ OneIf(path \in DOMAIN hashes)' = OneIf(path \in DOMAIN hashes)
          BY <3>5, <4>1 DEF OneIf
        <4> QED BY <2>1, <2>2, <2>3, <3>1, <3>4, <4>2
      <3>6. CASE at \notin DOMAIN hashes /\ DOMAIN hashes' = DOMAIN hashes \cup {at}
        <4>1. OneIf(path \in DOMAIN hashes)' = 1 /\ OneIf(path \in DOMAIN hashes) = 0
          BY <2>9, <3>6 DEF OneIf
        <4> QED BY <2>1, <2>2, <2>3, <3>1, <3>4, <4>1
      <3> QED BY <3>5, <3>6
    <2>10. CASE path # at /\ there # at
      <3>1. Count(there)' = Count(there) /\ Count(path)' = Count(path)
        BY <1>5, <2>10
      <3>2. /\ OneIf(Coming(path, i))' <= OneIf(Coming(path, i))
            /\ OneIf(Sorts(path))' <= OneIf(Sorts(path))
            /\ OneIf(path \in DOMAIN hashes)' = OneIf(path \in DOMAIN hashes)
        BY <2>6, <2>7, <2>10
      <3> QED BY <2>1, <2>2, <2>3, <3>1, <3>2
    <2> QED BY <2>8, <2>9, <2>10
  <1> QED BY <1>4, <1>10, <1>11 DEF CountInv

(* When the items of a list are sorted, they are still to come once more.  *)
LEMMA CountSorts ==
  ASSUME WInv, calls # <<>>, NEW first, IsSeq(first), Continue(first), Here.do = "sort",
         visits' = visits, DOMAIN hashes' = DOMAIN hashes,
         \A c : IsIn(first, c) => c.do = "items" /\ c.path = Here.path
  PROVE  CountInv'
  <1>1. /\ \A c : IsCalled(c)' <=> IsIn(first, c) \/ IsBelow(c)
        /\ \A c : IsCalled(c) <=> c = Here \/ IsBelow(c)
    BY CallsAre DEF WInv
  <1> DEFINE at == Here.path
  <1>2. \A path : Count(path)' = Count(path) /\ Count(path) \in Nat
    BY CountsAreNumbers DEF Count, WInv
  <1>3. RootComing' => RootComing
    BY <1>1, CalledIs, CalledIsNext DEF IsVisit
  <1>4. \A path : Sorts(path)' => Sorts(path)
    BY <1>1, CalledIs, CalledIsNext
  <1>5. Sorts(at)
    BY <1>1, CalledIs
  <1>6. \A path : path = at => ~Sorts(path)'
    <2>1. ASSUME NEW c, IsBelow(c), c.do = "sort", c.path = at PROVE FALSE
      <3>1. AreNested(Here, c) /\ at \in Seq(Nat)
        BY <2>1, Below DEF WInv
      <3>2. Len(c.path) < Len(at) /\ Len(at) \in Nat
        BY <2>1, <3>1 DEF AreNested, IsActive
      <3> QED BY <2>1, <3>2
    <2> QED BY <1>1, <2>1, CalledIsNext
  <1>7. \A path \in Seq(Nat), i \in Nat : path # at => (Coming(path, i)' => Coming(path, i))
    BY <1>1, CalledIs, CalledIsNext DEF Leads, IsVisit
  <1>8. Count(<<>>)' + OneIf(RootComing)' <= 1
    <2>1. Count(<<>>) + OneIf(RootComing) <= 1
      BY DEF WInv, CountInv
    <2>2. OneIf(RootComing)' <= OneIf(RootComing) /\ OneIf(RootComing) \in {0, 1}
          /\ OneIf(RootComing)' \in {0, 1}
      BY <1>3, NoMoreComing
    <2>3. Count(<<>>)' = Count(<<>>) /\ Count(<<>>) \in Nat
      BY <1>2
    <2> QED BY <2>1, <2>2, <2>3
  <1>9. ASSUME NEW path \in Seq(Nat), NEW i \in Nat
        PROVE  Count(Append(path, i))' + OneIf(Coming(path, i))' + OneIf(Sorts(path))'
                 <= Count(path)' + OneIf(path \in DOMAIN hashes)'
    <2> DEFINE there == Append(path, i)
    <2>1. Count(there) + OneIf(Coming(path, i)) + OneIf(Sorts(path))
            <= Count(path) + OneIf(path \in DOMAIN hashes)
      BY DEF WInv, CountInv
    <2>2. OneIf(path \in DOMAIN hashes)' = OneIf(path \in DOMAIN hashes)
          /\ OneIf(path \in DOMAIN hashes) \in {0, 1}
      BY DEF OneIf
    <2>3. /\ OneIf(Coming(path, i))' \in {0, 1} /\ OneIf(Sorts(path))' \in {0, 1}
          /\ OneIf(Coming(path, i)) \in {0, 1} /\ OneIf(Sorts(path)) \in {0, 1}
      BY NoMoreComing
    <2>4. /\ Count(path)' = Count(path) /\ Count(there)' = Count(there)
          /\ Count(path) \in Nat /\ Count(there) \in Nat
      BY <1>2
    <2>5. OneIf(Coming(path, i))' + OneIf(Sorts(path))'
            <= OneIf(Coming(path, i)) + OneIf(Sorts(path))
      <3>1. CASE path = at
        <4>1. OneIf(Sorts(path)) = 1 /\ OneIf(Sorts(path))' = 0
          BY <1>5, <1>6, <3>1, Zenon DEF OneIf
        <4> QED BY <2>3, <4>1
      <3>2. CASE path # at
        <4>1. /\ OneIf(Coming(path, i))' <= OneIf(Coming(path, i))
              /\ OneIf(Sorts(path))' <= OneIf(Sorts(path))
          BY <1>4, <1>7, <3>2, NoMoreComing
        <4> QED BY <2>3, <4>1
      <3> QED BY <3>1, <3>2
    <2> QED BY <2>1, <2>2, <2>3, <2>4, <2>5
  <1> QED BY <1>8, <1>9 DEF CountInv
-----------------------------------------------------------------------------
AllNest(s) == \A i, j \in 1..Len(s) : i < j => AreNested(s[i], s[j])

LEMMA Together ==
  ASSUME NEW s, NEW t, IsSeq(s), IsSeq(t)
  PROVE  /\ IsSeq(s \o t)
         /\ \A c : IsIn(s \o t, c) <=> IsIn(s, c) \/ IsIn(t, c)
         /\ AllNest(s) /\ AllNest(t) /\ (\A c, d : IsIn(s, c) /\ IsIn(t, d) => AreNested(c, d))
              => AllNest(s \o t)
  <1> DEFINE u == s \o t
  <1>1. /\ IsSeq(u) /\ Len(u) = Len(s) + Len(t) /\ Len(s) \in Nat /\ Len(t) \in Nat
        /\ \A i \in 1..Len(s) : u[i] = s[i]
        /\ \A i \in 1..Len(t) : u[Len(s) + i] = t[i]
    BY Concatenated DEF IsSeq
  <1> HIDE DEF u
  <1>2. ASSUME NEW i \in 1..Len(u)
        PROVE  \/ i \in 1..Len(s) /\ u[i] = s[i]
               \/ i - Len(s) \in 1..Len(t) /\ u[i] = t[i - Len(s)]
    <2>1. CASE i > Len(s)
      <3>1. i - Len(s) \in 1..Len(t) /\ i = Len(s) + (i - Len(s))
        BY <1>1, <2>1
      <3> QED BY <1>1, <3>1
    <2> QED BY <1>1, <2>1
  <1>3. \A c : IsIn(u, c) <=> IsIn(s, c) \/ IsIn(t, c)
    <2>1. ASSUME NEW c, IsIn(u, c) PROVE IsIn(s, c) \/ IsIn(t, c)
      BY <1>2, <2>1 DEF IsIn
    <2>2. ASSUME NEW c, IsIn(s, c) PROVE IsIn(u, c)
      <3>1. PICK i \in 1..Len(s) : s[i] = c
        BY <2>2 DEF IsIn
      <3>2. i \in 1..Len(u) /\ u[i] = c
        BY <1>1, <3>1
      <3> QED BY <3>2 DEF IsIn
    <2>3. ASSUME NEW c, IsIn(t, c) PROVE IsIn(u, c)
      <3>1. PICK i \in 1..Len(t) : t[i] = c
        BY <2>3 DEF IsIn
      <3>2. Len(s) + i \in 1..Len(u) /\ u[Len(s) + i] = c
        BY <1>1, <3>1
      <3> QED BY <3>2 DEF IsIn
    <2> QED BY <2>1, <2>2, <2>3
  <1>4. ASSUME AllNest(s), AllNest(t), \A c, d : IsIn(s, c) /\ IsIn(t, d) => AreNested(c, d)
        PROVE  AllNest(u)
    <2> SUFFICES ASSUME NEW i \in 1..Len(u), NEW j \in 1..Len(u), i < j
                 PROVE  AreNested(u[i], u[j])
      BY DEF AllNest
    <2>1. CASE i \in 1..Len(s) /\ u[i] = s[i]
      <3>1. CASE j \in 1..Len(s) /\ u[j] = s[j]
        BY <1>4, <2>1, <3>1 DEF AllNest
      <3>2. CASE j - Len(s) \in 1..Len(t) /\ u[j] = t[j - Len(s)]
        BY <1>4, <2>1, <3>2 DEF IsIn
      <3> QED BY <1>2, <3>1, <3>2
    <2>2. CASE i > Len(s)
      <3> DEFINE k == i - Len(s)
                 l == j - Len(s)
      <3>1. k \in 1..Len(t) /\ l \in 1..Len(t) /\ k < l /\ i = Len(s) + k /\ j = Len(s) + l
        BY <1>1, <2>2
      <3>2. u[i] = t[k] /\ u[j] = t[l]
        BY <1>1, <3>1
      <3> HIDE DEF k, l
      <3> QED BY <1>4, <3>1, <3>2 DEF AllNest
    <2> QED BY <1>1, <2>1, <2>2
  <1> QED BY <1>1, <1>3, <1>4 DEF u

LEMMA One ==
  ASSUME NEW c
  PROVE  IsSeq(<<c>>) /\ AllNest(<<c>>) /\ \A d : IsIn(<<c>>, d) <=> d = c
  BY DEF IsSeq, AllNest, IsIn

LEMMA None == IsSeq(<<>>) /\ AllNest(<<>>) /\ \A d : ~IsIn(<<>>, d)
  BY DEF IsSeq, AllNest, IsIn

LEMMA OneLoop ==
  ASSUME NEW do, NEW path, NEW todo
  PROVE  /\ IsSeq(Loop(do, path, todo)) /\ AllNest(Loop(do, path, todo))
         /\ \A c : IsIn(Loop(do, path, todo), c) =>
              todo # <<>> /\ c = [do |-> do, path |-> path, todo |-> todo]
  <1> DEFINE loop == [do |-> do, path |-> path, todo |-> todo]
  <1>1. CASE todo = <<>>
    BY <1>1, None DEF Loop
  <1>2. CASE todo # <<>>
    <2>1. Loop(do, path, todo) = <<loop>>
      BY <1>2 DEF Loop
    <2> HIDE DEF loop
    <2>2. \A c : IsIn(Loop(do, path, todo), c) => c = loop
      BY <2>1, One
    <2> QED BY <1>2, <2>1, <2>2, One DEF loop
  <1> QED BY <1>1, <1>2

(* A step that leaves the hashes and the cache alone.                      *)
LEMMA SortsStay ==
  ASSUME IsSeq(calls), calls # <<>>, NEW first, IsSeq(first), Continue(first), Here.do # "sort"
  PROVE  \A path : Sorts(path) => Sorts(path)'
  <1>1. /\ \A c : IsCalled(c)' <=> IsIn(first, c) \/ IsBelow(c)
        /\ \A c : IsCalled(c) <=> c = Here \/ IsBelow(c)
    BY CallsAre
  <1> QED BY <1>1, CalledIs, CalledIsNext

LEMMA HashesStay ==
  ASSUME HashesInv, CacheInv, UNCHANGED <<tree, hashes, listsort_cache>>,
         \A path : Sorts(path) => Sorts(path)'
  PROVE  HashesInv' /\ CacheInv'
  <1>1. HashesInv'
    BY PlacesStay DEF HashesInv
  <1>2. CacheInv'
    BY PlacesStay DEF CacheInv, IsTurn
  <1> QED BY <1>1, <1>2

LEMMA StackKept ==
  ASSUME WInv, calls # <<>>, NEW first, IsSeq(first), Continue(first), AllNest(first),
         \A c : IsIn(first, c) => IsSound(c)',
         \A d : IsBelow(d) => IsSound(d)',
         \A c, d : IsIn(first, c) /\ IsSound(d) /\ AreNested(Here, d) => AreNested(c, d)
  PROVE  IsSeq(calls') /\ AllSound' /\ CallsNest'
  <1>1. \A k \in 2..Len(calls) : \A c : c = calls[k] => IsSound(c)'
    BY DEF IsBelow
  <1>2. ASSUME NEW i \in 1..Len(first) PROVE IsSound(first[i])'
    BY DEF IsIn
  <1>3. \A i, j \in 1..Len(first) : i < j => AreNested(first[i], first[j])
    BY DEF AllNest
  <1>4. \A d : IsSound(d) /\ AreNested(Here, d) => \A i \in 1..Len(first) : AreNested(first[i], d)
    BY DEF IsIn
  <1> QED BY <1>1, <1>2, <1>3, <1>4, CallsKept DEF WInv

LEMMA PlainStep ==
  ASSUME WInv, calls # <<>>, NEW first, IsSeq(first), Continue(first), AllNest(first),
         UNCHANGED <<tree, hashes, listsort_cache>>, Here.do # "sort",
         \A c : IsIn(first, c) => IsSound(c),
         \A c, d : IsIn(first, c) /\ IsSound(d) /\ AreNested(Here, d) => AreNested(c, d),
         VisitsInv', CountInv'
  PROVE  WInv'
  <1>1. \A c : IsSound(c) => IsSound(c)'
    BY SoundStays
  <1>2. \A d : IsBelow(d) => IsSound(d)
    BY Below DEF WInv
  <1>3. IsSeq(calls') /\ AllSound' /\ CallsNest'
    BY <1>1, <1>2, StackKept
  <1>4. HashesInv' /\ CacheInv'
    BY SortsStay, HashesStay DEF WInv
  <1> QED BY <1>3, <1>4 DEF WInv
-----------------------------------------------------------------------------
LEMMA VisitNests ==
  ASSUME IsVisit(Here), Here.path \in Seq(Nat), NEW c, IsLoop(c) \/ c.do = "sort",
         c.path = Here.path, NEW d, AreNested(Here, d)
  PROVE  AreNested(c, d)
  BY DEF AreNested, IsActive, IsVisit, IsLoop

LEMMA InnerNests ==
  ASSUME IsLoop(Here), Here.path \in Seq(Nat), NEW i \in Nat,
         NEW c, c.do \in {"node", "struct", "hashed", "close"}, c.path = Append(Here.path, i),
         NEW d, IsSound(d), AreNested(Here, d)
  PROVE  AreNested(c, d)
  <1>1. /\ Len(c.path) = Len(Here.path) + 1 /\ Len(Here.path) \in Nat /\ Front(c.path) = Here.path
        /\ d.path \in Seq(Nat) /\ Len(d.path) \in Nat /\ Len(d.path) <= Len(Here.path)
    BY LastOf DEF IsSound, AreNested
  <1>2. Len(d.path) < Len(c.path)
    BY <1>1
  <1>3. IsLoop(d) => Len(d.path) < Len(Here.path)
    BY DEF AreNested, IsActive, IsLoop
  <1>4. IsLoop(d) => d.path # Here.path
    BY <1>1, <1>3
  <1>5. IsLoop(d) => \A j \in 1..Len(d.todo) : c.path # Append(d.path, d.todo[j])
    <2>1. SUFFICES ASSUME IsLoop(d), NEW j \in 1..Len(d.todo)
                   PROVE  c.path # Append(d.path, d.todo[j])
      OBVIOUS
    <2>2. d.todo[j] \in Nat
      BY <2>1 DEF IsSound, IsTodo
    <2>3. d.path \in Seq(Nat)
      BY DEF IsSound
    <2>4. Front(Append(d.path, d.todo[j])) = d.path
      BY <2>2, <2>3, LastOf
    <2> QED BY <1>1, <1>4, <2>1, <2>4
  <1>6. d.do = "hash" => IsLoop(d)
    BY DEF IsLoop
  <1> QED BY <1>1, <1>2, <1>4, <1>5, <1>6 DEF AreNested

LEMMA RestNests ==
  ASSUME IsLoop(Here), NEW c, c.do = Here.do, c.path = Here.path, NEW d, AreNested(Here, d)
  PROVE  AreNested(c, d)
  BY DEF AreNested, IsActive, IsVisit, IsLoop

LEMMA FieldLoopSound ==
  ASSUME NEW path \in Seq(Nat), IsMessage(path)
  PROVE  /\ IsSeq(FieldLoop(path)) /\ AllNest(FieldLoop(path))
         /\ \A c : IsIn(FieldLoop(path), c) => IsSound(c) /\ c.do = "fields" /\ c.path = path
  <1> DEFINE fields == FieldsOf[NodeAt(path).tag]
             set == {i \in DOMAIN fields :
                       /\ fields[i].name \in DOMAIN NodeAt(path)
                       /\ ~IsIgnoredField(NodeAt(path), fields[i].name, At(path).parent,
                                          At(path).field_name)}
             todo == InTurn(set, Len(fields))
  <1>1. FieldLoop(path) = Loop("fields", path, todo)
    BY DEF FieldLoop, NodeAt
  <1>2. Len(fields) \in Nat
    BY FieldsAreListed DEF IsMessage
  <1>3. Ascends(todo, set, Len(fields))
    <2> HIDE DEF set, fields
    <2> QED BY <1>2, InTurnAscends
  <1>4. \A i \in set : IsField(path, i)
    BY DEF IsField
  <1> HIDE DEF todo, set, fields
  <1>5. /\ IsSeq(todo) /\ \A i \in 1..Len(todo) : todo[i] \in Nat /\ todo[i] \in set
        /\ \A i, j \in 1..Len(todo) : todo[i] = todo[j] => i = j
    BY <1>3, ElementsMakeSeq DEF Ascends
  <1>6. ASSUME NEW c, IsIn(FieldLoop(path), c)
        PROVE  IsSound(c) /\ c.do = "fields" /\ c.path = path
    <2>1. todo # <<>> /\ c = [do |-> "fields", path |-> path, todo |-> todo]
      BY <1>1, <1>6, OneLoop
    <2>2. c.do = "fields" /\ c.path = path /\ c.todo = todo
      BY <2>1
    <2>3. IsTodo(c)
      BY <1>5, <2>1, <2>2 DEF IsTodo
    <2>4. \A i \in 1..Len(c.todo) : IsField(c.path, c.todo[i])
      BY <1>4, <1>5, <2>2
    <2> QED BY <2>2, <2>3, <2>4 DEF IsSound
  <1> QED BY <1>1, <1>6, OneLoop

LEMMA ItemLoopSound ==
  ASSUME NEW path \in Seq(Nat), IsList(path), NEW todo, IsSeq(todo),
         \A i \in 1..Len(todo) : todo[i] \in 1..Size(path),
         \A i, j \in 1..Len(todo) : todo[i] = todo[j] => i = j
  PROVE  \A c : IsIn(Loop("items", path, todo), c) => IsSound(c) /\ c.do = "items" /\ c.path = path
  <1> SUFFICES ASSUME NEW c, IsIn(Loop("items", path, todo), c)
               PROVE  IsSound(c) /\ c.do = "items" /\ c.path = path
    OBVIOUS
  <1>1. todo # <<>> /\ c = [do |-> "items", path |-> path, todo |-> todo]
    BY OneLoop
  <1>2. c.do = "items" /\ c.path = path /\ c.todo = todo
    BY <1>1
  <1>3. Size(path) \in Nat
    BY InsideList
  <1>4. IsTodo(c)
    BY <1>1, <1>2, <1>3 DEF IsTodo
  <1> QED BY <1>2, <1>4 DEF IsSound

LEMMA PositionsAre ==
  ASSUME NEW path \in Seq(Nat), IsList(path)
  PROVE  /\ IsSeq(Positions(path)) /\ Len(Positions(path)) = Size(path) /\ Size(path) \in Nat
         /\ \A i \in 1..Size(path) : Positions(path)[i] = i
  <1>1. Size(path) \in Nat /\ DOMAIN NodeAt(path).items = 1..Size(path)
    BY InsideList
  <1>2. Positions(path) = [i \in 1..Size(path) |-> i]
    BY <1>1 DEF Positions, NodeAt
  <1>3. Positions(path) \in Seq(Nat) /\ Len(Positions(path)) = Size(path)
    BY <1>1, <1>2
  <1> QED BY <1>1, <1>2, <1>3, ElementsMakeSeq

LEMMA SortedPositionsAre ==
  ASSUME NEW items, NEW n \in Nat, IsTurn(items, n)
  PROVE  LET sorted == SortedPositions(items) IN
         /\ IsSeq(sorted) /\ \A i \in 1..Len(sorted) : sorted[i] \in 1..n
         /\ \A i, j \in 1..Len(sorted) : sorted[i] = sorted[j] => i = j
  <1> DEFINE set == {i \in DOMAIN items : i = 1 \/ items[i].hash # items[i - 1].hash}
             unlike == InTurn(set, Len(items))
             sorted == [j \in DOMAIN unlike |-> items[unlike[j]].list_pos]
  <1>1. SortedPositions(items) = sorted
    BY DEF SortedPositions, Unlike
  <1>2. Len(items) \in Nat
    BY DEF IsTurn, IsSeq
  <1>3. Ascends(unlike, set, Len(items))
    <2> HIDE DEF set
    <2> QED BY <1>2, InTurnAscends
  <1> HIDE DEF unlike, set
  <1>4. /\ DOMAIN unlike = 1..Len(unlike) /\ Len(unlike) \in Nat
        /\ \A i \in 1..Len(unlike) : unlike[i] \in 1..Len(items)
        /\ \A i, j \in 1..Len(unlike) : unlike[i] = unlike[j] => i = j
    BY <1>3 DEF Ascends
  <1>5. /\ \A j \in 1..Len(unlike) : sorted[j] \in 1..n /\ sorted[j] = items[unlike[j]].list_pos
    BY <1>4 DEF IsTurn
  <1>6. sorted \in Seq(1..n) /\ Len(sorted) = Len(unlike)
    BY <1>4, <1>5
  <1>7. \A i, j \in 1..Len(sorted) : sorted[i] = sorted[j] => i = j
    BY <1>4, <1>5, <1>6 DEF IsTurn
  <1> HIDE DEF sorted
  <1> QED BY <1>1, <1>6, <1>7, ElementsMakeSeq
-----------------------------------------------------------------------------
LEMMA VisitStep ==
  ASSUME WInv, calls # <<>>, IsVisit(Here), CountVisit,
         NEW first, IsSeq(first), AllNest(first), Continue(first),
         UNCHANGED <<tree, hashes, listsort_cache>>,
         \A c : IsIn(first, c) => IsSound(c) /\ IsLoop(c) /\ c.path = Here.path
  PROVE  WInv'
  <1>1. Here.path \in Seq(Nat)
    BY Below DEF WInv
  <1>2. \A c, d : IsIn(first, c) /\ IsSound(d) /\ AreNested(Here, d) => AreNested(c, d)
    BY <1>1, VisitNests
  <1>3. \A c : IsLoop(c) => ~IsVisit(c) /\ c.do # "sort"
    BY DEF IsLoop, IsVisit
  <1>4. VisitsInv' /\ CountInv'
    BY <1>3, CountVisits
  <1>5. Here.do # "sort"
    BY DEF IsVisit
  <1> QED BY <1>2, <1>4, <1>5, PlainStep

LEMMA FirstVisitSound ==
  ASSUME WInv, calls # <<>>, AtNode
  PROVE  /\ IsVisit(Here) /\ Here.path \in Seq(Nat) /\ NodeAt(Here.path) \in Nodes
         /\ AtList => IsList(Here.path)
         /\ At(Here.path).node.tag \in DOMAIN FieldsOf => IsMessage(Here.path)
  BY Below DEF WInv, AtNode, IsVisit, IsSound, AtList, IsList, IsMessage, NodeAt

LEMMA VisitsKeepWork ==
  ASSUME WInv,
         \/ IgnoreNode \/ FingerprintValue \/ FingerprintMessage \/ FingerprintStruct
         \/ FingerprintList \/ FingerprintCachedList
  PROVE  WInv'
  <1>1. CASE IgnoreNode \/ FingerprintValue
    <2>1. /\ calls # <<>> /\ IsVisit(Here) /\ CountVisit /\ Continue(<<>>)
          /\ UNCHANGED <<tree, hashes, listsort_cache>>
      BY <1>1 DEF IgnoreNode, FingerprintValue, AtNode, IsVisit
    <2> QED BY <2>1, None, VisitStep
  <1>2. CASE FingerprintMessage \/ FingerprintStruct
    <2>1. /\ calls # <<>> /\ IsVisit(Here) /\ CountVisit /\ Continue(FieldLoop(Here.path))
          /\ UNCHANGED <<tree, hashes, listsort_cache>>
      BY <1>2 DEF FingerprintMessage, FingerprintStruct, AtNode, IsVisit
    <2>2. Here.path \in Seq(Nat) /\ IsMessage(Here.path)
      <3>1. CASE FingerprintMessage
        BY <3>1, FirstVisitSound DEF FingerprintMessage, AtNode
      <3>2. CASE FingerprintStruct
        BY <3>2, Below DEF FingerprintStruct, WInv, IsSound
      <3> QED BY <1>2, <3>1, <3>2
    <2>3. /\ IsSeq(FieldLoop(Here.path)) /\ AllNest(FieldLoop(Here.path))
          /\ \A c : IsIn(FieldLoop(Here.path), c) =>
               IsSound(c) /\ c.do = "fields" /\ c.path = Here.path
      BY <2>2, FieldLoopSound
    <2>4. \A c : c.do = "fields" => IsLoop(c)
      BY DEF IsLoop
    <2> QED BY <2>1, <2>3, <2>4, VisitStep
  <1>3. CASE FingerprintList \/ FingerprintCachedList
    <2>1. /\ calls # <<>> /\ AtNode /\ AtList /\ CountVisit
          /\ UNCHANGED <<tree, hashes, listsort_cache>>
      BY <1>3 DEF FingerprintList, FingerprintCachedList, AtList, AtNode
    <2>2. IsVisit(Here) /\ Here.path \in Seq(Nat) /\ IsList(Here.path)
      BY <2>1, FirstVisitSound
    <2>3. Size(Here.path) \in Nat
      BY <2>2, InsideList
    <2>4. PICK todo :
            /\ Continue(Loop("items", Here.path, todo))
            /\ IsSeq(todo) /\ \A i \in 1..Len(todo) : todo[i] \in 1..Size(Here.path)
            /\ \A i, j \in 1..Len(todo) : todo[i] = todo[j] => i = j
      <3>1. CASE FingerprintList
        <4>1. Continue(Loop("items", Here.path, Positions(Here.path)))
          BY <3>1 DEF FingerprintList
        <4>2. /\ IsSeq(Positions(Here.path)) /\ Len(Positions(Here.path)) = Size(Here.path)
              /\ \A i \in 1..Size(Here.path) : Positions(Here.path)[i] = i
          BY <2>2, PositionsAre
        <4> QED BY <4>1, <4>2
      <3>2. CASE FingerprintCachedList
        <4> DEFINE items == listsort_cache[Here.path]
        <4>1. Continue(Loop("items", Here.path, SortedPositions(items)))
              /\ Here.path \in DOMAIN listsort_cache
          BY <3>2 DEF FingerprintCachedList
        <4>2. IsTurn(items, Size(Here.path))
          BY <4>1 DEF WInv, CacheInv
        <4> HIDE DEF items
        <4> QED BY <2>3, <4>1, <4>2, SortedPositionsAre
      <3> QED BY <1>3, <3>1, <3>2
    <2> DEFINE first == Loop("items", Here.path, todo)
    <2>5. \A c : IsIn(first, c) => IsSound(c) /\ c.do = "items" /\ c.path = Here.path
      BY <2>2, <2>4, ItemLoopSound
    <2>6. IsSeq(first) /\ AllNest(first)
      BY OneLoop
    <2>7. \A c : c.do = "items" => IsLoop(c)
      BY DEF IsLoop
    <2>8. Continue(first)
      BY <2>4
    <2> HIDE DEF first
    <2> QED BY <2>1, <2>2, <2>5, <2>6, <2>7, <2>8, VisitStep
  <1> QED BY <1>1, <1>2, <1>3

LEMMA NewListKeepsWork == WInv /\ FingerprintNewList => WInv'
  <1> SUFFICES ASSUME WInv, FingerprintNewList PROVE WInv'
    OBVIOUS
  <1> DEFINE loop == Loop("hash", Here.path, Positions(Here.path))
             sort == Call("sort", Here.path)
             first == loop \o <<sort>>
  <1>1. /\ calls # <<>> /\ AtNode /\ AtList /\ CountVisit /\ Continue(first)
        /\ Here.path \notin DOMAIN listsort_cache /\ IsInAnyOrder(Here.path)
        /\ hashes' = Put(hashes, Here.path, <<>>)
        /\ UNCHANGED <<tree, listsort_cache>>
    BY DEF FingerprintNewList, AtList, AtNode, IsInAnyOrder, NodeAt
  <1>2. IsVisit(Here) /\ Here.path \in Seq(Nat) /\ IsList(Here.path) /\ Here.do # "sort"
    BY <1>1, FirstVisitSound DEF IsVisit
  <1>3. ~Sorts(Here.path)
    <2>1. \A c : IsBelow(c) => ~(c.do = "sort" /\ c.path = Here.path)
      BY <1>1, <1>2, BelowVisit
    <2>2. \A c : IsCalled(c) => c = Here \/ IsBelow(c)
      BY <1>1, OneLoop, One, Together, CallsAre DEF WInv
    <2> QED BY <1>2, <2>1, <2>2, CalledIs
  <1>4. Here.path \notin DOMAIN hashes
    BY <1>1, <1>3 DEF WInv, HashesInv
  <1>5. /\ DOMAIN hashes' = DOMAIN hashes \cup {Here.path}
        /\ \A path \in DOMAIN hashes : hashes'[path] = hashes[path]
        /\ \A path : path = Here.path => hashes'[path] = <<>>
    BY <1>1, <1>4 DEF Put
  <1>6. /\ IsSeq(Positions(Here.path)) /\ Len(Positions(Here.path)) = Size(Here.path)
        /\ Size(Here.path) \in Nat
        /\ \A i \in 1..Size(Here.path) : Positions(Here.path)[i] = i
    BY <1>2, PositionsAre
  <1>7. \A c : IsIn(loop, c) =>
          c = [do |-> "hash", path |-> Here.path, todo |-> Positions(Here.path)]
          /\ Positions(Here.path) # <<>>
    BY OneLoop
  <1>8. sort.do = "sort" /\ sort.path = Here.path
    BY DEF Call
  <1>9. /\ IsSeq(loop) /\ AllNest(loop) /\ IsSeq(<<sort>>) /\ AllNest(<<sort>>)
        /\ \A d : IsIn(<<sort>>, d) <=> d = sort
    <2> HIDE DEF sort
    <2> QED BY OneLoop, One
  <1> HIDE DEF sort, loop
  <1>10. ASSUME NEW c, IsIn(loop, c), NEW d, d = sort PROVE AreNested(c, d)
    <2>1. c.do = "hash" /\ c.path = Here.path /\ d.do = "sort" /\ d.path = Here.path
      BY <1>7, <1>8, <1>10
    <2>2. Len(Here.path) \in Nat
      BY <1>2
    <2> QED BY <2>1, <2>2 DEF AreNested, IsVisit, IsLoop
  <1>11. /\ IsSeq(first) /\ AllNest(first)
         /\ \A c : IsIn(first, c) <=> IsIn(loop, c) \/ c = sort
    BY <1>9, <1>10, Together
  <1> HIDE DEF first
  <1>12. \A c : IsIn(first, c) => /\ ~IsVisit(c) /\ c.path = Here.path
                                  /\ IsLoop(c) \/ c.do = "sort"
    BY <1>7, <1>8, <1>11 DEF IsVisit, IsLoop
  <1>13. VisitsInv' /\ CountInv'
    BY <1>1, <1>2, <1>4, <1>5, <1>11, <1>12, CountVisits
  <1>14. \A path : Sorts(path) => Sorts(path)'
    BY <1>1, <1>2, <1>11, SortsStay DEF WInv
  <1>15. ASSUME NEW path, path = Here.path PROVE Sorts(path)'
    <2>1. \A c : IsCalled(c)' <=> IsIn(first, c) \/ IsBelow(c)
      BY <1>1, <1>11, CallsAre DEF WInv
    <2> QED BY <1>8, <1>11, <1>15, <2>1, CalledIsNext
  <1>16. HashesInv'
    <2> SUFFICES ASSUME NEW path \in DOMAIN hashes'
                 PROVE  /\ path \in Seq(Nat) /\ IsInAnyOrder(path)' /\ IsList(path)'
                        /\ IsSeq(hashes'[path]) /\ Len(hashes'[path]) <= Size(path)'
                        /\ path \in DOMAIN listsort_cache' \/ Sorts(path)'
      BY DEF HashesInv
    <2>1. CASE path = Here.path
      <3>1. IsSeq(<<>>) /\ Len(<<>>) = 0 /\ hashes'[path] = <<>>
        BY <1>5, <2>1 DEF IsSeq
      <3>2. 0 <= Size(path) /\ Size(path)' = Size(path)
        BY <1>1, <1>6, <2>1, PlacesStay
      <3>3. IsInAnyOrder(path)' /\ IsList(path)'
        BY <1>1, <1>2, <2>1, PlacesStay
      <3> QED BY <1>2, <1>15, <2>1, <3>1, <3>2, <3>3
    <2>2. CASE path \in DOMAIN hashes
      <3>1. hashes'[path] = hashes[path]
        BY <1>5, <2>2
      <3>2. IsInAnyOrder(path)' = IsInAnyOrder(path) /\ IsList(path)' = IsList(path)
            /\ Size(path)' = Size(path)
        BY <1>1, PlacesStay
      <3> QED BY <1>1, <1>14, <2>2, <3>1, <3>2 DEF WInv, HashesInv
    <2> QED BY <1>5, <2>1, <2>2
  <1>17. CacheInv'
    BY <1>1, PlacesStay DEF WInv, CacheInv, IsTurn
  <1>18. ASSUME NEW d, IsBelow(d) PROVE IsSound(d)'
    <2>1. IsSound(d)
      BY <1>1, <1>18, Below DEF WInv
    <2>2. d.do = "hash" => IsHashing(d)'
      BY <1>1, <1>5, <2>1, PlacesStay DEF IsSound, IsHashing
    <2>3. d.do = "hashed" => IsHashed(d)'
      <3> SUFFICES ASSUME d.do = "hashed" PROVE IsHashed(d)'
        OBVIOUS
      <3>1. PICK path \in Seq(Nat), i \in Nat :
              /\ d.path = Append(path, i)
              /\ path \in DOMAIN hashes /\ Len(hashes[path]) < i /\ i <= Size(path)
        BY <2>1 DEF IsSound, IsHashed
      <3>2. path \in DOMAIN hashes' /\ Len(hashes'[path]) < i /\ i <= Size(path)'
        BY <1>1, <1>5, <3>1, PlacesStay
      <3> QED BY <3>1, <3>2 DEF IsHashed
    <2>4. d.do = "sort" => d.path \in DOMAIN hashes'
      BY <1>5, <2>1 DEF IsSound
    <2> QED BY <1>1, <2>1, <2>2, <2>3, <2>4, StillSound
  <1>19. ASSUME NEW c, IsIn(first, c) PROVE IsSound(c)'
    <2>1. CASE c = sort
      BY <1>2, <1>5, <1>8, <2>1 DEF IsSound, IsLoop
    <2>2. CASE IsIn(loop, c)
      <3>1. /\ c.do = "hash" /\ c.path = Here.path /\ c.todo = Positions(Here.path)
            /\ Positions(Here.path) # <<>>
        BY <1>7, <2>2
      <3>2. IsTodo(c)
        BY <1>6, <3>1 DEF IsTodo
      <3>3. \A i \in 1..Len(c.todo) : c.todo[i] \in 1..Size(c.path)
        BY <1>6, <3>1
      <3>4. c.path \in DOMAIN hashes' /\ hashes'[c.path] = <<>>
        BY <1>5, <3>1
      <3>5. IsHashing(c)'
        <4>1. IsInAnyOrder(c.path)' /\ Size(c.path)' = Size(c.path)
          BY <1>1, <3>1, PlacesStay
        <4>2. \A i \in 1..Len(c.todo) : c.todo[i] = Size(c.path) - Len(c.todo) + i
          BY <1>6, <3>1
        <4>3. Len(hashes'[c.path]) <= Size(c.path) - Len(c.todo)
          BY <1>6, <3>1, <3>4
        <4> QED BY <3>4, <4>1, <4>2, <4>3 DEF IsHashing
      <3>6. IsList(c.path)' /\ Size(c.path)' = Size(c.path)
        BY <1>1, <1>2, <3>1, PlacesStay
      <3> QED BY <1>2, <3>1, <3>2, <3>3, <3>5, <3>6 DEF IsSound, IsLoop, IsTodo
    <2> QED BY <1>11, <1>19, <2>1, <2>2
  <1>20. \A c, d : IsIn(first, c) /\ IsSound(d) /\ AreNested(Here, d) => AreNested(c, d)
    BY <1>2, <1>12, VisitNests
  <1>21. IsSeq(calls') /\ AllSound' /\ CallsNest'
    BY <1>1, <1>11, <1>18, <1>19, <1>20, StackKept
  <1> QED BY <1>1, <1>13, <1>16, <1>17, <1>21 DEF WInv
-----------------------------------------------------------------------------
LEMMA LoopHere ==
  ASSUME WInv, calls # <<>>, IsLoop(Here)
  PROVE  /\ IsSound(Here) /\ Here.path \in Seq(Nat) /\ Head(Here.todo) = Here.todo[1]
         /\ Len(Here.todo) \in Nat /\ Len(Here.todo) >= 1 /\ 1 \in 1..Len(Here.todo)
         /\ Head(Here.todo) \in Nat /\ Inner = Append(Here.path, Head(Here.todo))
         /\ Inner \in Seq(Nat) /\ Len(Inner) = Len(Here.path) + 1 /\ Front(Inner) = Here.path
         /\ Last(Inner) = Head(Here.todo) /\ Inner # <<>> /\ Len(Here.path) \in Nat
  <1>1. IsSound(Here) /\ Here.path \in Seq(Nat) /\ IsTodo(Here)
    BY Below DEF WInv, IsSound
  <1>2. /\ Head(Here.todo) = Here.todo[1] /\ Len(Here.todo) \in Nat /\ Len(Here.todo) >= 1
    BY <1>1, TailOf DEF IsTodo, IsSeq
  <1>3. Head(Here.todo) \in Nat
    BY <1>1, <1>2 DEF IsTodo
  <1> QED BY <1>1, <1>2, <1>3, LastOf DEF Inner

LEMMA RestOfLoop ==
  ASSUME WInv, calls # <<>>, IsLoop(Here)
  PROVE  /\ IsSeq(Rest) /\ AllNest(Rest)
         /\ \A c : IsIn(Rest, c) =>
              /\ IsSound(c) /\ c.do = Here.do /\ c.path = Here.path
              /\ Len(c.todo) = Len(Here.todo) - 1 /\ Len(Here.todo) >= 2
              /\ \A i \in 1..Len(c.todo) : c.todo[i] = Here.todo[i + 1]
  <1>1. /\ IsSound(Here) /\ Here.path \in Seq(Nat) /\ IsTodo(Here)
        /\ Len(Here.todo) \in Nat /\ Len(Here.todo) >= 1
    BY LoopHere DEF IsSound
  <1>2. /\ IsSeq(Tail(Here.todo)) /\ Len(Tail(Here.todo)) = Len(Here.todo) - 1
        /\ \A i \in 1..Len(Here.todo) - 1 : Tail(Here.todo)[i] = Here.todo[i + 1]
    BY <1>1, TailOf DEF IsTodo
  <1>3. ASSUME NEW c, IsIn(Rest, c)
        PROVE  /\ IsSound(c) /\ c.do = Here.do /\ c.path = Here.path
               /\ Len(c.todo) = Len(Here.todo) - 1 /\ Len(Here.todo) >= 2
               /\ \A i \in 1..Len(c.todo) : c.todo[i] = Here.todo[i + 1]
    <2>1. /\ Tail(Here.todo) # <<>>
          /\ c = [do |-> Here.do, path |-> Here.path, todo |-> Tail(Here.todo)]
      BY <1>3, OneLoop DEF Rest
    <2>2. /\ c.do = Here.do /\ c.path = Here.path /\ c.todo = Tail(Here.todo)
          /\ IsSeq(c.todo) /\ c.todo # <<>> /\ Len(c.todo) = Len(Here.todo) - 1
          /\ \A i \in 1..Len(c.todo) :
               i + 1 \in 1..Len(Here.todo) /\ c.todo[i] = Here.todo[i + 1]
      BY <1>1, <1>2, <2>1
    <2>3. Len(Here.todo) >= 2
      <3>1. Len(c.todo) # 0
        BY <2>2 DEF IsSeq
      <3> QED BY <1>1, <2>2, <3>1
    <2>4. IsTodo(c)
      <3>1. \A i \in 1..Len(c.todo) : c.todo[i] \in Nat
        BY <1>1, <2>2 DEF IsTodo
      <3>2. ASSUME NEW i \in 1..Len(c.todo), NEW j \in 1..Len(c.todo), c.todo[i] = c.todo[j]
            PROVE  i = j
        <4>1. /\ i + 1 \in 1..Len(Here.todo) /\ j + 1 \in 1..Len(Here.todo)
              /\ Here.todo[i + 1] = Here.todo[j + 1]
          BY <2>2, <3>2
        <4>2. i + 1 = j + 1
          BY <1>1, <4>1 DEF IsTodo
        <4> QED BY <4>2
      <3> QED BY <2>2, <3>1, <3>2 DEF IsTodo
    <2>5. c.do = "hash" => IsHashing(c)
      <3> SUFFICES ASSUME c.do = "hash" PROVE IsHashing(c)
        OBVIOUS
      <3>1. /\ IsHashing(Here) /\ IsList(Here.path)
        BY <1>1, <2>2 DEF IsSound
      <3>2. Size(Here.path) \in Nat
        BY <1>1, <3>1, InsideList
      <3>3. \A i \in 1..Len(c.todo) : c.todo[i] = Size(c.path) - Len(c.todo) + i
        BY <1>1, <2>2, <3>1, <3>2 DEF IsHashing
      <3>4. Len(hashes[c.path]) <= Size(c.path) - Len(c.todo)
        <4>1. /\ Len(hashes[Here.path]) <= Size(Here.path) - Len(Here.todo)
              /\ Here.path \in DOMAIN hashes
          BY <3>1 DEF IsHashing
        <4>2. Len(hashes[Here.path]) \in Nat
          BY <4>1 DEF WInv, HashesInv, IsSeq
        <4> QED BY <1>1, <2>2, <3>2, <4>1, <4>2
      <3> QED BY <2>2, <3>1, <3>3, <3>4 DEF IsHashing
    <2>6. c.do = "fields" =>
            IsMessage(c.path) /\ \A i \in 1..Len(c.todo) : IsField(c.path, c.todo[i])
      BY <1>1, <2>2 DEF IsSound
    <2>7. c.do \in {"items", "hash"} =>
            IsList(c.path) /\ \A i \in 1..Len(c.todo) : c.todo[i] \in 1..Size(c.path)
      BY <1>1, <2>2 DEF IsSound
    <2>8. IsSound(c)
      BY <1>1, <2>2, <2>4, <2>5, <2>6, <2>7 DEF IsSound, IsLoop
    <2> QED BY <2>2, <2>3, <2>8
  <1> QED BY <1>3, OneLoop DEF Rest

(* A turn of a loop: what is done for one of its nodes, and the rest.      *)
LEMMA LoopStep ==
  ASSUME WInv, calls # <<>>, IsLoop(Here), NEW turn, IsSeq(turn), AllNest(turn),
         Continue(turn \o Rest),
         UNCHANGED <<tree, hashes, listsort_cache, visits>>,
         \A c : IsIn(turn, c) => /\ IsSound(c) /\ c.path = Inner
                                 /\ c.do \in {"node", "struct", "hashed", "close"}
                                 /\ c.do = "hashed" => Here.do = "hash"
  PROVE  WInv'
  <1> DEFINE first == turn \o Rest
  <1>1. /\ IsSound(Here) /\ Here.path \in Seq(Nat) /\ Head(Here.todo) = Here.todo[1]
        /\ Len(Here.todo) \in Nat /\ Len(Here.todo) >= 1 /\ 1 \in 1..Len(Here.todo)
        /\ Head(Here.todo) \in Nat /\ Inner = Append(Here.path, Head(Here.todo))
        /\ Inner \in Seq(Nat) /\ Len(Inner) = Len(Here.path) + 1 /\ Front(Inner) = Here.path
        /\ Last(Inner) = Head(Here.todo) /\ Inner # <<>> /\ Len(Here.path) \in Nat
    BY LoopHere
  <1>2. /\ IsSeq(Rest) /\ AllNest(Rest)
        /\ \A c : IsIn(Rest, c) =>
             /\ IsSound(c) /\ c.do = Here.do /\ c.path = Here.path
             /\ Len(c.todo) = Len(Here.todo) - 1 /\ Len(Here.todo) >= 2
             /\ \A i \in 1..Len(c.todo) : c.todo[i] = Here.todo[i + 1]
    BY RestOfLoop
  <1>3. ASSUME NEW c, NEW d, IsIn(turn, c), IsIn(Rest, d) PROVE AreNested(c, d)
    <2>1. /\ c.path = Inner /\ c.do \in {"node", "struct", "hashed", "close"}
          /\ c.do = "hashed" => Here.do = "hash"
          /\ d.do = Here.do /\ d.path = Here.path /\ IsSound(d) /\ IsLoop(d)
      BY <1>2, <1>3 DEF IsLoop
    <2>2. Len(d.path) < Len(c.path) /\ Len(d.path) \in Nat /\ Len(c.path) \in Nat
      BY <1>1, <2>1
    <2>3. /\ Len(d.todo) = Len(Here.todo) - 1 /\ Len(Here.todo) >= 2
          /\ \A i \in 1..Len(d.todo) : d.todo[i] = Here.todo[i + 1] /\ i + 1 \in 1..Len(Here.todo)
      BY <1>1, <1>2, <1>3
    <2>4. \A i \in 1..Len(d.todo) : c.path # Append(d.path, d.todo[i])
      <3> SUFFICES ASSUME NEW i \in 1..Len(d.todo) PROVE c.path # Append(d.path, d.todo[i])
        OBVIOUS
      <3>1. d.todo[i] # Here.todo[1] /\ d.todo[i] \in Nat
        BY <1>1, <2>1, <2>3 DEF IsSound, IsTodo
      <3>2. Last(Append(d.path, d.todo[i])) = d.todo[i]
        BY <1>1, <2>1, <3>1, LastOf
      <3> QED BY <1>1, <2>1, <3>1, <3>2
    <2>5. d.do = "hash" => Last(c.path) < d.todo[1]
      <3> SUFFICES ASSUME d.do = "hash" PROVE Last(c.path) < d.todo[1]
        OBVIOUS
      <3>1. IsHashing(Here) /\ IsList(Here.path)
        BY <1>1, <2>1 DEF IsSound
      <3>2. Size(Here.path) \in Nat
        BY <1>1, <3>1, InsideList
      <3>3. \A i \in 1..Len(Here.todo) : Here.todo[i] = Size(Here.path) - Len(Here.todo) + i
        BY <3>1 DEF IsHashing
      <3>4. /\ d.todo[1] = Here.todo[2] /\ 2 \in 1..Len(Here.todo)
        BY <1>1, <2>3
      <3>5. d.todo[1] = Size(Here.path) - Len(Here.todo) + 2
            /\ Here.todo[1] = Size(Here.path) - Len(Here.todo) + 1
        BY <1>1, <3>3, <3>4
      <3> QED BY <1>1, <2>1, <3>2, <3>5
    <2> QED BY <2>1, <2>2, <2>4, <2>5 DEF AreNested, IsLoop
  <1>4. /\ IsSeq(first) /\ AllNest(first)
        /\ \A c : IsIn(first, c) <=> IsIn(turn, c) \/ IsIn(Rest, c)
    BY <1>2, <1>3, Together
  <1> HIDE DEF first
  <1>5. \A c : IsIn(first, c) => IsSound(c)
    BY <1>2, <1>4
  <1>6. ASSUME NEW c, NEW d, IsIn(first, c), IsSound(d), AreNested(Here, d)
        PROVE  AreNested(c, d)
    <2>1. CASE IsIn(turn, c)
      BY <1>1, <1>6, <2>1, InnerNests
    <2>2. CASE IsIn(Rest, c)
      BY <1>2, <1>6, <2>2, RestNests
    <2> QED BY <1>4, <1>6, <2>1, <2>2
  <1>7. Here.do # "sort" /\ ~IsVisit(Here)
    BY DEF IsLoop, IsVisit
  <1>8. \A c : IsIn(first, c) => c.do # "sort"
    BY <1>2, <1>4, <1>7
  <1>9. \A c : IsIn(first, c) /\ IsVisit(c) => c.path # <<>>
    BY <1>1, <1>2, <1>4, <1>7 DEF IsVisit
  <1>10. ASSUME NEW c, IsIn(first, c), NEW path \in Seq(Nat), NEW i \in Nat, Leads(c, path, i)
         PROVE  Leads(Here, path, i)
    <2>1. CASE IsIn(turn, c)
      <3>1. c.path = Inner /\ c.do \in {"node", "struct", "hashed", "close"}
        BY <2>1
      <3>2. Append(Here.path, Head(Here.todo)) = Append(path, i)
        BY <1>1, <1>10, <3>1 DEF Leads, IsLoop
      <3>3. path = Here.path /\ i = Here.todo[1]
        <4>1. Front(Append(path, i)) = path /\ Last(Append(path, i)) = i
          BY LastOf
        <4> QED BY <1>1, <3>2, <4>1
      <3> QED BY <1>1, <3>3 DEF Leads
    <2>2. CASE IsIn(Rest, c)
      <3>1. /\ c.do = Here.do /\ c.path = Here.path
            /\ \A j \in 1..Len(c.todo) :
                 j + 1 \in 1..Len(Here.todo) /\ c.todo[j] = Here.todo[j + 1]
        BY <1>1, <1>2, <2>2
      <3>2. path = Here.path /\ \E j \in 1..Len(c.todo) : c.todo[j] = i
        BY <1>7, <1>10, <3>1 DEF Leads, IsVisit
      <3> QED BY <3>1, <3>2 DEF Leads
    <2> QED BY <1>4, <1>10, <2>1, <2>2
  <1>11. VisitsInv'
    BY DEF WInv, VisitsInv
  <1>12. Continue(first)
    BY DEF first
  <1>13. CountInv'
    <2>1. visits' = visits /\ DOMAIN hashes' = DOMAIN hashes
      OBVIOUS
    <2> QED BY <1>4, <1>8, <1>9, <1>10, <1>12, <2>1, CountStays
  <1> QED BY <1>4, <1>5, <1>6, <1>7, <1>11, <1>12, <1>13, PlainStep

LEMMA NextItemKeepsWork == WInv /\ NextItem => WInv'
  <1> SUFFICES ASSUME WInv, NextItem PROVE WInv'
    OBVIOUS
  <1> DEFINE node == Call("node", Inner)
  <1>1. /\ calls # <<>> /\ Here.do = "items" /\ IsLoop(Here) /\ Continue(<<node>> \o Rest)
        /\ UNCHANGED <<tree, hashes, listsort_cache, visits>>
    BY DEF NextItem, IsLoop
  <1>2. /\ IsSound(Here) /\ Here.path \in Seq(Nat) /\ Head(Here.todo) = Here.todo[1]
        /\ Inner = Append(Here.path, Head(Here.todo)) /\ Inner \in Seq(Nat)
        /\ 1 \in 1..Len(Here.todo)
    BY <1>1, LoopHere
  <1>3. IsList(Here.path) /\ Head(Here.todo) \in 1..Size(Here.path)
    BY <1>1, <1>2 DEF IsSound
  <1>4. NodeAt(Inner) \in Nodes
    BY <1>2, <1>3, InsideList
  <1>5. IsSound(node) /\ node.path = Inner /\ node.do = "node"
    BY <1>2, <1>4 DEF Call, IsSound, IsLoop
  <1> HIDE DEF node
  <1>6. IsSeq(<<node>>) /\ AllNest(<<node>>) /\ \A c : IsIn(<<node>>, c) <=> c = node
    BY One
  <1>7. \A c : IsIn(<<node>>, c) => /\ IsSound(c) /\ c.path = Inner
                                    /\ c.do \in {"node", "struct", "hashed", "close"}
                                    /\ c.do = "hashed" => Here.do = "hash"
    BY <1>5, <1>6
  <1> QED BY <1>1, <1>6, <1>7, LoopStep

(* The two calls that are made for an item, or for a field, are for the    *)
(* same path.                                                              *)
LEMMA TwoCalls ==
  ASSUME NEW c, NEW d, c.path = d.path, c.path \in Seq(Nat),
         c.do \in {"node", "struct"}, d.do \in {"hashed", "close"}
  PROVE  /\ IsSeq(<<c, d>>) /\ AllNest(<<c, d>>)
         /\ \A e : IsIn(<<c, d>>, e) => e = c \/ e = d
  <1>1. AreNested(c, d)
    BY DEF AreNested, IsActive, IsVisit, IsLoop
  <1> QED BY <1>1 DEF IsSeq, AllNest, IsIn

LEMMA HashItemKeepsWork == WInv /\ HashItem => WInv'
  <1> SUFFICES ASSUME WInv, HashItem PROVE WInv'
    OBVIOUS
  <1> DEFINE node == Call("node", Inner)
             hashed == [do |-> "hashed", path |-> Inner, ctx |-> context]
  <1>1. /\ calls # <<>> /\ Here.do = "hash" /\ IsLoop(Here)
        /\ Continue(<<node, hashed>> \o Rest)
        /\ UNCHANGED <<tree, hashes, listsort_cache, visits>>
    BY DEF HashItem, IsLoop
  <1>2. /\ IsSound(Here) /\ Here.path \in Seq(Nat) /\ Head(Here.todo) = Here.todo[1]
        /\ Inner = Append(Here.path, Head(Here.todo)) /\ Inner \in Seq(Nat)
        /\ 1 \in 1..Len(Here.todo) /\ Len(Here.todo) \in Nat /\ Head(Here.todo) \in Nat
    BY <1>1, LoopHere
  <1>3. /\ IsList(Here.path) /\ Head(Here.todo) \in 1..Size(Here.path) /\ IsHashing(Here)
    BY <1>1, <1>2 DEF IsSound
  <1>4. NodeAt(Inner) \in Nodes /\ Size(Here.path) \in Nat
    BY <1>2, <1>3, InsideList
  <1>5. IsSound(node) /\ node.path = Inner /\ node.do = "node"
    BY <1>2, <1>4 DEF Call, IsSound, IsLoop
  <1>6. IsHashed(hashed)
    <2>1. /\ Here.path \in DOMAIN hashes
          /\ Len(hashes[Here.path]) <= Size(Here.path) - Len(Here.todo)
          /\ Head(Here.todo) = Size(Here.path) - Len(Here.todo) + 1
      BY <1>2, <1>3 DEF IsHashing
    <2>2. Len(hashes[Here.path]) \in Nat
      BY <2>1 DEF WInv, HashesInv, IsSeq
    <2>3. Len(hashes[Here.path]) < Head(Here.todo) /\ Head(Here.todo) <= Size(Here.path)
      BY <1>2, <1>4, <2>1, <2>2
    <2>4. hashed.path = Append(Here.path, Head(Here.todo))
      BY <1>2
    <2> HIDE DEF hashed
    <2> QED BY <1>2, <2>1, <2>3, <2>4 DEF IsHashed
  <1>7. hashed.path = Inner /\ hashed.do = "hashed"
    OBVIOUS
  <1> HIDE DEF node, hashed
  <1>8. IsSound(hashed)
    BY <1>2, <1>6, <1>7 DEF IsSound, IsLoop
  <1>9. /\ IsSeq(<<node, hashed>>) /\ AllNest(<<node, hashed>>)
        /\ \A e : IsIn(<<node, hashed>>, e) => e = node \/ e = hashed
    BY <1>2, <1>5, <1>7, TwoCalls
  <1>10. \A c : IsIn(<<node, hashed>>, c) =>
           /\ IsSound(c) /\ c.path = Inner
           /\ c.do \in {"node", "struct", "hashed", "close"}
           /\ c.do = "hashed" => Here.do = "hash"
    BY <1>1, <1>5, <1>7, <1>8, <1>9
  <1> QED BY <1>1, <1>9, <1>10, LoopStep

LEMMA FieldHere ==
  ASSUME WInv, AtField
  PROVE  /\ IsLoop(Here) /\ Inner \in Seq(Nat)
         /\ HowOf(Inner) # "text" => NodeAt(Inner) \in Nodes
         /\ HowOf(Inner) = "struct" => IsMessage(Inner)
  <1>1. calls # <<>> /\ Here.do = "fields" /\ IsLoop(Here)
    BY DEF AtField, IsLoop
  <1>2. /\ IsSound(Here) /\ Here.path \in Seq(Nat) /\ Head(Here.todo) = Here.todo[1]
        /\ Inner = Append(Here.path, Head(Here.todo)) /\ Inner \in Seq(Nat)
        /\ 1 \in 1..Len(Here.todo) /\ Head(Here.todo) \in Nat
    BY <1>1, LoopHere
  <1>3. IsMessage(Here.path) /\ IsField(Here.path, Head(Here.todo))
    BY <1>1, <1>2 DEF IsSound
  <1> QED BY <1>1, <1>2, <1>3, InsideMessage

LEMMA FieldsKeepWork == WInv /\ (FingerprintText \/ FingerprintField) => WInv'
  <1> SUFFICES ASSUME WInv, FingerprintText \/ FingerprintField PROVE WInv'
    OBVIOUS
  <1>1. AtField /\ calls # <<>>
    BY DEF FingerprintText, FingerprintField, AtField
  <1>2. IsLoop(Here) /\ Inner \in Seq(Nat)
    BY <1>1, FieldHere
  <1>3. CASE FingerprintText
    <2>1. Continue(Rest) /\ UNCHANGED <<tree, hashes, listsort_cache, visits>>
      BY <1>3 DEF FingerprintText
    <2>2. Rest = <<>> \o Rest
      <3>1. IsSeq(Rest)
        BY <1>1, <1>2, RestOfLoop
      <3>2. PICK S : Rest \in Seq(S)
        BY <3>1, SeqOfItsElements
      <3> QED BY <3>2
    <2>3. Continue(<<>> \o Rest)
      BY <2>1, <2>2
    <2> QED BY <1>1, <1>2, <2>1, <2>3, None, LoopStep
  <1>4. CASE FingerprintField
    <2> DEFINE name == At(Inner).field_name
    <2>1. PICK how \in {"node", "struct"} :
            /\ HowOf(Inner) = how
            /\ Continue(<<Call(how, Inner),
                          [do |-> "close", path |-> Inner, prev |-> context.hash,
                           hash |-> Append(context.hash, name)]>> \o Rest)
      BY <1>4 DEF FingerprintField
    <2> DEFINE call == Call(how, Inner)
               close == [do |-> "close", path |-> Inner, prev |-> context.hash,
                         hash |-> Append(context.hash, name)]
    <2>2. UNCHANGED <<tree, hashes, listsort_cache, visits>>
      BY <1>4 DEF FingerprintField
    <2>3. /\ call.do = how /\ call.path = Inner /\ close.do = "close" /\ close.path = Inner
      BY DEF Call
    <2>4. Continue(<<call, close>> \o Rest)
      BY <2>1
    <2> HIDE DEF call, close, name
    <2>5. IsSound(call)
      BY <1>1, <1>2, <2>1, <2>3, FieldHere DEF IsSound, IsLoop
    <2>6. IsSound(close)
      BY <1>2, <2>3 DEF IsSound, IsLoop
    <2>7. /\ IsSeq(<<call, close>>) /\ AllNest(<<call, close>>)
          /\ \A e : IsIn(<<call, close>>, e) => e = call \/ e = close
      BY <1>2, <2>3, TwoCalls
    <2>8. \A c : IsIn(<<call, close>>, c) =>
            /\ IsSound(c) /\ c.path = Inner
            /\ c.do \in {"node", "struct", "hashed", "close"}
            /\ c.do = "hashed" => Here.do = "hash"
      BY <2>3, <2>5, <2>6, <2>7
    <2> QED BY <1>1, <1>2, <2>2, <2>4, <2>7, <2>8, LoopStep
  <1> QED BY <1>3, <1>4

LEMMA CloseFieldKeepsWork == WInv /\ CloseField => WInv'
  <1> SUFFICES ASSUME WInv, CloseField PROVE WInv'
    OBVIOUS
  <1>1. /\ calls # <<>> /\ Here.do = "close" /\ Here.do # "sort" /\ Continue(<<>>)
        /\ UNCHANGED <<tree, hashes, listsort_cache, visits>>
    BY DEF CloseField
  <1>2. VisitsInv'
    BY <1>1 DEF WInv, VisitsInv
  <1>3. CountInv'
    BY <1>1, None, CountStays
  <1> QED BY <1>1, <1>2, <1>3, None, PlainStep
-----------------------------------------------------------------------------
LEMMA ItemHashedKeepsWork == WInv /\ ItemHashed => WInv'
  <1> SUFFICES ASSUME WInv, ItemHashed PROVE WInv'
    OBVIOUS
  <1>1. /\ calls # <<>> /\ Here.do = "hashed" /\ Here.do # "sort" /\ Continue(<<>>)
        /\ hashes' = [hashes EXCEPT ![Front(Here.path)] = Append(@, Digest(context.hash))]
        /\ UNCHANGED <<tree, listsort_cache, visits>>
    BY DEF ItemHashed
  <1>2. PICK list \in Seq(Nat), i \in Nat :
          /\ Here.path = Append(list, i)
          /\ list \in DOMAIN hashes /\ Len(hashes[list]) < i /\ i <= Size(list)
    BY <1>1, Below DEF WInv, IsSound, IsHashed
  <1>3. Front(Here.path) = list /\ Last(Here.path) = i /\ Len(Here.path) = Len(list) + 1
        /\ Len(list) \in Nat
    BY <1>2, LastOf
  <1>4. IsList(list) /\ Size(list) \in Nat /\ IsSeq(hashes[list]) /\ Len(hashes[list]) \in Nat
    BY <1>2, InsideList DEF WInv, HashesInv, IsSeq
  <1>5. /\ IsSeq(Append(hashes[list], Digest(context.hash)))
        /\ Len(Append(hashes[list], Digest(context.hash))) = Len(hashes[list]) + 1
    <2>1. PICK S : hashes[list] \in Seq(S)
      BY <1>4, SeqOfItsElements
    <2>2. hashes[list] \in Seq(S \cup {Digest(context.hash)})
      BY <2>1
    <2> QED BY <1>4, <2>2, Appended
  <1>6. /\ DOMAIN hashes' = DOMAIN hashes
        /\ hashes'[list] = Append(hashes[list], Digest(context.hash))
        /\ \A path \in DOMAIN hashes : path # list => hashes'[path] = hashes[path]
    BY <1>1, <1>2, <1>3
  <1>7. IsSeq(hashes'[list]) /\ Len(hashes'[list]) = Len(hashes[list]) + 1
    BY <1>5, <1>6
  <1>8. \A path : Sorts(path) => Sorts(path)'
    BY <1>1, None, SortsStay DEF WInv
  <1>9. HashesInv'
    <2> SUFFICES ASSUME NEW path \in DOMAIN hashes'
                 PROVE  /\ path \in Seq(Nat) /\ IsInAnyOrder(path)' /\ IsList(path)'
                        /\ IsSeq(hashes'[path]) /\ Len(hashes'[path]) <= Size(path)'
                        /\ path \in DOMAIN listsort_cache' \/ Sorts(path)'
      BY DEF HashesInv
    <2>1. /\ path \in Seq(Nat) /\ IsInAnyOrder(path) /\ IsList(path)
          /\ IsSeq(hashes[path]) /\ Len(hashes[path]) <= Size(path)
          /\ path \in DOMAIN listsort_cache \/ Sorts(path)
      BY <1>6 DEF WInv, HashesInv
    <2>2. IsInAnyOrder(path)' = IsInAnyOrder(path) /\ IsList(path)' = IsList(path)
          /\ Size(path)' = Size(path)
      BY <1>1, PlacesStay
    <2>3. IsSeq(hashes'[path]) /\ Len(hashes'[path]) <= Size(path)
      <3>1. CASE path = list
        <4>1. Len(hashes[list]) + 1 <= Size(list)
          BY <1>2, <1>4
        <4> QED BY <1>7, <3>1, <4>1
      <3>2. CASE path # list
        BY <1>6, <2>1, <3>2
      <3> QED BY <3>1, <3>2
    <2> QED BY <1>1, <1>8, <2>1, <2>2, <2>3
  <1>10. CacheInv'
    BY <1>1, PlacesStay DEF WInv, CacheInv, IsTurn
  <1>11. ASSUME NEW d, IsBelow(d) PROVE IsSound(d)'
    <2>1. IsSound(d) /\ AreNested(Here, d) /\ d.path \in Seq(Nat)
      BY <1>1, <1>11, Below DEF WInv
    <2>2. d.do = "hash" => IsHashing(d)'
      <3> SUFFICES ASSUME d.do = "hash" PROVE IsHashing(d)'
        OBVIOUS
      <3>1. /\ IsInAnyOrder(d.path) /\ d.path \in DOMAIN hashes /\ IsTodo(d)
            /\ \A j \in 1..Len(d.todo) : d.todo[j] = Size(d.path) - Len(d.todo) + j
            /\ Len(hashes[d.path]) <= Size(d.path) - Len(d.todo)
        BY <2>1 DEF IsSound, IsHashing, IsLoop
      <3>2. /\ IsInAnyOrder(d.path)' = IsInAnyOrder(d.path) /\ Size(d.path)' = Size(d.path)
        BY <1>1, PlacesStay
      <3>3. Len(hashes'[d.path]) <= Size(d.path) - Len(d.todo)
        <4>1. CASE d.path = list
          <5>1. i < d.todo[1]
            BY <1>1, <1>3, <2>1, <4>1 DEF AreNested
          <5>2. Len(d.todo) \in Nat /\ 1 \in 1..Len(d.todo)
            <6>1. Len(d.todo) \in Nat /\ Len(d.todo) # 0
              BY <3>1 DEF IsTodo, IsSeq
            <6> QED BY <6>1
          <5>3. d.todo[1] = Size(list) - Len(d.todo) + 1
            BY <3>1, <4>1, <5>2
          <5> QED BY <1>2, <1>4, <1>7, <4>1, <5>1, <5>2, <5>3
        <4>2. CASE d.path # list
          BY <1>6, <3>1, <4>2
        <4> QED BY <4>1, <4>2
      <3> QED BY <1>6, <3>1, <3>2, <3>3 DEF IsHashing
    <2>3. d.do = "hashed" => IsHashed(d)'
      <3> SUFFICES ASSUME d.do = "hashed" PROVE IsHashed(d)'
        OBVIOUS
      <3>1. PICK path \in Seq(Nat), j \in Nat :
              /\ d.path = Append(path, j)
              /\ path \in DOMAIN hashes /\ Len(hashes[path]) < j /\ j <= Size(path)
        BY <2>1 DEF IsSound, IsHashed
      <3>2. Len(d.path) < Len(Here.path)
        BY <1>1, <2>1 DEF AreNested
      <3>3. path # list
        <4>1. Len(d.path) = Len(path) + 1 /\ Len(path) \in Nat
          BY <3>1, LastOf
        <4> QED BY <1>3, <3>2, <4>1
      <3>4. path \in DOMAIN hashes' /\ Len(hashes'[path]) < j /\ j <= Size(path)'
        BY <1>1, <1>6, <3>1, <3>3, PlacesStay
      <3> QED BY <3>1, <3>4 DEF IsHashed
    <2>4. d.do = "sort" => d.path \in DOMAIN hashes'
      BY <1>6, <2>1 DEF IsSound
    <2> QED BY <1>1, <2>1, <2>2, <2>3, <2>4, StillSound
  <1>12. IsSeq(calls') /\ AllSound' /\ CallsNest'
    BY <1>1, <1>11, None, StackKept
  <1>13. VisitsInv'
    BY <1>1 DEF WInv, VisitsInv
  <1>14. CountInv'
    BY <1>1, <1>6, None, CountStays
  <1> QED BY <1>1, <1>9, <1>10, <1>12, <1>13, <1>14 DEF WInv

LEMMA SortingsAreTurns ==
  ASSUME NEW list, IsSeq(list), NEW n \in Nat, Len(list) <= n, NEW items \in Sortings(list)
  PROVE  IsTurn(items, n)
  <1> DEFINE entries == {[hash |-> list[i], list_pos |-> i] : i \in DOMAIN list}
  <1>1. /\ items \in [DOMAIN list -> entries]
        /\ \A i, j \in DOMAIN list : items[i].list_pos = items[j].list_pos => i = j
    BY DEF Sortings
  <1>2. Len(list) \in Nat /\ DOMAIN list = 1..Len(list)
    BY DEF IsSeq
  <1>3. \A entry \in entries : entry.list_pos \in 1..n
    BY <1>2
  <1> HIDE DEF entries
  <1>4. items \in Seq(entries) /\ Len(items) = Len(list)
    BY <1>1, <1>2
  <1>5. IsSeq(items)
    BY <1>4, ElementsMakeSeq
  <1> QED BY <1>1, <1>2, <1>3, <1>4, <1>5 DEF IsTurn

LEMMA SortItemsKeepsWork == WInv /\ SortItems => WInv'
  <1> SUFFICES ASSUME WInv, SortItems PROVE WInv'
    OBVIOUS
  <1>1. /\ calls # <<>> /\ Here.do = "sort" /\ UNCHANGED <<tree, hashes, visits>>
    BY DEF SortItems
  <1>2. PICK items \in Sortings(hashes[Here.path]) :
          /\ listsort_cache' = Put(listsort_cache, Here.path, items)
          /\ Continue(Loop("items", Here.path, SortedPositions(items)))
    BY DEF SortItems
  <1> DEFINE first == Loop("items", Here.path, SortedPositions(items))
  <1>3. IsSound(Here) /\ Here.path \in Seq(Nat) /\ Here.path \in DOMAIN hashes
    BY <1>1, Below DEF WInv, IsSound
  <1>4. /\ IsList(Here.path) /\ IsSeq(hashes[Here.path])
        /\ Len(hashes[Here.path]) <= Size(Here.path) /\ Size(Here.path) \in Nat
    BY <1>3, InsideList DEF WInv, HashesInv
  <1>5. IsTurn(items, Size(Here.path))
    BY <1>2, <1>4, SortingsAreTurns
  <1>6. \A c : IsIn(first, c) => IsSound(c) /\ c.do = "items" /\ c.path = Here.path
    BY <1>3, <1>4, <1>5, SortedPositionsAre, ItemLoopSound
  <1>7. IsSeq(first) /\ AllNest(first) /\ Continue(first)
    BY <1>2, OneLoop
  <1> HIDE DEF first
  <1>8. \A c : IsSound(c) => IsSound(c)'
    BY <1>1, SoundStays
  <1>9. \A d : IsBelow(d) => IsSound(d)
    BY <1>1, Below DEF WInv
  <1>10. ASSUME NEW c, NEW d, IsIn(first, c), IsSound(d), AreNested(Here, d)
         PROVE  AreNested(c, d)
    <2>1. c.do = "items" /\ c.path = Here.path
      BY <1>6, <1>10
    <2> QED BY <1>1, <1>10, <2>1 DEF AreNested, IsActive, IsVisit, IsLoop
  <1>11. IsSeq(calls') /\ AllSound' /\ CallsNest'
    BY <1>1, <1>6, <1>7, <1>8, <1>9, <1>10, StackKept
  <1>12. \A path : path # Here.path /\ Sorts(path) => Sorts(path)'
    <2>1. /\ \A c : IsCalled(c)' <=> IsIn(first, c) \/ IsBelow(c)
          /\ \A c : IsCalled(c) <=> c = Here \/ IsBelow(c)
      BY <1>1, <1>7, CallsAre DEF WInv
    <2> QED BY <2>1, CalledIs, CalledIsNext
  <1>13. /\ DOMAIN listsort_cache' = DOMAIN listsort_cache \cup {Here.path}
         /\ \A path \in DOMAIN listsort_cache' : listsort_cache'[path] =
              IF path = Here.path THEN items ELSE listsort_cache[path]
    BY <1>2 DEF Put
  <1>14. HashesInv'
    <2> SUFFICES ASSUME NEW path \in DOMAIN hashes
                 PROVE  /\ path \in Seq(Nat) /\ IsInAnyOrder(path)' /\ IsList(path)'
                        /\ IsSeq(hashes[path]) /\ Len(hashes[path]) <= Size(path)'
                        /\ path \in DOMAIN listsort_cache' \/ Sorts(path)'
      BY <1>1 DEF HashesInv
    <2>1. /\ path \in Seq(Nat) /\ IsInAnyOrder(path) /\ IsList(path)
          /\ IsSeq(hashes[path]) /\ Len(hashes[path]) <= Size(path)
          /\ path \in DOMAIN listsort_cache \/ Sorts(path)
      BY DEF WInv, HashesInv
    <2>2. IsInAnyOrder(path)' = IsInAnyOrder(path) /\ IsList(path)' = IsList(path)
          /\ Size(path)' = Size(path)
      BY <1>1, PlacesStay
    <2> QED BY <1>12, <1>13, <2>1, <2>2
  <1>15. CacheInv'
    <2> SUFFICES ASSUME NEW path \in DOMAIN listsort_cache'
                 PROVE  IsTurn(listsort_cache'[path], Size(path)')
      BY DEF CacheInv, IsTurn
    <2>1. Size(path)' = Size(path)
      BY <1>1, PlacesStay
    <2> QED BY <1>5, <1>13, <2>1 DEF WInv, CacheInv
  <1>16. VisitsInv'
    BY <1>1 DEF WInv, VisitsInv
  <1>17. CountInv'
    <2>1. visits' = visits /\ DOMAIN hashes' = DOMAIN hashes
      BY <1>1
    <2> QED BY <1>1, <1>6, <1>7, <2>1, CountSorts
  <1> QED BY <1>1, <1>11, <1>14, <1>15, <1>16, <1>17 DEF WInv
-----------------------------------------------------------------------------
(* A query is begun, and nothing was done for it so far.                   *)
LEMMA Begun ==
  ASSUME tree \in Queries, calls = FirstCall, hashes = <<>>, listsort_cache = <<>>, visits = <<>>
  PROVE  WInv
  <1> DEFINE call == Call("node", <<>>)
  <1>1. call.do = "node" /\ call.path = <<>>
    BY DEF Call
  <1>2. calls = <<call>>
    BY DEF FirstCall
  <1>3. NodeAt(<<>>) \in Nodes
    BY AtRoot, NodesAssumption DEF NodeAt, Root
  <1> HIDE DEF call
  <1>4. IsSound(call)
    BY <1>1, <1>3 DEF IsSound, IsLoop
  <1>5. /\ IsSeq(calls) /\ AllNest(calls) /\ Len(calls) = 1
        /\ \A d : IsIn(calls, d) <=> d = call
    BY <1>2, One
  <1>6. AllSound
    <2>1. \A i \in 1..Len(calls) : calls[i] = call
      BY <1>2, <1>5
    <2> QED BY <1>4, <2>1 DEF AllSound
  <1>7. CallsNest
    BY <1>5 DEF CallsNest, AllNest
  <1>8. DOMAIN hashes = {} /\ DOMAIN listsort_cache = {} /\ DOMAIN visits = {}
    OBVIOUS
  <1>9. HashesInv /\ CacheInv /\ VisitsInv
    BY <1>8 DEF HashesInv, CacheInv, VisitsInv
  <1>10. \A path : Count(path) = 0
    BY <1>8 DEF Count
  <1>11. \A c : IsCalled(c) <=> c = call
    BY <1>5 DEF IsCalled, IsIn
  <1>12. \A path : ~Sorts(path)
    BY <1>1, <1>11, CalledIs
  <1>13. \A path \in Seq(Nat), i \in Nat : ~Coming(path, i)
    <2>1. \A path \in Seq(Nat), i \in Nat : ~Leads(call, path, i)
      <3>1. \A path \in Seq(Nat), i \in Nat : Append(path, i) # <<>>
        BY LastOf
      <3> QED BY <1>1, <3>1 DEF Leads, IsVisit, IsLoop
    <2> QED BY <1>11, <2>1, CalledIs
  <1>14. CountInv
    <2>1. Count(<<>>) + OneIf(RootComing) <= 1
      BY <1>10 DEF OneIf
    <2>2. ASSUME NEW path \in Seq(Nat), NEW i \in Nat
          PROVE  Count(Append(path, i)) + OneIf(Coming(path, i)) + OneIf(Sorts(path))
                   <= Count(path) + OneIf(path \in DOMAIN hashes)
      <3>1. OneIf(Coming(path, i)) = 0 /\ OneIf(Sorts(path)) = 0
            /\ OneIf(path \in DOMAIN hashes) \in {0, 1}
        BY <1>12, <1>13 DEF OneIf
      <3>2. Count(path) = 0 /\ Count(Append(path, i)) = 0
        BY <1>10
      <3> QED BY <3>1, <3>2
    <2> QED BY <2>1, <2>2 DEF CountInv
  <1> QED BY <1>5, <1>6, <1>7, <1>9, <1>14 DEF WInv

LEMMA BegunAgain ==
  (/\ tree \in Queries /\ calls = FirstCall /\ hashes = <<>> /\ listsort_cache = <<>>
   /\ visits = <<>>) => WInv
  BY Begun

LEMMA WInvStep == WInv /\ [Next]_vars => WInv'
  <1> SUFFICES ASSUME WInv, [Next]_vars PROVE WInv'
    OBVIOUS
  <1>1. CASE \/ IgnoreNode \/ FingerprintValue \/ FingerprintMessage \/ FingerprintStruct
             \/ FingerprintList \/ FingerprintCachedList
    BY <1>1, VisitsKeepWork
  <1>2. CASE FingerprintNewList \/ NextItem \/ HashItem \/ ItemHashed \/ SortItems
    BY <1>2, NewListKeepsWork, NextItemKeepsWork, HashItemKeepsWork, ItemHashedKeepsWork,
       SortItemsKeepsWork
  <1>3. CASE FingerprintText \/ FingerprintField \/ CloseField
    BY <1>3, FieldsKeepWork, CloseFieldKeepsWork
  <1>4. CASE FinishQuery
    <2>1. /\ (tree \in Queries)' /\ (calls = FirstCall)' /\ (hashes = <<>>)'
          /\ (listsort_cache = <<>>)' /\ (visits = <<>>)'
      BY <1>4 DEF FinishQuery, FirstCall, Call
    <2>2. (/\ tree \in Queries /\ calls = FirstCall /\ hashes = <<>> /\ listsort_cache = <<>>
           /\ visits = <<>>)' => WInv'
      BY BegunAgain, PTL
    <2> QED BY <2>1, <2>2
  <1>5. CASE UNCHANGED vars
    <2>1. UNCHANGED <<tree, calls, hashes, listsort_cache, visits>>
      BY <1>5 DEF vars
    <2>2. AllSound'
      <3>1. ASSUME NEW i \in 1..Len(calls'), NEW c, c = calls'[i] PROVE IsSound(c)'
        <4>1. IsSound(c)
          BY <2>1, <3>1 DEF WInv, AllSound
        <4> QED BY <2>1, <4>1, SoundStays
      <3> QED BY <3>1 DEF AllSound
    <2>3. HashesInv' /\ CacheInv'
      <3>1. \A path : Sorts(path) => Sorts(path)'
        BY <2>1 DEF Sorts
      <3> QED BY <2>1, <3>1, HashesStay DEF WInv
    <2>4. CallsNest' /\ VisitsInv' /\ IsSeq(calls)' /\ (tree \in Queries)'
      BY <2>1 DEF WInv, CallsNest, VisitsInv
    <2>5. CountInv'
      <3>1. /\ \A path : Count(path)' = Count(path) /\ Sorts(path)' = Sorts(path)
            /\ \A path, i : Coming(path, i)' = Coming(path, i)
            /\ RootComing' = RootComing
        BY <2>1 DEF Count, Sorts, Coming, RootComing
      <3> QED BY <2>1, <3>1 DEF WInv, CountInv, OneIf
    <2> QED BY <2>2, <2>3, <2>4, <2>5 DEF WInv
  <1> QED BY <1>1, <1>2, <1>3, <1>4, <1>5 DEF Next
-----------------------------------------------------------------------------
LEMMA AboveIsFinite ==
  ASSUME NEW path \in Seq(Nat)
  PROVE  IsFiniteSet(SortedAbove(path)) /\ Cardinality(SortedAbove(path)) \in Nat
  <1>1. Len(path) \in Nat /\ SortedAbove(path) \subseteq 1..Len(path)
    BY DEF SortedAbove
  <1>2. IsFiniteSet(1..Len(path))
    BY <1>1, FS_Interval
  <1>3. IsFiniteSet(SortedAbove(path))
    BY <1>1, <1>2, FS_Subset
  <1> QED BY <1>3, FS_CardinalityType

LEMMA AboveInside ==
  ASSUME NEW path \in Seq(Nat), NEW i \in Nat
  PROVE  /\ IsInAnyOrder(path) =>
              Cardinality(SortedAbove(Append(path, i))) = Cardinality(SortedAbove(path)) + 1
         /\ ~IsInAnyOrder(path) => SortedAbove(Append(path, i)) = SortedAbove(path)
  <1> DEFINE there == Append(path, i)
             N == Len(path)
  <1>1. /\ N \in Nat /\ DOMAIN path = 1..N /\ DOMAIN there = 1..(N + 1)
    OBVIOUS
  <1>2. ASSUME NEW k \in 1..(N + 1)
        PROVE  SubSeq(there, 1, k - 1) = SubSeq(path, 1, k - 1)
    OBVIOUS
  <1>3. SubSeq(path, 1, (N + 1) - 1) = path
    OBVIOUS
  <1>4. \A k \in 1..(N + 1) :
          k \in SortedAbove(there) <=> IsInAnyOrder(SubSeq(path, 1, k - 1))
    BY <1>1, <1>2 DEF SortedAbove, IsInAnyOrder, NodeAt
  <1>5. \A k \in 1..N : k \in SortedAbove(path) <=> IsInAnyOrder(SubSeq(path, 1, k - 1))
    BY <1>1 DEF SortedAbove, IsInAnyOrder, NodeAt
  <1>6. SortedAbove(there) \subseteq 1..(N + 1) /\ SortedAbove(path) \subseteq 1..N
    BY <1>1 DEF SortedAbove
  <1>a. N + 1 \in 1..(N + 1) /\ (N + 1 \in SortedAbove(there) <=> IsInAnyOrder(path))
    <2>1. N + 1 \in 1..(N + 1)
      BY <1>1
    <2>2. N + 1 \in SortedAbove(there) <=> IsInAnyOrder(SubSeq(path, 1, (N + 1) - 1))
      BY <1>4, <2>1
    <2>3. IsInAnyOrder(SubSeq(path, 1, (N + 1) - 1)) <=> IsInAnyOrder(path)
      BY <1>3, Zenon
    <2> QED BY <2>1, <2>2, <2>3
  <1> HIDE DEF there
  <1>7. CASE IsInAnyOrder(path)
    <2>1. N + 1 \in SortedAbove(there)
      BY <1>a, <1>7
    <2>2. SortedAbove(there) = SortedAbove(path) \cup {N + 1}
      BY <1>1, <1>4, <1>5, <1>6, <2>1
    <2>3. N + 1 \notin SortedAbove(path) /\ IsFiniteSet(SortedAbove(path))
      BY <1>1, <1>6, AboveIsFinite
    <2> QED BY <1>7, <2>2, <2>3, FS_AddElement DEF there
  <1>8. CASE ~IsInAnyOrder(path)
    <2>1. N + 1 \notin SortedAbove(there)
      BY <1>a, <1>8
    <2>2. SortedAbove(there) = SortedAbove(path)
      BY <1>1, <1>4, <1>5, <1>6, <2>1
    <2> QED BY <1>8, <2>2 DEF there
  <1> QED BY <1>7, <1>8

LEMMA WorkOnAPath ==
  ASSUME WInv, NEW path \in Seq(Nat)
  PROVE  Count(path) <= 1 + Cardinality(SortedAbove(path))
  <1> DEFINE N == Len(path)
             up(n) == SubSeq(path, 1, n)
             T == {n \in 0..N : Count(up(n)) <= 1 + Cardinality(SortedAbove(up(n)))}
  <1>1. \A p : Count(p) \in Nat
    BY CountsAreNumbers DEF WInv
  <1>2. 0 \in T
    <2>1. up(0) = <<>> /\ 0 \in 0..N /\ <<>> \in Seq(Nat)
      OBVIOUS
    <2>2. Count(<<>>) + OneIf(RootComing) <= 1 /\ OneIf(RootComing) \in {0, 1}
      BY NoMoreComing DEF WInv, CountInv
    <2>3. Cardinality(SortedAbove(<<>>)) \in Nat
      BY <2>1, AboveIsFinite
    <2>4. Count(<<>>) <= 1 + Cardinality(SortedAbove(<<>>))
      BY <1>1, <2>2, <2>3
    <2> QED BY <2>1, <2>4
  <1>3. ASSUME NEW n \in 1..N, n - 1 \in T PROVE n \in T
    <2> DEFINE p == up(n - 1)
    <2>1. p \in Seq(Nat) /\ path[n] \in Nat /\ up(n) = Append(p, path[n]) /\ n \in 0..N
      OBVIOUS
    <2>2. Count(p) <= 1 + Cardinality(SortedAbove(p))
      BY <1>3
    <2> HIDE DEF p
    <2> DEFINE q == Append(p, path[n])
    <2>3. Count(q) + OneIf(Coming(p, path[n])) + OneIf(Sorts(p))
            <= Count(p) + OneIf(p \in DOMAIN hashes)
      BY <2>1 DEF WInv, CountInv
    <2>4. OneIf(Coming(p, path[n])) \in {0, 1} /\ OneIf(Sorts(p)) \in {0, 1}
          /\ OneIf(p \in DOMAIN hashes) \in {0, 1}
      BY Zenon DEF OneIf
    <2>5. Cardinality(SortedAbove(p)) \in Nat
      BY <2>1, AboveIsFinite
    <2>6. CASE IsInAnyOrder(p)
      <3>1. Cardinality(SortedAbove(q)) = Cardinality(SortedAbove(p)) + 1
        BY <2>1, <2>6, AboveInside
      <3>2. Count(q) <= 1 + Cardinality(SortedAbove(q))
        BY <1>1, <2>2, <2>3, <2>4, <2>5, <3>1
      <3> QED BY <2>1, <3>2
    <2>7. CASE ~IsInAnyOrder(p)
      <3>1. SortedAbove(q) = SortedAbove(p)
        BY <2>1, <2>7, AboveInside
      <3>2. OneIf(p \in DOMAIN hashes) = 0
        BY <2>7 DEF WInv, HashesInv, OneIf
      <3>3. Count(q) <= 1 + Cardinality(SortedAbove(q))
        BY <1>1, <2>2, <2>3, <2>4, <2>5, <3>1, <3>2
      <3> QED BY <2>1, <3>3
    <2> QED BY <2>6, <2>7
  <1>4. N \in Nat
    OBVIOUS
  <1> HIDE DEF T
  <1>5. N \in T
    BY <1>2, <1>3, <1>4, FromZeroUp
  <1>6. up(N) = path
    OBVIOUS
  <1> QED BY <1>5, <1>6 DEF T

(* The cache keeps the work linear (pg_query_fingerprint.c:136-196): a     *)
(* node is looked at once, and once more for each list around it whose     *)
(* items were sorted, whatever the tree and however deep the lists are     *)
(* within each other.                                                      *)
THEOREM WorkStaysLinear == Spec => []WorkIsLinear
  <1>1. Init => WInv
    BY Begun DEF Init
  <1>2. WInv => WorkIsLinear
    <2> SUFFICES ASSUME WInv, NEW path \in DOMAIN visits
                 PROVE  visits[path] <= 1 + Cardinality(SortedAbove(path))
      BY DEF WorkIsLinear
    <2>1. path \in Seq(Nat) /\ Count(path) = visits[path]
      BY DEF WInv, VisitsInv, Count
    <2> QED BY <2>1, WorkOnAPath
  <1> QED BY <1>1, <1>2, WInvStep, PTL DEF Spec
=============================================================================
