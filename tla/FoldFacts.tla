------------------------------ MODULE FoldFacts ------------------------------
(***************************************************************************)
(* Induction over a fold.  The loops of the code over a list are folds of  *)
(* an operator from the left; what such a loop keeps true is proved here   *)
(* once, for any operator Op and any relation P between what the loop      *)
(* began with, what it has, and what it has gone through.  A module that   *)
(* needs it instantiates Op and P with operators of its own.               *)
(***************************************************************************)
EXTENDS SequencesExt, SequenceTheorems, WellFoundedInduction, TLAPS

CONSTANTS Op(_, _), P(_, _, _)

-----------------------------------------------------------------------------
(* Induction over numbers, for a set of them.                              *)

\* A set of numbers that is not empty has a least one.
LEMMA LeastNumber ==
  ASSUME NEW numbers \in SUBSET Nat, numbers # {}
  PROVE  \E n \in numbers : \A m \in numbers : n <= m
<1>1. PICK n \in numbers : \A m \in numbers : ~(<<m, n>> \in OpToRel(<, Nat))
  BY NatLessThanWellFounded, WFMin
<1>2. \A m \in numbers : ~(m < n)
  BY <1>1 DEF OpToRel
<1> QED
  BY <1>2

\* A set that has 0, and with each number the next one, has them all.
LEMMA SetInduction ==
  ASSUME NEW numbers, 0 \in numbers, \A n \in Nat : n \in numbers => n + 1 \in numbers
  PROVE  Nat \subseteq numbers
<1> SUFFICES ASSUME Nat \ numbers # {} PROVE FALSE
  OBVIOUS
<1>1. PICK n \in Nat \ numbers : \A m \in Nat \ numbers : n <= m
  BY LeastNumber
<1>2. n # 0 /\ n - 1 \in Nat /\ (n - 1) + 1 = n
  BY <1>1
<1>3. n - 1 \in numbers
  BY <1>1, <1>2
<1> QED
  BY <1>1, <1>2, <1>3

-----------------------------------------------------------------------------
(* What a fold is.                                                         *)

\* The numbers up to k have k as their largest.
LEMMA LargestOfInterval ==
  ASSUME NEW k \in Nat, NEW numbers \in SUBSET (1..k), k \in numbers
  PROVE  Max(numbers) = k
<1>1. k \in numbers /\ \A m \in numbers : k >= m
  OBVIOUS
<1>2. \A x \in numbers : (\A y \in numbers : x >= y) => x = k
  OBVIOUS
<1> QED
  BY <1>1, <1>2 DEF Max

\* The fold of Op over a sequence.
Folded(base, s) == FoldLeft(Op, base, s)

\* iter[1..k] is the fold over the first k elements of s.
Unfolding(iter, base, s, n) ==
    /\ Folded(base, s) = iter[1..n]
    /\ iter[1..0] = base
    /\ \A k \in 1..n : iter[1..k] = Op(iter[1..(k - 1)], s[k])

\* A fold can be taken element by element.
LEMMA FoldUnfolds ==
  ASSUME NEW base, NEW s, NEW n \in Nat, DOMAIN s = 1..n
  PROVE  \E iter : Unfolding(iter, base, s, n)
<1> DEFINE Step(g, sub) == IF sub = {} THEN base ELSE Op(g[sub \ {Max(sub)}], s[Max(sub)])
           Unfolds(g, k) == g = [sub \in SUBSET (1..k) |-> Step(g, sub)]
           numbers == {k \in Nat : \E g : Unfolds(g, k)}
<1>1. 0 \in numbers
  <2> DEFINE g == [sub \in SUBSET (1..0) |-> base]
  <2>1. g = [sub \in SUBSET (1..0) |-> Step(g, sub)]
    OBVIOUS
  <2> QED
    BY <2>1
<1>2. ASSUME NEW k \in Nat, k \in numbers
      PROVE  k + 1 \in numbers
  <2>1. PICK g : Unfolds(g, k)
    BY <1>2
  <2> DEFINE h == [sub \in SUBSET (1..(k + 1)) |->
                      IF k + 1 \in sub THEN Op(g[sub \ {k + 1}], s[k + 1]) ELSE g[sub]]
  <2>2. ASSUME NEW sub \in SUBSET (1..(k + 1)), k + 1 \in sub
        PROVE  h[sub] = Step(h, sub)
    <3>1. Max(sub) = k + 1 /\ sub # {}
      BY <2>2, LargestOfInterval
    <3>2. /\ sub \ {k + 1} \in SUBSET (1..(k + 1))
          /\ k + 1 \notin sub \ {k + 1}
      OBVIOUS
    <3>3. h[sub \ {k + 1}] = g[sub \ {k + 1}]
      BY <3>2
    <3>4. h[sub] = Op(g[sub \ {k + 1}], s[k + 1])
      BY <2>2
    <3> QED
      BY <3>1, <3>3, <3>4
  <2>3. ASSUME NEW sub \in SUBSET (1..(k + 1)), k + 1 \notin sub
        PROVE  h[sub] = Step(h, sub)
    <3>1. sub \in SUBSET (1..k)
      BY <2>3
    <3>2. h[sub] = g[sub]
      BY <2>3
    <3>3. g[sub] = Step(g, sub)
      BY <2>1, <3>1
    <3>4. h[sub \ {Max(sub)}] = g[sub \ {Max(sub)}]
      BY <2>3
    <3> QED
      BY <3>2, <3>3, <3>4
  <2>4. h = [sub \in SUBSET (1..(k + 1)) |-> Step(h, sub)]
    <3> HIDE DEF Step
    <3>1. \A sub \in SUBSET (1..(k + 1)) : h[sub] = Step(h, sub)
      BY <2>2, <2>3
    <3> QED
      BY <3>1
  <2> HIDE DEF h, Step
  <2>5. \E f : Unfolds(f, k + 1)
    BY <2>4
  <2> QED
    BY <2>5
<1>3. n \in numbers
  <2> HIDE DEF numbers
  <2> QED
    BY <1>1, <1>2, SetInduction
<1> DEFINE iter == CHOOSE g : g = [sub \in SUBSET DOMAIN s |-> Step(g, sub)]
<1>4. iter = [sub \in SUBSET (1..n) |-> Step(iter, sub)]
  BY <1>3
<1>5. FoldLeft(Op, base, s) = iter[1..n]
  BY DEF FoldLeft, MapThenFoldSet
<1> HIDE DEF iter, numbers
<1>6. iter[1..0] = base
  <2>1. 1..0 = {} /\ {} \in SUBSET (1..n)
    OBVIOUS
  <2> QED
    BY <1>4, <2>1
<1>7. ASSUME NEW k \in 1..n PROVE iter[1..k] = Op(iter[1..(k - 1)], s[k])
  <2> HIDE DEF Step
  <2>0. k \in Nat /\ 1 <= k /\ k <= n
    BY <1>7
  <2>1. /\ 1..k \in SUBSET (1..n)
        /\ 1..k # {} /\ k \in 1..k
        /\ 1..k \in SUBSET (1..k)
    BY <2>0
  <2>2. Max(1..k) = k
    BY <2>0, <2>1, LargestOfInterval
  <2>3. (1..k) \ {k} = 1..(k - 1)
    OBVIOUS
  <2> QED
    BY <1>4, <2>1, <2>2, <2>3 DEF Step
<1> QED
  BY <1>5, <1>6, <1>7 DEF Unfolding, Folded

\* The fold over no elements is what it began with.
LEMMA FoldOfNothing ==
  ASSUME NEW base
  PROVE  FoldLeft(Op, base, <<>>) = base
<1>1. DOMAIN <<>> = 1..0 /\ 0 \in Nat
  OBVIOUS
<1>2. PICK iter : Unfolding(iter, base, <<>>, 0)
  BY <1>1, FoldUnfolds
<1> QED
  BY <1>2 DEF Unfolding, Folded

(***************************************************************************)
(* The fold over a list with one more element is one more step of it.      *)
(***************************************************************************)
LEMMA FoldAppends ==
  ASSUME NEW base, NEW X, NEW t \in Seq(X), NEW x \in X
  PROVE  FoldLeft(Op, base, Append(t, x)) = Op(FoldLeft(Op, base, t), x)
<1> DEFINE more == Append(t, x)
<1>0. Len(t) \in Nat
  BY LenProperties
<1>a. PICK n \in Nat : n = Len(t)
  BY <1>0
<1>b. /\ DOMAIN t = 1..n /\ DOMAIN more = 1..(n + 1)
      /\ \A k \in 1..n : more[k] = t[k]
      /\ more[n + 1] = x
  BY <1>a, LenProperties, AppendProperties
<1> HIDE DEF more
<1>c. PICK iter : Unfolding(iter, base, t, n)
  BY <1>b, FoldUnfolds
<1>d. PICK iterMore : Unfolding(iterMore, base, more, n + 1)
  <2>1. n + 1 \in Nat
    OBVIOUS
  <2> QED
    BY <1>b, <2>1, FoldUnfolds
<1> DEFINE numbers == {k \in Nat : k <= n => iter[1..k] = iterMore[1..k]}
<1>1. 0 \in numbers
  BY <1>c, <1>d DEF Unfolding
<1>2. ASSUME NEW k \in Nat, k \in numbers PROVE k + 1 \in numbers
  <2> SUFFICES ASSUME k + 1 <= n PROVE iter[1..(k + 1)] = iterMore[1..(k + 1)]
    OBVIOUS
  <2>1. k + 1 \in 1..n /\ k + 1 \in 1..(n + 1) /\ (k + 1) - 1 = k
    OBVIOUS
  <2>2. iter[1..(k + 1)] = Op(iter[1..k], t[k + 1])
    BY <1>c, <2>1 DEF Unfolding
  <2>3. iterMore[1..(k + 1)] = Op(iterMore[1..k], more[k + 1])
    BY <1>d, <2>1 DEF Unfolding
  <2> QED
    BY <1>b, <1>2, <2>1, <2>2, <2>3
<1>3. iter[1..n] = iterMore[1..n]
  <2>1. n \in numbers
    <3> HIDE DEF numbers
    <3> QED
      BY <1>1, <1>2, SetInduction
  <2> QED
    BY <2>1
<1>4. iterMore[1..(n + 1)] = Op(iterMore[1..n], x)
  <2>1. n + 1 \in 1..(n + 1) /\ (n + 1) - 1 = n
    OBVIOUS
  <2> QED
    BY <1>b, <1>d, <2>1 DEF Unfolding
<1> QED
  BY <1>3, <1>4, <1>c, <1>d DEF Unfolding, Folded, more

-----------------------------------------------------------------------------
(* The induction.                                                          *)

(***************************************************************************)
(* What is true before the first element, and stays true with each one, is *)
(* true of the fold over all of them.                                      *)
(***************************************************************************)
LEMMA FoldInduction ==
  ASSUME NEW base, NEW X, NEW s \in Seq(X), P(base, base, <<>>),
         \A d, t, x : P(base, d, t) /\ t \in Seq(X) /\ x \in X =>
             P(base, Op(d, x), Append(t, x))
  PROVE  P(base, FoldLeft(Op, base, s), s)
<1>0. Len(s) \in Nat /\ DOMAIN s = 1..Len(s) /\ \A i \in 1..Len(s) : s[i] \in X
  BY LenProperties, ElementOfSeq
<1>a. PICK n \in Nat : n = Len(s)
  BY <1>0
<1>b. DOMAIN s = 1..n
  BY <1>0, <1>a
<1>c. PICK iter : Unfolding(iter, base, s, n)
  BY <1>b, FoldUnfolds
<1>1. /\ FoldLeft(Op, base, s) = iter[1..n]
      /\ iter[1..0] = base
      /\ \A k \in 1..n : iter[1..k] = Op(iter[1..(k - 1)], s[k])
  BY <1>c DEF Unfolding, Folded
<1> DEFINE numbers == {k \in Nat : k <= n => P(base, iter[1..k], SubSeq(s, 1, k))}
<1>2. 0 \in numbers
  <2>1. SubSeq(s, 1, 0) = <<>>
    BY SubSeqEmpty
  <2> QED
    BY <1>1, <2>1
<1>3. ASSUME NEW k \in Nat, k \in numbers PROVE k + 1 \in numbers
  <2> SUFFICES ASSUME k + 1 <= n PROVE P(base, iter[1..(k + 1)], SubSeq(s, 1, k + 1))
    OBVIOUS
  <2>1. P(base, iter[1..k], SubSeq(s, 1, k))
    BY <1>3
  <2>2. iter[1..(k + 1)] = Op(iter[1..k], s[k + 1])
    <3>1. k + 1 \in 1..n /\ (k + 1) - 1 = k
      OBVIOUS
    <3> QED
      BY <1>1, <3>1
  <2>3. SubSeq(s, 1, k) \in Seq(X) /\ s[k + 1] \in X
    BY <1>0, <1>a
  <2>4. Append(SubSeq(s, 1, k), s[k + 1]) = SubSeq(s, 1, k + 1)
    BY <1>0, <1>a
  <2> QED
    BY <2>1, <2>2, <2>3, <2>4
<1>4. n \in numbers
  <2> HIDE DEF numbers
  <2> QED
    BY <1>0, <1>2, <1>3, SetInduction
<1>5. SubSeq(s, 1, n) = s
  BY <1>a, SubSeqFull
<1>6. P(base, iter[1..n], SubSeq(s, 1, n))
  BY <1>4
<1> QED
  BY <1>1, <1>5, <1>6
=============================================================================
