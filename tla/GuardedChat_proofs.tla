------------------------- MODULE GuardedChat_proofs -------------------------
(***************************************************************************)
(* Proofs about GuardedChat and the operators of GuardrailScan, for any    *)
(* patterns, policies, prompts, answers, and any way to cut these into     *)
(* chunks.                                                                 *)
(*                                                                         *)
(* What folds and flattened sequences compute is shown by induction, with  *)
(* a set in place of a predicate: Induction, SequenceInduction.  So is     *)
(* what the stretches of matched characters are (MergedSpans), what a      *)
(* redacted text is character by character (RedactTextIsRedaction), and    *)
(* that a stream put together from any fragments tells what the answer     *)
(* would have (AccumulatedIsAssembled).                                    *)
(*                                                                         *)
(* The inductive invariant IInv says of each stage of a request what the   *)
(* matches, the log, the messages and what was sent are, in terms of the   *)
(* operators.  The properties follow from it and from the operators.       *)
(***************************************************************************)
EXTENDS GuardedChat, SequenceTheorems, FiniteSetTheorems, WellFoundedInduction, TLAPS

(* Induction, over numbers and over sequences: what holds is a set. *)

\* A set of numbers has a least element.
LEMMA Minimum ==
    ASSUME NEW T \in SUBSET Nat, T # {}
    PROVE  \E x \in T : \A y \in T : x <= y
<1> DEFINE R == OpToRel(<, Nat)
<1>1. IsWellFoundedOn(R, Nat)
  BY NatLessThanWellFounded
<1>2. R = {ss \in Nat \X Nat : ss[1] < ss[2]}
  BY DEF OpToRel
<1> HIDE DEF R
<1>3. \E x \in T : \A y \in T : ~ (<<y, x>> \in R)
  BY <1>1, WFMin
<1>4. \A x, y \in T : <<y, x>> \notin R => x <= y
  BY <1>2
<1> QED
  BY <1>3, <1>4

\* A set of numbers that has 0, and with each number the next, has all.
LEMMA Induction ==
    ASSUME NEW P, 0 \in P, \A n \in Nat : n \in P => n + 1 \in P
    PROVE  Nat \subseteq P
<1> SUFFICES ASSUME Nat \ P # {} PROVE FALSE
  OBVIOUS
<1>1. PICK x \in Nat \ P : \A y \in Nat \ P : x <= y
  BY Minimum
<1>2. x - 1 \in Nat
  BY <1>1
<1>3. x - 1 \in P
  BY <1>1, <1>2
<1> QED
  BY <1>1, <1>2, <1>3

\* A set of sequences that has the empty one, and with each sequence those that
\* are longer by an element, has all.
LEMMA SequenceInduction ==
    ASSUME NEW S, NEW P, <<>> \in P,
           \A s \in Seq(S), e \in S : s \in P => Append(s, e) \in P
    PROVE  Seq(S) \subseteq P
<1> DEFINE N == {n \in Nat : \A s \in Seq(S) : Len(s) = n => s \in P}
<1>1. 0 \in N
  <2>1. \A s \in Seq(S) : Len(s) = 0 => s = <<>>
    OBVIOUS
  <2>2. QED
    BY <2>1
<1>2. ASSUME NEW n \in Nat, n \in N
      PROVE  n + 1 \in N
  <2>1. ASSUME NEW s \in Seq(S), Len(s) = n + 1
        PROVE  s \in P
    <3>1. s # <<>>
      BY <1>2, <2>1
    <3>2. PICK t \in Seq(S), e \in S : s = Append(t, e)
      BY <3>1, SequenceEmptyOrAppend
    <3>3. Len(t) = n
      BY <1>2, <2>1, <3>2, AppendProperties
    <3>4. t \in P
      BY <1>2, <3>3
    <3>5. QED
      BY <3>2, <3>4
  <2>2. QED
    BY <1>2, <2>1
<1>3. Nat \subseteq N
  <2> HIDE DEF N
  <2> QED
    BY <1>1, <1>2, Induction
<1>4. QED
  BY <1>3

\* A function may be defined by recursion over 0 .. n.
Recursion(n, T, base, step, f) ==
    f \in [0 .. n -> T] /\ f[0] = base /\ \A k \in 1 .. n : f[k] = step[k][f[k - 1]]

\* There is such a function.
LEMMA RecursiveFunction ==
    ASSUME NEW n \in Nat, NEW T, NEW base \in T, NEW step, step \in [1 .. n -> [T -> T]]
    PROVE  \E f : Recursion(n, T, base, step, f)
<1> USE DEF Recursion
<1> DEFINE Good(m, f) == f[0] = base /\ \A k \in 1 .. m : f[k] = step[k][f[k - 1]]
           P == {m \in Nat : m <= n => \E f \in [0 .. m -> T] : Good(m, f)}
<1>1. 0 \in P
  <2>1. [k \in 0 .. 0 |-> base] \in [0 .. 0 -> T] /\ Good(0, [k \in 0 .. 0 |-> base])
    OBVIOUS
  <2>2. QED
    BY <2>1
<1>2. ASSUME NEW m \in Nat, m \in P
      PROVE  m + 1 \in P
  <2> SUFFICES ASSUME m + 1 <= n PROVE \E f \in [0 .. m + 1 -> T] : Good(m + 1, f)
    OBVIOUS
  <2>1. PICK f \in [0 .. m -> T] : Good(m, f)
    BY <1>2
  <2> DEFINE g == [k \in 0 .. m + 1 |-> IF k = m + 1 THEN step[m + 1][f[m]] ELSE f[k]]
  <2>2. g \in [0 .. m + 1 -> T]
    <3>1. step[m + 1] \in [T -> T] /\ f[m] \in T
      OBVIOUS
    <3>2. QED
      BY <3>1
  <2>3. g[0] = base
    BY <2>1
  <2>4. ASSUME NEW k \in 1 .. m + 1
        PROVE  g[k] = step[k][g[k - 1]]
    <3>1. CASE k = m + 1
      BY <3>1
    <3>2. CASE k # m + 1
      BY <2>1, <3>2
    <3>3. QED
      BY <3>1, <3>2
  <2>5. QED
    BY <2>2, <2>3, <2>4
<1>3. Nat \subseteq P
  <2> HIDE DEF P
  <2> QED
    BY <1>1, <1>2, Induction
<1>4. n \in P
  BY <1>3
<1>5. QED
  BY <1>4

-----------------------------------------------------------------------------
(* FlattenSeq *)

\* What FlattenSeq is defined by.
LEMMA FlattenRecursion ==
    ASSUME NEW S, NEW seqs \in Seq(Seq(S))
    PROVE  \E cat \in [0 .. Len(seqs) -> Seq(S)] :
              /\ cat[0] = <<>>
              /\ \A k \in 1 .. Len(seqs) : cat[k] = cat[k - 1] \o seqs[k]
              /\ FlattenSeq(seqs) = cat[Len(seqs)]
<1> DEFINE n == Len(seqs)
           step == [k \in 1 .. n |-> [s \in Seq(S) |-> s \o seqs[k]]]
           F(f) == [i \in 1 .. n |-> IF i = 1 THEN seqs[i] ELSE f[i - 1] \o seqs[i]]
           flatten == CHOOSE f : f = F(f)
<1>1. n \in Nat /\ \A k \in 1 .. n : seqs[k] \in Seq(S)
  OBVIOUS
<1>2. step \in [1 .. n -> [Seq(S) -> Seq(S)]]
  OBVIOUS
<1>3. <<>> \in Seq(S)
  OBVIOUS
<1>4. PICK cat \in [0 .. n -> Seq(S)] :
          cat[0] = <<>> /\ \A k \in 1 .. n : cat[k] = step[k][cat[k - 1]]
  <2> DEFINE T == Seq(S)
             base == <<>>
  <2>1. n \in Nat /\ base \in T /\ step \in [1 .. n -> [T -> T]]
    BY <1>1, <1>2, <1>3
  <2>2. SUFFICES \E f \in [0 .. n -> T] : f[0] = base /\ \A k \in 1 .. n : f[k] = step[k][f[k - 1]]
    OBVIOUS
  <2> HIDE DEF T, base, step, n
  <2> QED
    <3>1. \E f : Recursion(n, T, base, step, f)
      BY <2>1, RecursiveFunction
    <3>2. QED
      BY <3>1, Zenon DEF Recursion
<1>0. cat[0] = <<>> /\ \A s \in Seq(S) : <<>> \o s = s
  BY <1>4, ConcatEmptySeq
<1>5. ASSUME NEW k \in 1 .. n
      PROVE  cat[k] = cat[k - 1] \o seqs[k]
  <2>1. k - 1 \in 0 .. n
    BY <1>1
  <2>2. cat[k - 1] \in Seq(S)
    BY <1>4, <2>1
  <2>3. QED
    BY <1>4, <2>2
<1>6. CASE n = 0
  <2>1. seqs = <<>>
    BY <1>6
  <2>2. FlattenSeq(seqs) = <<>>
    BY <1>6, <2>1 DEF FlattenSeq
  <2>3. QED
    BY <1>4, <1>5, <1>6, <2>2
<1>7. CASE n # 0
  <2>1. FlattenSeq(seqs) = flatten[n]
    BY <1>7, Zenon DEF FlattenSeq
  <2> DEFINE g == [i \in 1 .. n |-> cat[i]]
  <2>2. g = F(g)
    <3>1. ASSUME NEW i \in 1 .. n
          PROVE  g[i] = IF i = 1 THEN seqs[i] ELSE g[i - 1] \o seqs[i]
      <4>1. CASE i = 1
        <5>0. 1 \in 1 .. n /\ 1 - 1 = 0
          BY <1>1, <4>1
        <5>1. cat[1] = cat[0] \o seqs[1] /\ seqs[1] \in Seq(S)
          BY <1>1, <1>5, <5>0, Zenon
        <5>2. cat[1] = seqs[1]
          BY <1>0, <5>1, Zenon
        <5>3. QED
          BY <4>1, <5>2
      <4>2. CASE i # 1
        <5>1. i - 1 \in 1 .. n
          BY <1>1, <4>2
        <5>2. g[i - 1] = cat[i - 1] /\ g[i] = cat[i]
          BY <5>1
        <5>3. cat[i] = cat[i - 1] \o seqs[i]
          BY <1>5
        <5>4. QED
          BY <4>2, <5>2, <5>3, Zenon
      <4>3. QED
        BY <4>1, <4>2
    <3> HIDE DEF n
    <3>2. QED
      BY <3>1
  <2>3. flatten = F(flatten)
    <3> HIDE DEF g, F
    <3> QED
      BY <2>2, Zenon
  <2> HIDE DEF flatten
  <2>4. ASSUME NEW i \in 1 .. n
        PROVE  flatten[i] = IF i = 1 THEN seqs[i] ELSE flatten[i - 1] \o seqs[i]
    <3> HIDE DEF n
    <3> QED
      BY <2>3, Zenon
  <2> HIDE DEF F, g
  <2> DEFINE P == {m \in Nat : m + 1 <= n => flatten[m + 1] = cat[m + 1]}
  <2>5. 0 \in P
    <3>1. SUFFICES ASSUME 1 <= n PROVE flatten[1] = cat[1]
      OBVIOUS
    <3>2. 1 \in 1 .. n
      BY <1>1, <3>1
    <3>3. cat[1] = cat[0] \o seqs[1] /\ seqs[1] \in Seq(S)
      BY <1>1, <1>5, <3>2, 1 - 1 = 0, Zenon
    <3>4. cat[1] = seqs[1]
      BY <1>0, <3>3, Zenon
    <3>5. QED
      BY <2>4, <3>2, <3>4
  <2>6. ASSUME NEW m \in Nat, m \in P
        PROVE  m + 1 \in P
    <3>1. SUFFICES ASSUME m + 2 <= n PROVE flatten[m + 2] = cat[m + 2]
      OBVIOUS
    <3>2. m + 2 \in 1 .. n /\ m + 2 # 1 /\ m + 2 - 1 = m + 1
      BY <1>1, <3>1
    <3> HIDE DEF n
    <3>3. flatten[m + 1] = cat[m + 1]
      <4>1. m + 1 <= n
        BY <1>1, <2>6, <3>1
      <4>2. QED
        BY <2>6, <4>1
    <3> HIDE DEF P
    <3> DEFINE k == m + 2
    <3>4. k \in 1 .. n /\ k # 1 /\ k - 1 = m + 1
      BY <3>2
    <3> HIDE DEF k
    <3>5. flatten[k] = flatten[k - 1] \o seqs[k]
      BY <2>4, <3>4, Zenon
    <3>6. cat[k] = cat[k - 1] \o seqs[k]
      BY <1>5, <3>4, Zenon
    <3>7. flatten[k] = cat[k]
      BY <3>3, <3>4, <3>5, <3>6
    <3>8. QED
      BY <3>7 DEF k
  <2>7. Nat \subseteq P
    <3> HIDE DEF P
    <3> QED
      BY <2>5, <2>6, Induction
  <2>8. n - 1 \in P
    <3> HIDE DEF n, P
    <3>1. n - 1 \in Nat
      BY <1>1, <1>7
    <3>2. QED
      BY <2>7, <3>1
  <2>9. flatten[n] = cat[n]
    <3> HIDE DEF flatten
    <3>1. n - 1 + 1 = n /\ n - 1 + 1 <= n
      BY <1>1
    <3>2. flatten[n - 1 + 1] = cat[n - 1 + 1]
      BY <2>8, <3>1
    <3>3. QED
      BY <3>1, <3>2
  <2>10. QED
    BY <1>4, <1>5, <2>1, <2>9
<1>8. QED
  BY <1>6, <1>7

LEMMA FlattenType ==
    ASSUME NEW S, NEW seqs \in Seq(Seq(S))
    PROVE  FlattenSeq(seqs) \in Seq(S)
<1>1. PICK cat \in [0 .. Len(seqs) -> Seq(S)] : FlattenSeq(seqs) = cat[Len(seqs)]
  BY FlattenRecursion
<1>2. Len(seqs) \in 0 .. Len(seqs)
  OBVIOUS
<1>3. QED
  BY <1>1, <1>2, Zenon

LEMMA FlattenEmpty == FlattenSeq(<<>>) = <<>>
  BY DEF FlattenSeq

LEMMA FlattenAppend ==
    ASSUME NEW S, NEW seqs \in Seq(Seq(S)), NEW s \in Seq(S)
    PROVE  FlattenSeq(Append(seqs, s)) = FlattenSeq(seqs) \o s
<1> DEFINE n == Len(seqs)
           longer == Append(seqs, s)
<1>1. /\ longer \in Seq(Seq(S)) /\ Len(longer) = n + 1 /\ longer[n + 1] = s
      /\ \A k \in 1 .. n : longer[k] = seqs[k]
      /\ n \in Nat
  BY AppendProperties
<1> HIDE DEF longer
<1>2. PICK cat \in [0 .. n -> Seq(S)] :
          /\ cat[0] = <<>> /\ \A k \in 1 .. n : cat[k] = cat[k - 1] \o seqs[k]
          /\ FlattenSeq(seqs) = cat[n]
  BY FlattenRecursion
<1>3. PICK dog \in [0 .. n + 1 -> Seq(S)] :
          /\ dog[0] = <<>> /\ \A k \in 1 .. n + 1 : dog[k] = dog[k - 1] \o longer[k]
          /\ FlattenSeq(longer) = dog[n + 1]
  <2>1. PICK dog \in [0 .. Len(longer) -> Seq(S)] :
          /\ dog[0] = <<>> /\ \A k \in 1 .. Len(longer) : dog[k] = dog[k - 1] \o longer[k]
          /\ FlattenSeq(longer) = dog[Len(longer)]
    BY <1>1, FlattenRecursion
  <2>2. QED
    BY <1>1, <2>1
<1> HIDE DEF n
<1> DEFINE P == {m \in Nat : m <= n => dog[m] = cat[m]}
<1>4. 0 \in P
  BY <1>2, <1>3
<1>5. ASSUME NEW m \in Nat, m \in P
      PROVE  m + 1 \in P
  <2>1. SUFFICES ASSUME m + 1 <= n PROVE dog[m + 1] = cat[m + 1]
    OBVIOUS
  <2>2. dog[m] = cat[m]
    BY <1>1, <1>5, <2>1
  <2> HIDE DEF P
  <2> DEFINE k == m + 1
  <2>3. k \in 1 .. n /\ k \in 1 .. n + 1 /\ k - 1 = m
    BY <1>1, <2>1
  <2> HIDE DEF k
  <2>4. dog[k] = dog[k - 1] \o longer[k] /\ cat[k] = cat[k - 1] \o seqs[k] /\ longer[k] = seqs[k]
    BY <1>1, <1>2, <1>3, <2>3, Zenon
  <2>5. dog[k] = cat[k]
    BY <2>2, <2>3, <2>4
  <2>6. QED
    BY <2>5 DEF k
<1>6. Nat \subseteq P
  <2> HIDE DEF P
  <2> QED
    BY <1>4, <1>5, Induction
<1>7. dog[n] = cat[n]
  BY <1>1, <1>6
<1>8. dog[n + 1] = dog[n] \o s
  <2>1. n + 1 \in 1 .. n + 1 /\ n + 1 - 1 = n
    BY <1>1
  <2> DEFINE k == n + 1
  <2>2. dog[k] = dog[k - 1] \o longer[k]
    <3> HIDE DEF k
    <3> QED
      BY <1>3, <2>1, Zenon DEF k
  <2>3. QED
    <3>1. k - 1 = n /\ longer[k] = s
      BY <1>1, <2>1
    <3> HIDE DEF k
    <3>2. dog[k] = dog[n] \o s
      BY <2>2, <3>1
    <3>3. QED
      BY <3>2 DEF k
<1>9. QED
  BY <1>2, <1>3, <1>7, <1>8 DEF longer

LEMMA FlattenOne ==
    ASSUME NEW S, NEW s \in Seq(S)
    PROVE  FlattenSeq(<<s>>) = s
<1>1. <<>> \in Seq(Seq(S)) /\ Append(<<>>, s) = <<s>>
  BY EmptySeq
<1>2. FlattenSeq(<<s>>) = <<>> \o s
  BY <1>1, FlattenAppend, FlattenEmpty, Zenon
<1>3. QED
  BY <1>2, ConcatEmptySeq

Regrouped(S) == \A x, y, z \in Seq(S) : (x \o y) \o z = x \o (y \o z)

LEMMA Regrouping ==
    ASSUME NEW S
    PROVE  Regrouped(S)
<1> SUFFICES ASSUME NEW x \in Seq(S), NEW y \in Seq(S), NEW z \in Seq(S)
             PROVE  (x \o y) \o z = x \o (y \o z)
  BY DEF Regrouped
<1> QED
  BY ConcatAssociative

LEMMA ConcatAppend ==
    ASSUME NEW S, NEW s \in Seq(S), NEW t \in Seq(S), NEW e \in S
    PROVE  s \o Append(t, e) = Append(s \o t, e)
<1>1. <<e>> \in Seq(S) /\ Append(t, e) = t \o <<e>> /\ s \o t \in Seq(S)
  BY AppendIsConcat, ConcatProperties
<1>2. Append(s \o t, e) = (s \o t) \o <<e>>
  BY <1>1, AppendIsConcat
<1>3. (s \o t) \o <<e>> = s \o (t \o <<e>>)
  <2>1. Regrouped(S)
    BY Regrouping
  <2>2. QED
    BY <1>1, <2>1 DEF Regrouped
<1>4. QED
  BY <1>1, <1>2, <1>3

\* FlattenSeq of two sequences one after the other.
LEMMA FlattenConcat ==
    ASSUME NEW S, NEW s \in Seq(Seq(S)), NEW t \in Seq(Seq(S))
    PROVE  FlattenSeq(s \o t) = FlattenSeq(s) \o FlattenSeq(t)
<1> DEFINE P == {u \in Seq(Seq(S)) : FlattenSeq(s \o u) = FlattenSeq(s) \o FlattenSeq(u)}
<1>1. <<>> \in P
  <2>1. s \o <<>> = s /\ <<>> \in Seq(Seq(S))
    BY ConcatEmptySeq, EmptySeq
  <2>2. FlattenSeq(s) \o <<>> = FlattenSeq(s)
    BY FlattenType, ConcatEmptySeq
  <2>3. QED
    BY <2>1, <2>2, FlattenEmpty
<1>2. ASSUME NEW u \in Seq(Seq(S)), NEW e \in Seq(S), u \in P
      PROVE  Append(u, e) \in P
  <2>1. s \o Append(u, e) = Append(s \o u, e)
    BY ConcatAppend
  <2>2. s \o u \in Seq(Seq(S)) /\ Append(u, e) \in Seq(Seq(S))
    BY ConcatProperties, AppendProperties
  <2>3. FlattenSeq(Append(s \o u, e)) = FlattenSeq(s \o u) \o e
    BY <2>2, FlattenAppend
  <2>4. FlattenSeq(Append(u, e)) = FlattenSeq(u) \o e
    BY FlattenAppend
  <2>5. FlattenSeq(s \o u) = FlattenSeq(s) \o FlattenSeq(u)
    BY <1>2
  <2>6. (FlattenSeq(s) \o FlattenSeq(u)) \o e = FlattenSeq(s) \o (FlattenSeq(u) \o e)
    <3> DEFINE x == FlattenSeq(s)
               y == FlattenSeq(u)
    <3>1. x \in Seq(S) /\ y \in Seq(S)
      BY FlattenType
    <3> HIDE DEF x, y
    <3>2. Regrouped(S)
      BY Regrouping
    <3>3. (x \o y) \o e = x \o (y \o e)
      BY <3>1, <3>2 DEF Regrouped
    <3>4. QED
      BY <3>3 DEF x, y
  <2> HIDE DEF P
  <2>7. FlattenSeq(s \o Append(u, e)) = FlattenSeq(s) \o FlattenSeq(Append(u, e))
    BY <2>1, <2>3, <2>4, <2>5, <2>6, Zenon
  <2>8. QED
    BY <2>2, <2>7 DEF P
<1>3. Seq(Seq(S)) \subseteq P
  <2> HIDE DEF P
  <2> QED
    BY <1>1, <1>2, SequenceInduction
<1>4. QED
  BY <1>3

\* What is in a flattened sequence.
LEMMA FlattenRange ==
    ASSUME NEW S, NEW seqs \in Seq(Seq(S)), NEW x
    PROVE  x \in Range(FlattenSeq(seqs)) <=> \E k \in 1 .. Len(seqs) : x \in Range(seqs[k])
<1> DEFINE In(s) == \E k \in 1 .. Len(s) : x \in Range(s[k])
           P == {s \in Seq(Seq(S)) : x \in Range(FlattenSeq(s)) <=> In(s)}
<1>1. <<>> \in P
  <2>1. Range(FlattenSeq(<<>>)) = {} /\ <<>> \in Seq(Seq(S))
    BY FlattenEmpty, EmptySeq DEF Range
  <2>2. QED
    BY <2>1
<1>2. ASSUME NEW s \in Seq(Seq(S)), NEW e \in Seq(S), s \in P
      PROVE  Append(s, e) \in P
  <2> DEFINE t == Append(s, e)
  <2>1. /\ t \in Seq(Seq(S)) /\ Len(t) = Len(s) + 1 /\ Len(s) \in Nat /\ t[Len(s) + 1] = e
        /\ \A k \in 1 .. Len(s) : t[k] = s[k]
    BY AppendProperties
  <2>2. FlattenSeq(t) = FlattenSeq(s) \o e
    BY FlattenAppend
  <2>3. Range(FlattenSeq(t)) = Range(FlattenSeq(s)) \cup Range(e)
    BY <2>2, FlattenType, RangeConcatenation
  <2> HIDE DEF t
  <2>4. In(t) <=> In(s) \/ x \in Range(e)
    <3> DEFINE n == Len(s)
    <3>1. Len(t) = n + 1 /\ n \in Nat
      BY <2>1
    <3>2. 1 .. n + 1 = (1 .. n) \cup {n + 1}
      BY <3>1
    <3> HIDE DEF n
    <3>3. In(t) <=> (\E k \in (1 .. n) \cup {n + 1} : x \in Range(t[k]))
      BY <3>1, <3>2, Zenon
    <3>4. t[n + 1] = e /\ \A k \in 1 .. n : t[k] = s[k]
      BY <2>1 DEF n
    <3>5. In(s) <=> (\E k \in 1 .. n : x \in Range(s[k]))
      BY DEF n
    <3>6. QED
      BY <3>3, <3>4, <3>5, Zenon
  <2>5. x \in Range(FlattenSeq(s)) <=> In(s)
    BY <1>2
  <2>6. QED
    BY <2>1, <2>3, <2>4, <2>5 DEF t
<1>3. Seq(Seq(S)) \subseteq P
  <2> HIDE DEF P
  <2> QED
    BY <1>1, <1>2, SequenceInduction
<1>4. QED
  BY <1>3

\* Of any two elements of a flattened sequence, the earlier one is related to
\* the later one, if this is so within its pieces, and between them.
Related(R, s) == \A i, j \in 1 .. Len(s) : i < j => <<s[i], s[j]>> \in R

RelatedAcross(R, seqs) ==
    \A k, l \in 1 .. Len(seqs) : k < l =>
        \A x \in Range(seqs[k]), y \in Range(seqs[l]) : <<x, y>> \in R

LEMMA RelatedConcat ==
    ASSUME NEW S, NEW s \in Seq(S), NEW t \in Seq(S), NEW R, Related(R, s), Related(R, t),
           \A x \in Range(s), y \in Range(t) : <<x, y>> \in R
    PROVE  Related(R, s \o t)
<1> DEFINE u == s \o t
<1>1. /\ u \in Seq(S) /\ Len(u) = Len(s) + Len(t) /\ Len(s) \in Nat /\ Len(t) \in Nat
      /\ \A i \in 1 .. Len(s) + Len(t) : u[i] = IF i <= Len(s) THEN s[i] ELSE t[i - Len(s)]
  BY ConcatProperties
<1> HIDE DEF u
<1> SUFFICES ASSUME NEW i \in 1 .. Len(u), NEW j \in 1 .. Len(u), i < j
             PROVE  <<u[i], u[j]>> \in R
  BY DEF Related, u
<1>2. CASE j <= Len(s)
  BY <1>1, <1>2 DEF Related
<1>3. CASE i > Len(s)
  <2>1. u[i] = t[i - Len(s)] /\ u[j] = t[j - Len(s)]
    BY <1>1, <1>3
  <2>2. i - Len(s) \in 1 .. Len(t) /\ j - Len(s) \in 1 .. Len(t) /\ i - Len(s) < j - Len(s)
    BY <1>1, <1>3
  <2>3. QED
    BY <2>1, <2>2 DEF Related
<1>4. CASE i <= Len(s) /\ j > Len(s)
  <2>1. u[i] = s[i] /\ u[j] = t[j - Len(s)]
    BY <1>1, <1>4
  <2>2. i \in 1 .. Len(s) /\ j - Len(s) \in 1 .. Len(t)
    BY <1>1, <1>4
  <2>3. s[i] \in Range(s) /\ t[j - Len(s)] \in Range(t)
    BY <2>2, RangeEquality
  <2>4. QED
    BY <2>1, <2>3
<1>5. QED
  BY <1>1, <1>2, <1>3, <1>4

\* If earlier elements are related to later ones, within each sequence and across
\* them, then so they are when the sequences are put one after the other.
LEMMA FlattenRelated ==
    ASSUME NEW S, NEW seqs \in Seq(Seq(S)), NEW R, RelatedAcross(R, seqs),
           \A k \in 1 .. Len(seqs) : Related(R, seqs[k])
    PROVE  Related(R, FlattenSeq(seqs))
<1> DEFINE Good(s) == RelatedAcross(R, s) /\ \A k \in 1 .. Len(s) : Related(R, s[k])
           P == {s \in Seq(Seq(S)) : Good(s) => Related(R, FlattenSeq(s))}
<1>1. <<>> \in P
  <2>1. <<>> \in Seq(Seq(S)) /\ Len(<<>>) = 0
    BY EmptySeq
  <2>2. QED
    BY <2>1, FlattenEmpty DEF Related
<1>2. ASSUME NEW s \in Seq(Seq(S)), NEW e \in Seq(S), s \in P
      PROVE  Append(s, e) \in P
  <2> DEFINE t == Append(s, e)
             n == Len(s)
  <2>1. /\ t \in Seq(Seq(S)) /\ Len(t) = n + 1 /\ n \in Nat /\ t[n + 1] = e
        /\ \A k \in 1 .. n : t[k] = s[k]
    BY AppendProperties
  <2>2. FlattenSeq(t) = FlattenSeq(s) \o e /\ FlattenSeq(s) \in Seq(S)
    BY FlattenAppend, FlattenType
  <2> HIDE DEF t
  <2>3. SUFFICES ASSUME Good(t) PROVE Related(R, FlattenSeq(t))
    BY <2>1 DEF t
  <2>4. Good(s)
    <3>1. \A k \in 1 .. n : k \in 1 .. n + 1
      BY <2>1
    <3>2. \A k \in 1 .. n : k \in 1 .. Len(t) /\ t[k] = s[k]
      BY <2>1, <3>1
    <3> HIDE DEF n
    <3>3. RelatedAcross(R, s)
      BY <2>3, <3>2 DEF RelatedAcross, n
    <3>4. \A k \in 1 .. Len(s) : Related(R, s[k])
      BY <2>3, <3>2 DEF n
    <3>5. QED
      BY <3>3, <3>4
  <2>5. Related(R, FlattenSeq(s))
    BY <1>2, <2>4
  <2>6. Related(R, e)
    BY <2>1, <2>3
  <2>7. ASSUME NEW x \in Range(FlattenSeq(s)), NEW y \in Range(e)
        PROVE  <<x, y>> \in R
    <3>1. PICK k \in 1 .. n : x \in Range(s[k])
      BY FlattenRange
    <3>2. k \in 1 .. Len(t) /\ n + 1 \in 1 .. Len(t) /\ k < n + 1 /\ t[k] = s[k] /\ t[n + 1] = e
      BY <2>1
    <3>3. QED
      BY <2>3, <2>7, <3>1, <3>2 DEF RelatedAcross
  <2>8. QED
    BY <2>2, <2>5, <2>6, <2>7, RelatedConcat
<1>3. Seq(Seq(S)) \subseteq P
  <2> HIDE DEF P
  <2> QED
    BY <1>1, <1>2, SequenceInduction
<1>4. QED
  BY <1>3

\* Its elements are distinct, if those of its pieces are, and no two pieces
\* have one in common.
LEMMA FlattenInjective ==
    ASSUME NEW S, NEW seqs \in Seq(Seq(S)),
           \A k \in 1 .. Len(seqs) : IsInjective(seqs[k]),
           \A k, l \in 1 .. Len(seqs) : k # l => Range(seqs[k]) \cap Range(seqs[l]) = {}
    PROVE  IsInjective(FlattenSeq(seqs))
<1> DEFINE R == {xy \in S \X S : xy[1] # xy[2]}
<1>1. \A s \in Seq(S) : Related(R, s) <=> IsInjective(s)
  <2> SUFFICES ASSUME NEW s \in Seq(S) PROVE Related(R, s) <=> IsInjective(s)
    OBVIOUS
  <2>1. DOMAIN s = 1 .. Len(s) /\ \A i \in 1 .. Len(s) : s[i] \in S
    OBVIOUS
  <2>2. \A i, j \in 1 .. Len(s) : <<s[i], s[j]>> \in R <=> s[i] # s[j]
    BY <2>1
  <2> HIDE DEF R
  <2>3. \A i, j \in 1 .. Len(s) : i < j \/ j < i \/ i = j
    OBVIOUS
  <2>4. \A i, j \in 1 .. Len(s) : i < j => i # j
    OBVIOUS
  <2>5. ASSUME Related(R, s) PROVE IsInjective(s)
    BY <2>1, <2>2, <2>3, <2>5, Zenon DEF Related, IsInjective
  <2>6. ASSUME IsInjective(s) PROVE Related(R, s)
    BY <2>1, <2>2, <2>4, <2>6, Zenon DEF Related, IsInjective
  <2>7. QED
    BY <2>5, <2>6
<1>2. \A k \in 1 .. Len(seqs) : Related(R, seqs[k])
  <2> HIDE DEF R
  <2>1. \A k \in 1 .. Len(seqs) : seqs[k] \in Seq(S)
    OBVIOUS
  <2>2. QED
    BY <1>1, <2>1
<1>3. RelatedAcross(R, seqs)
  <2> SUFFICES ASSUME NEW k \in 1 .. Len(seqs), NEW l \in 1 .. Len(seqs), k < l,
                      NEW x \in Range(seqs[k]), NEW y \in Range(seqs[l])
               PROVE  <<x, y>> \in R
    BY DEF RelatedAcross
  <2>1. x \in S /\ y \in S
    <3>1. seqs[k] \in Seq(S) /\ seqs[l] \in Seq(S)
      OBVIOUS
    <3>2. QED
      BY <3>1, RangeOfSeq
  <2>2. x # y
    <3>1. k # l
      OBVIOUS
    <3>2. QED
      BY <3>1
  <2>3. QED
    BY <2>1, <2>2
<1>4. QED
  <2> HIDE DEF R
  <2> QED
    BY <1>1, <1>2, <1>3, FlattenRelated, FlattenType

-----------------------------------------------------------------------------
(* Where and InOrder, with a set in place of a test or an order *)

\* The elements e[k] with k in D, in the order of k.
Optional(n, e, D) == FlattenSeq([k \in 1 .. n |-> IF k \in D THEN <<e[k]>> ELSE <<>>])

LEMMA OptionalProperties ==
    ASSUME NEW S, NEW n \in Nat, NEW e \in [1 .. n -> S], NEW D \in SUBSET (1 .. n)
    PROVE  /\ Optional(n, e, D) \in Seq(S)
           /\ \A x : x \in Range(Optional(n, e, D)) <=> \E k \in D : x = e[k]
           /\ \A R : (\A k, l \in D : k < l => <<e[k], e[l]>> \in R) => Related(R, Optional(n, e, D))
           /\ (\A k, l \in D : k # l => e[k] # e[l]) => IsInjective(Optional(n, e, D))
<1> DEFINE pieces == [k \in 1 .. n |-> IF k \in D THEN <<e[k]>> ELSE <<>>]
<1>1. \A k \in 1 .. n : e[k] \in S
  OBVIOUS
<1>2. \A x \in S : <<x>> \in Seq(S) /\ Len(<<x>>) = 1 /\ Range(<<x>>) = {x} /\ DOMAIN <<x>> = {1}
  BY DEF Range
<1>3. <<>> \in Seq(S) /\ Len(<<>>) = 0 /\ Range(<<>>) = {} /\ DOMAIN <<>> = {}
  BY EmptySeq DEF Range
<1>4. Optional(n, e, D) = FlattenSeq(pieces)
  BY DEF Optional
<1>5. \A k \in 1 .. n : pieces[k] = IF k \in D THEN <<e[k]>> ELSE <<>>
  OBVIOUS
<1>6. pieces \in [1 .. n -> Seq(S)]
  BY <1>1, <1>2, <1>3
<1> HIDE DEF pieces
<1>7. pieces \in Seq(Seq(S)) /\ Len(pieces) = n
  BY <1>6
<1>8. \A k \in 1 .. n : Range(pieces[k]) = IF k \in D THEN {e[k]} ELSE {}
  BY <1>1, <1>2, <1>3, <1>5
<1>9. \A k \in 1 .. n : Len(pieces[k]) \in {0, 1} /\ DOMAIN pieces[k] \subseteq {1}
  BY <1>1, <1>2, <1>3, <1>5
<1>10. \A x : x \in Range(Optional(n, e, D)) <=> \E k \in D : x = e[k]
  <2>1. \A x : x \in Range(Optional(n, e, D)) <=> \E k \in 1 .. n : x \in Range(pieces[k])
    BY <1>4, <1>7, FlattenRange
  <2>2. QED
    BY <1>8, <2>1
<1>11. ASSUME NEW R, \A k, l \in D : k < l => <<e[k], e[l]>> \in R
       PROVE  Related(R, Optional(n, e, D))
  <2>1. RelatedAcross(R, pieces)
    BY <1>7, <1>8, <1>11 DEF RelatedAcross
  <2>2. \A k \in 1 .. n : Related(R, pieces[k])
    BY <1>9 DEF Related
  <2>3. QED
    BY <1>4, <1>7, <2>1, <2>2, FlattenRelated
<1>12. ASSUME \A k, l \in D : k # l => e[k] # e[l]
       PROVE  IsInjective(Optional(n, e, D))
  <2>1. \A k, l \in 1 .. n : k # l => Range(pieces[k]) \cap Range(pieces[l]) = {}
    BY <1>8, <1>12
  <2>2. \A k \in 1 .. n : IsInjective(pieces[k])
    BY <1>9 DEF IsInjective
  <2>3. QED
    BY <1>4, <1>7, <2>1, <2>2, FlattenInjective
<1>13. QED
  BY <1>4, <1>7, <1>10, <1>11, <1>12, FlattenType

Kept(s, T) == FlattenSeq([k \in DOMAIN s |-> IF s[k] \in T THEN <<s[k]>> ELSE <<>>])

\* Kept(s, T) has the elements of s that are in T, in their order.
LEMMA KeptProperties ==
    ASSUME NEW S, NEW s \in Seq(S), NEW T
    PROVE  /\ Kept(s, T) \in Seq(S)
           /\ Range(Kept(s, T)) = Range(s) \cap T
           /\ \A R : Related(R, s) => Related(R, Kept(s, T))
           /\ IsInjective(s) => IsInjective(Kept(s, T))
<1> DEFINE n == Len(s)
           D == {k \in 1 .. n : s[k] \in T}
<1>1. n \in Nat /\ DOMAIN s = 1 .. n /\ s \in [1 .. n -> S]
  OBVIOUS
<1> HIDE DEF n
<1>2. Kept(s, T) = Optional(n, s, D)
  <2>1. [k \in 1 .. n |-> IF s[k] \in T THEN <<s[k]>> ELSE <<>>]
            = [k \in 1 .. n |-> IF k \in D THEN <<s[k]>> ELSE <<>>]
    OBVIOUS
  <2> HIDE DEF D
  <2>2. QED
    BY <1>1, <2>1, Zenon DEF Kept, Optional
<1>3. /\ Kept(s, T) \in Seq(S)
      /\ \A x : x \in Range(Kept(s, T)) <=> \E k \in D : x = s[k]
      /\ \A R : (\A k, l \in D : k < l => <<s[k], s[l]>> \in R) => Related(R, Kept(s, T))
      /\ (\A k, l \in D : k # l => s[k] # s[l]) => IsInjective(Kept(s, T))
  <2>1. D \in SUBSET (1 .. n)
    OBVIOUS
  <2> HIDE DEF D
  <2>2. QED
    BY <1>1, <1>2, <2>1, OptionalProperties
<1>4. Range(Kept(s, T)) = Range(s) \cap T
  BY <1>1, <1>3 DEF Range
<1>5. \A R : Related(R, s) => Related(R, Kept(s, T))
  BY <1>3 DEF Related, n
<1>6. IsInjective(s) => IsInjective(Kept(s, T))
  BY <1>1, <1>3 DEF IsInjective
<1>7. QED
  BY <1>3, <1>4, <1>5, <1>6

IsStrictOrder(R, S) ==
    /\ \A x \in S : <<x, x>> \notin R
    /\ \A x, y, z \in S : <<x, y>> \in R /\ <<y, z>> \in R => <<x, z>> \in R
    /\ \A x, y \in S : x = y \/ <<x, y>> \in R \/ <<y, x>> \in R

Ordered(S, R) ==
    [k \in 1 .. Cardinality(S) |->
        CHOOSE x \in S : Cardinality({y \in S : <<y, x>> \in R}) = k - 1]

\* Ordered(S, R) has the elements of S, each once, in the order R.
LEMMA OrderedProperties ==
    ASSUME NEW S, IsFiniteSet(S), NEW R, IsStrictOrder(R, S)
    PROVE  /\ Ordered(S, R) \in [1 .. Cardinality(S) -> S]
           /\ \A x \in S : \E k \in 1 .. Cardinality(S) : Ordered(S, R)[k] = x
           /\ \A k, l \in 1 .. Cardinality(S) : k < l => <<Ordered(S, R)[k], Ordered(S, R)[l]>> \in R
           /\ Cardinality(S) \in Nat
<1> DEFINE N == Cardinality(S)
           below(x) == {y \in S : <<y, x>> \in R}
           rank == [x \in S |-> Cardinality(below(x)) + 1]
           order == Ordered(S, R)
<1>1. N \in Nat
  BY FS_CardinalityType
<1>2. ASSUME NEW x \in S
      PROVE  IsFiniteSet(below(x)) /\ Cardinality(below(x)) \in Nat /\ Cardinality(below(x)) < N
  <2>1. below(x) \in SUBSET (S \ {x})
    BY DEF IsStrictOrder
  <2>2. IsFiniteSet(S \ {x}) /\ Cardinality(S \ {x}) = N - 1
    BY FS_RemoveElement
  <2>3. IsFiniteSet(below(x)) /\ Cardinality(below(x)) <= N - 1
    <3> HIDE DEF below, N
    <3> QED
      BY <2>1, <2>2, FS_Subset
  <2>4. Cardinality(below(x)) \in Nat
    <3> HIDE DEF below
    <3> QED
      BY <2>3, FS_CardinalityType
  <2>5. QED
    BY <1>1, <2>3, <2>4
<1>3. ASSUME NEW x \in S, NEW y \in S, <<x, y>> \in R
      PROVE  Cardinality(below(x)) < Cardinality(below(y))
  <2>1. below(x) \in SUBSET below(y) /\ x \in below(y) /\ x \notin below(x)
    BY <1>3 DEF IsStrictOrder
  <2> HIDE DEF below
  <2>2. below(x) # below(y)
    BY <2>1
  <2>3. Cardinality(below(x)) <= Cardinality(below(y)) /\ Cardinality(below(x)) # Cardinality(below(y))
    BY <1>2, <2>1, <2>2, FS_Subset
  <2>4. QED
    BY <1>2, <2>3
<1> HIDE DEF below
<1>4. rank \in [S -> 1 .. N]
  BY <1>1, <1>2
<1>5. \A x, y \in S : <<x, y>> \in R => rank[x] < rank[y]
  BY <1>2, <1>3
<1>6. rank \in Injection(S, 1 .. N)
  <2> HIDE DEF rank, N
  <2>1. \A x \in S : rank[x] \in Int
    BY <1>1, <1>4
  <2>2. \A x, y \in S : rank[x] = rank[y] => x = y
    <3> SUFFICES ASSUME NEW x \in S, NEW y \in S, rank[x] = rank[y], x # y PROVE FALSE
      OBVIOUS
    <3>1. <<x, y>> \in R \/ <<y, x>> \in R
      BY DEF IsStrictOrder
    <3>2. rank[x] < rank[y] \/ rank[y] < rank[x]
      BY <1>5, <3>1
    <3>3. QED
      BY <2>1, <3>2
  <2>3. QED
    BY <1>4, <2>2 DEF Injection, IsInjective
<1>7. rank \in Surjection(S, 1 .. N)
  <2> HIDE DEF rank
  <2>1. IsFiniteSet(1 .. N) /\ Cardinality(1 .. N) = N
    BY <1>1, FS_Interval
  <2>2. QED
    BY <1>6, <2>1, FS_Injection
<1>8. \A k \in 1 .. N : \E x \in S : rank[x] = k
  <2> HIDE DEF rank, N
  <2> QED
    BY <1>7 DEF Surjection
<1>9. ASSUME NEW k \in 1 .. N
      PROVE  order[k] \in S /\ rank[order[k]] = k
  <2>1. order[k] = CHOOSE x \in S : Cardinality(below(x)) = k - 1
    BY DEF Ordered, below
  <2>2. \E x \in S : Cardinality(below(x)) = k - 1
    BY <1>1, <1>2, <1>8
  <2>3. order[k] \in S /\ Cardinality(below(order[k])) = k - 1
    <3> HIDE DEF order
    <3> QED
      BY <2>1, <2>2
  <2>4. QED
    BY <1>1, <2>3
<1>10. order \in [1 .. N -> S]
  <2> DEFINE first(k) == CHOOSE x \in S : Cardinality({y \in S : <<y, x>> \in R}) = k - 1
  <2>0. order = [k \in 1 .. N |-> first(k)]
    BY Zenon DEF Ordered
  <2> HIDE DEF first
  <2>1. order = [k \in 1 .. N |-> order[k]]
    <3> HIDE DEF order, N
    <3> QED
      BY <2>0
  <2> HIDE DEF order
  <2>2. QED
    BY <1>9, <2>1
<1> HIDE DEF order, rank, N
<1>11. ASSUME NEW x \in S
       PROVE  \E k \in 1 .. N : order[k] = x
  <2>1. rank[x] \in 1 .. N
    BY <1>4
  <2>2. rank[order[rank[x]]] = rank[x] /\ order[rank[x]] \in S
    BY <1>9, <2>1
  <2>3. order[rank[x]] = x
    BY <1>6, <2>2 DEF Injection, IsInjective
  <2>4. QED
    BY <2>1, <2>3
<1>12. ASSUME NEW k \in 1 .. N, NEW l \in 1 .. N, k < l
       PROVE  <<order[k], order[l]>> \in R
  <2>1. order[k] \in S /\ order[l] \in S /\ rank[order[k]] = k /\ rank[order[l]] = l
    BY <1>9
  <2>2. ~(<<order[l], order[k]>> \in R) /\ order[k] # order[l]
    BY <1>1, <1>5, <1>12, <2>1
  <2>3. QED
    BY <2>1, <2>2 DEF IsStrictOrder
<1>13. QED
  BY <1>1, <1>10, <1>11, <1>12 DEF order, N

-----------------------------------------------------------------------------
LEMMA KeptEmpty == \A T : Kept(<<>>, T) = <<>>
<1> TAKE T
<1>1. DOMAIN <<>> = {}
  OBVIOUS
<1>2. [k \in DOMAIN <<>> |-> IF <<>>[k] \in T THEN <<<<>>[k]>> ELSE <<>>] = <<>>
  BY <1>1
<1>3. QED
  BY <1>2, FlattenEmpty, Zenon DEF Kept

LEMMA KeptAppend ==
    ASSUME NEW S, NEW s \in Seq(S), NEW e \in S, NEW T
    PROVE  Kept(Append(s, e), T) = IF e \in T THEN Append(Kept(s, T), e) ELSE Kept(s, T)
<1> DEFINE piece(t) == [k \in DOMAIN t |-> IF t[k] \in T THEN <<t[k]>> ELSE <<>>]
           last == IF e \in T THEN <<e>> ELSE <<>>
           t == Append(s, e)
           n == Len(s)
<1>0. n \in Nat /\ DOMAIN s = 1 .. n /\ \A k \in 1 .. n : s[k] \in S
  OBVIOUS
<1>1. /\ t \in Seq(S) /\ DOMAIN t = 1 .. n + 1 /\ t[n + 1] = e
      /\ \A k \in 1 .. n : t[k] = s[k]
  BY AppendProperties
<1>2. last \in Seq(S)
  BY EmptySeq
<1>3. \A k \in 1 .. n : s[k] \in S /\ (IF s[k] \in T THEN <<s[k]>> ELSE <<>>) \in Seq(S)
  <2> SUFFICES ASSUME NEW k \in 1 .. n
               PROVE  s[k] \in S /\ (IF s[k] \in T THEN <<s[k]>> ELSE <<>>) \in Seq(S)
    OBVIOUS
  <2>1. s[k] \in S
    BY <1>0
  <2>2. <<s[k]>> \in Seq(S) /\ <<>> \in Seq(S)
    BY <2>1, EmptySeq
  <2>3. QED
    BY <2>1, <2>2
<1>4. piece(s) \in Seq(Seq(S)) /\ Len(piece(s)) = n
  <2>1. piece(s) \in [1 .. n -> Seq(S)]
    BY <1>0, <1>3
  <2> HIDE DEF piece, n
  <2>2. QED
    BY <1>0, <2>1
<1> HIDE DEF t, n, last
<1>5. piece(t) = Append(piece(s), last)
  <2> DEFINE u == Append(piece(s), last)
  <2>1. u \in Seq(Seq(S)) /\ Len(u) = n + 1 /\ u[n + 1] = last /\ \A k \in 1 .. n : u[k] = piece(s)[k]
    BY <1>2, <1>4, AppendProperties
  <2> HIDE DEF u
  <2>2. \A k \in 1 .. n : piece(s)[k] = IF s[k] \in T THEN <<s[k]>> ELSE <<>>
    BY <1>0
  <2> HIDE DEF piece
  <2>3. DOMAIN u = 1 .. n + 1 /\ u = [k \in 1 .. n + 1 |-> u[k]]
    BY <1>0, <2>1
  <2>4. \A k \in 1 .. n + 1 : u[k] = IF t[k] \in T THEN <<t[k]>> ELSE <<>>
    <3> SUFFICES ASSUME NEW k \in 1 .. n + 1 PROVE u[k] = IF t[k] \in T THEN <<t[k]>> ELSE <<>>
      OBVIOUS
    <3>1. CASE k = n + 1
      BY <1>1, <2>1, <3>1 DEF last
    <3>2. CASE k # n + 1
      <4>1. k \in 1 .. n
        BY <1>0, <3>2
      <4>2. QED
        BY <1>1, <2>1, <2>2, <4>1
    <3>3. QED
      BY <3>1, <3>2
  <2>5. piece(t) = u
    BY <1>1, <2>3, <2>4 DEF piece
  <2>6. QED
    BY <2>5 DEF u
<1>6. Kept(t, T) = Kept(s, T) \o last
  <2> HIDE DEF piece
  <2>1. FlattenSeq(piece(t)) = FlattenSeq(piece(s)) \o last
    BY <1>2, <1>4, <1>5, FlattenAppend
  <2>2. QED
    BY <2>1, Zenon DEF Kept, piece
<1>7. Kept(s, T) \in Seq(S)
  BY KeptProperties
<1>8. QED
  <2>1. CASE e \in T
    <3>1. Kept(t, T) = Kept(s, T) \o <<e>>
      BY <1>6, <2>1 DEF last
    <3>2. QED
      BY <1>7, <2>1, <3>1, AppendIsConcat DEF t
  <2>2. CASE e \notin T
    <3>1. Kept(t, T) = Kept(s, T) \o <<>>
      BY <1>6, <2>2 DEF last
    <3>2. QED
      BY <1>7, <2>2, <3>1, ConcatEmptySeq DEF t
  <2>3. QED
    BY <2>1, <2>2

LEMMA KeptConcat ==
    ASSUME NEW S, NEW s \in Seq(S), NEW t \in Seq(S), NEW T
    PROVE  Kept(s \o t, T) = Kept(s, T) \o Kept(t, T)
<1> DEFINE P == {u \in Seq(S) : Kept(s \o u, T) = Kept(s, T) \o Kept(u, T)}
<1>1. <<>> \in P
  <2>1. s \o <<>> = s /\ Kept(s, T) \o <<>> = Kept(s, T) /\ <<>> \in Seq(S)
    BY KeptProperties, ConcatEmptySeq, EmptySeq
  <2>2. QED
    BY <2>1, KeptEmpty
<1>2. ASSUME NEW u \in Seq(S), NEW e \in S, u \in P
      PROVE  Append(u, e) \in P
  <2>1. s \o Append(u, e) = Append(s \o u, e) /\ s \o u \in Seq(S) /\ Append(u, e) \in Seq(S)
    BY ConcatAppend, ConcatProperties, AppendProperties
  <2>2. Kept(s \o u, T) = Kept(s, T) \o Kept(u, T)
    BY <1>2
  <2> HIDE DEF P
  <2>3. CASE e \in T
    <3>1. Kept(Append(s \o u, e), T) = Append(Kept(s \o u, T), e)
      BY <2>1, <2>3, KeptAppend
    <3>2. Kept(Append(u, e), T) = Append(Kept(u, T), e)
      BY <2>3, KeptAppend
    <3>3. Kept(s, T) \o Append(Kept(u, T), e) = Append(Kept(s, T) \o Kept(u, T), e)
      BY KeptProperties, ConcatAppend
    <3>4. QED
      BY <2>1, <2>2, <3>1, <3>2, <3>3 DEF P
  <2>4. CASE e \notin T
    <3>1. Kept(Append(s \o u, e), T) = Kept(s \o u, T)
      BY <2>1, <2>4, KeptAppend
    <3>2. Kept(Append(u, e), T) = Kept(u, T)
      BY <2>4, KeptAppend
    <3>4. QED
      BY <2>1, <2>2, <3>1, <3>2 DEF P
  <2>5. QED
    BY <2>3, <2>4
<1>3. Seq(S) \subseteq P
  <2> HIDE DEF P
  <2> QED
    BY <1>1, <1>2, SequenceInduction
<1>4. QED
  BY <1>3

LEMMA KeptFlatten ==
    ASSUME NEW S, NEW seqs \in Seq(Seq(S)), NEW T
    PROVE  Kept(FlattenSeq(seqs), T) = FlattenSeq([k \in 1 .. Len(seqs) |-> Kept(seqs[k], T)])
<1> DEFINE pieces(ss) == [k \in 1 .. Len(ss) |-> Kept(ss[k], T)]
           P == {ss \in Seq(Seq(S)) : Kept(FlattenSeq(ss), T) = FlattenSeq(pieces(ss))}
<1>0. ASSUME NEW ss \in Seq(Seq(S)) PROVE pieces(ss) \in Seq(Seq(S)) /\ Len(pieces(ss)) = Len(ss)
  <2>1. \A k \in 1 .. Len(ss) : ss[k] \in Seq(S)
    OBVIOUS
  <2>2. \A k \in 1 .. Len(ss) : Kept(ss[k], T) \in Seq(S)
    BY <2>1, KeptProperties
  <2>3. Len(ss) \in Nat /\ pieces(ss) \in [1 .. Len(ss) -> Seq(S)]
    BY <2>2
  <2> DEFINE f == pieces(ss)
             m == Len(ss)
  <2>4. m \in Nat /\ f \in [1 .. m -> Seq(S)]
    BY <2>3
  <2> HIDE DEF pieces, f, m
  <2>5. f \in Seq(Seq(S)) /\ Len(f) = m
    BY <2>4
  <2>6. QED
    BY <2>5 DEF f, m
<1>1. <<>> \in P
  <2>1. pieces(<<>>) = <<>> /\ <<>> \in Seq(Seq(S))
    BY EmptySeq
  <2> HIDE DEF pieces
  <2>2. QED
    BY <2>1, FlattenEmpty, KeptEmpty
<1>2. ASSUME NEW ss \in Seq(Seq(S)), NEW e \in Seq(S), ss \in P
      PROVE  Append(ss, e) \in P
  <2> DEFINE t == Append(ss, e)
             n == Len(ss)
             last == Kept(e, T)
  <2>1. /\ t \in Seq(Seq(S)) /\ Len(t) = n + 1 /\ n \in Nat /\ t[n + 1] = e
        /\ \A k \in 1 .. n : t[k] = ss[k]
    BY AppendProperties
  <2>2. pieces(ss) \in Seq(Seq(S)) /\ Len(pieces(ss)) = n /\ last \in Seq(S)
    BY <1>0, KeptProperties
  <2>3. \A k \in 1 .. n : pieces(ss)[k] = Kept(ss[k], T)
    OBVIOUS
  <2>4. pieces(t) = [k \in 1 .. n + 1 |-> Kept(t[k], T)]
    BY <2>1
  <2>5. Kept(FlattenSeq(ss), T) = FlattenSeq(pieces(ss))
    BY <1>2
  <2> HIDE DEF P, pieces, t, n
  <2>6. pieces(t) = Append(pieces(ss), last)
    <3> DEFINE u == Append(pieces(ss), last)
    <3>1. /\ u \in Seq(Seq(S)) /\ Len(u) = n + 1 /\ u[n + 1] = last
          /\ \A k \in 1 .. n : u[k] = pieces(ss)[k]
      BY <2>2, AppendProperties
    <3>2. u = [k \in 1 .. n + 1 |-> u[k]]
      <4> HIDE DEF u
      <4> QED
        BY <3>1, <2>1
    <3> HIDE DEF u
    <3>3. \A k \in 1 .. n + 1 : u[k] = Kept(t[k], T)
      <4> SUFFICES ASSUME NEW k \in 1 .. n + 1 PROVE u[k] = Kept(t[k], T)
        OBVIOUS
      <4>1. CASE k = n + 1
        BY <2>1, <3>1, <4>1
      <4>2. CASE k # n + 1
        <5>1. k \in 1 .. n
          BY <2>1, <4>2
        <5>2. QED
          BY <2>1, <2>3, <3>1, <5>1
      <4>3. QED
        BY <4>1, <4>2
    <3>4. QED
      BY <2>4, <3>2, <3>3 DEF u
  <2>7. FlattenSeq(pieces(t)) = FlattenSeq(pieces(ss)) \o last
    <3> HIDE DEF last
    <3> QED
      BY <2>2, <2>6, FlattenAppend
  <2>8. FlattenSeq(t) = FlattenSeq(ss) \o e /\ FlattenSeq(ss) \in Seq(S)
    BY FlattenAppend, FlattenType DEF t
  <2>9. Kept(FlattenSeq(t), T) = Kept(FlattenSeq(ss), T) \o last
    BY <2>8, KeptConcat
  <2>10. QED
    BY <2>1, <2>5, <2>7, <2>9 DEF P, t
<1>3. Seq(Seq(S)) \subseteq P
  <2> HIDE DEF P
  <2> QED
    BY <1>1, <1>2, SequenceInduction
<1>4. QED
  BY <1>3

-----------------------------------------------------------------------------
(* FoldLeft *)

LEMMA MaxOfInterval ==
    ASSUME NEW k \in Nat, k # 0
    PROVE  Max(1 .. k) = k /\ (1 .. k) \ {k} = 1 .. k - 1 /\ 1 .. k # {}
<1>1. k \in 1 .. k /\ \A x \in 1 .. k : x <= k /\ (x >= k => x = k)
  OBVIOUS
<1>2. \A x \in 1 .. k : (\A y \in 1 .. k : x >= y) <=> x = k
  BY <1>1
<1>3. Max(1 .. k) = k
  <2>1. Max(1 .. k) \in 1 .. k /\ \A y \in 1 .. k : Max(1 .. k) >= y
    BY <1>1, <1>2 DEF Max
  <2>2. QED
    BY <1>2, <2>1
<1>4. QED
  BY <1>1, <1>3

LEMMA MaxOfFinite ==
    ASSUME NEW n \in Nat, NEW s \in SUBSET (1 .. n), s # {}
    PROVE  Max(s) \in s /\ \A y \in s : Max(s) >= y
<1> DEFINE T == {d \in Nat : n - d \in s}
<1>0. \A x \in s : n - x \in T /\ x \in Int
  <2> SUFFICES ASSUME NEW x \in s PROVE n - x \in T /\ x \in Int
    OBVIOUS
  <2>1. x \in Int /\ n - x \in Nat /\ n - (n - x) = x
    OBVIOUS
  <2>2. QED
    BY <2>1
<1>1. T \in SUBSET Nat /\ T # {}
  BY <1>0
<1>2. PICK t \in T : \A y \in T : t <= y
  <2> HIDE DEF T
  <2> QED
    BY <1>1, Minimum
<1>3. n - t \in s /\ t \in Nat
  OBVIOUS
<1>4. ASSUME NEW y \in s PROVE n - t >= y
  <2>1. t <= n - y /\ y \in Int
    BY <1>0, <1>2
  <2>2. QED
    BY <1>3, <2>1
<1>5. QED
  <2> HIDE DEF T
  <2>1. \E x \in s : \A y \in s : x >= y
    BY <1>3, <1>4
  <2>2. QED
    BY <2>1 DEF Max

\* The function by which FoldLeft is defined exists: `step' has what it does
\* with each element.
FoldStep(n, base, step, iter) ==
    [s \in SUBSET (1 .. n) |-> IF s = {} THEN base ELSE step[Max(s)][iter[s \ {Max(s)}]]]

Folding(n, T, base, step, iter) ==
    iter \in [SUBSET (1 .. n) -> T] /\ iter = FoldStep(n, base, step, iter)

LEMMA FoldExists ==
    ASSUME NEW n \in Nat, NEW T, NEW base \in T, NEW step, step \in [1 .. n -> [T -> T]]
    PROVE  \E iter : Folding(n, T, base, step, iter)
<1> DEFINE Good(m, g) == \A s \in SUBSET (1 .. m) :
                            g[s] = IF s = {} THEN base ELSE step[Max(s)][g[s \ {Max(s)}]]
           Has(m) == \E g \in [SUBSET (1 .. m) -> T] : Good(m, g)
           P == {m \in Nat : m <= n => Has(m)}
<1> HIDE DEF Good, Has
<1>1. 0 \in P
  <2> DEFINE g == [s \in SUBSET (1 .. 0) |-> base]
  <2>1. 1 .. 0 = {}
    OBVIOUS
  <2>2. g \in [SUBSET (1 .. 0) -> T] /\ Good(0, g)
    BY <2>1 DEF Good
  <2>3. Has(0)
    BY <2>2 DEF Has
  <2>4. QED
    BY <2>3
<1>2. ASSUME NEW m \in Nat, m \in P
      PROVE  m + 1 \in P
  <2>1. SUFFICES ASSUME m + 1 <= n PROVE Has(m + 1)
    OBVIOUS
  <2>0. Has(m)
    BY <1>2, <2>1
  <2>2. PICK g \in [SUBSET (1 .. m) -> T] : Good(m, g)
    BY <2>0, Zenon DEF Has
  <2> DEFINE h == [s \in SUBSET (1 .. m + 1) |->
                      IF m + 1 \in s THEN step[m + 1][g[s \ {m + 1}]] ELSE g[s]]
  <2>3. \A s \in SUBSET (1 .. m + 1) : s \ {m + 1} \in SUBSET (1 .. m)
    OBVIOUS
  <2>4. \A s \in SUBSET (1 .. m + 1) : m + 1 \notin s => s \in SUBSET (1 .. m)
    OBVIOUS
  <2>5. step[m + 1] \in [T -> T]
    BY <2>1
  <2>6. h \in [SUBSET (1 .. m + 1) -> T]
    BY <2>3, <2>4, <2>5
  <2>7. ASSUME NEW s \in SUBSET (1 .. m + 1)
        PROVE  h[s] = IF s = {} THEN base ELSE step[Max(s)][h[s \ {Max(s)}]]
    <3>1. CASE m + 1 \in s
      <4>1. Max(s) = m + 1
        <5>1. m + 1 \in Nat /\ s # {}
          BY <3>1
        <5>2. Max(s) \in s /\ \A y \in s : Max(s) >= y
          BY <5>1, MaxOfFinite
        <5>3. Max(s) \in 1 .. m + 1 /\ Max(s) >= m + 1
          BY <3>1, <5>2
        <5>4. QED
          BY <5>3
      <4>2. s \ {m + 1} \in SUBSET (1 .. m + 1) /\ m + 1 \notin s \ {m + 1}
        OBVIOUS
      <4>3. h[s] = step[m + 1][g[s \ {m + 1}]] /\ h[s \ {m + 1}] = g[s \ {m + 1}]
        BY <3>1, <4>2
      <4> HIDE DEF h
      <4>4. QED
        BY <3>1, <4>1, <4>3
    <3>2. CASE m + 1 \notin s
      <4>1. s \in SUBSET (1 .. m) /\ h[s] = g[s]
        BY <2>4, <3>2
      <4>2. s \ {Max(s)} \in SUBSET (1 .. m + 1) /\ m + 1 \notin s \ {Max(s)}
        BY <3>2
      <4>3. h[s \ {Max(s)}] = g[s \ {Max(s)}]
        BY <4>2
      <4> HIDE DEF h
      <4>4. QED
        BY <2>2, <4>1, <4>3 DEF Good
    <3>3. QED
      BY <3>1, <3>2
  <2>8. Good(m + 1, h)
    <3> HIDE DEF h
    <3> QED
      BY <2>7 DEF Good
  <2> HIDE DEF h
  <2>9. QED
    BY <2>6, <2>8, Zenon DEF Has
<1>3. Nat \subseteq P
  <2> HIDE DEF P
  <2> QED
    BY <1>1, <1>2, Induction
<1>4. n \in P
  <2> HIDE DEF P
  <2> QED
    BY <1>3
<1>5. PICK g \in [SUBSET (1 .. n) -> T] : Good(n, g)
  <2>1. Has(n)
    BY <1>4
  <2>2. QED
    BY <2>1, Zenon DEF Has
<1>6. g = FoldStep(n, base, step, g)
  BY <1>5 DEF FoldStep, Good
<1>7. Folding(n, T, base, step, g)
  BY <1>6 DEF Folding
<1>8. QED
  BY <1>7

-----------------------------------------------------------------------------
\* Its values at the prefixes of a sequence.
FoldSteps(n, T, base, step, iter) ==
    /\ iter[{}] = base
    /\ \A k \in 1 .. n : iter[1 .. k - 1] \in T => iter[1 .. k] = step[k][iter[1 .. k - 1]]

PrefixesIn(n, T, iter) == \A k \in 0 .. n : iter[1 .. k] \in T

\* What a fold has come to after each element is of the same type.
LEMMA FoldPrefixes ==
    ASSUME NEW n \in Nat, NEW T, NEW base \in T, NEW step, step \in [1 .. n -> [T -> T]],
           NEW iter, FoldSteps(n, T, base, step, iter)
    PROVE  PrefixesIn(n, T, iter)
<1> USE DEF FoldSteps, PrefixesIn
<1> DEFINE P == {k \in Nat : k <= n => iter[1 .. k] \in T}
<1>1. 0 \in P
  <2>1. 1 .. 0 = {}
    OBVIOUS
  <2>2. QED
    BY <2>1
<1>2. ASSUME NEW m \in Nat, m \in P
      PROVE  m + 1 \in P
  <2>1. SUFFICES ASSUME m + 1 <= n PROVE iter[1 .. m + 1] \in T
    OBVIOUS
  <2>2. iter[1 .. m] \in T
    BY <1>2, <2>1
  <2> HIDE DEF P
  <2> DEFINE k == m + 1
  <2>3. k \in 1 .. n /\ k - 1 = m
    BY <2>1
  <2> HIDE DEF k
  <2>4. iter[1 .. k] = step[k][iter[1 .. k - 1]] /\ iter[1 .. k - 1] \in T
    BY <2>2, <2>3, Zenon
  <2>5. step[k] \in [T -> T]
    BY <2>3
  <2>6. iter[1 .. k] \in T
    BY <2>4, <2>5
  <2>7. QED
    BY <2>6 DEF k
<1>3. Nat \subseteq P
  <2> HIDE DEF P
  <2> QED
    BY <1>1, <1>2, Induction
<1>4. QED
  BY <1>3

LEMMA PrefixAppend ==
    ASSUME NEW S, NEW s \in Seq(S), NEW k \in 1 .. Len(s)
    PROVE  /\ SubSeq(s, 1, k - 1) \in Seq(S) /\ s[k] \in S
           /\ SubSeq(s, 1, k) = Append(SubSeq(s, 1, k - 1), s[k])
<1>1. Len(s) \in Nat /\ k \in Nat /\ k - 1 \in Int /\ s[k] \in S
  OBVIOUS
<1>2. \A i \in 1 .. k - 1 : s[i] \in S
  OBVIOUS
<1>3. SubSeq(s, 1, k - 1) \in Seq(S)
  BY <1>1, <1>2, SubSeqProperties
<1>4. SubSeq(s, 1, k) = SubSeq(s, 1, k - 1) \o <<s[k]>>
  <2>1. 1 \in 1 .. Len(s) /\ k \in 1 .. Len(s)
    BY <1>1
  <2>2. QED
    BY <2>1, SubSeqRecursiveSecond
<1>5. QED
  BY <1>1, <1>3, <1>4, AppendIsConcat

-----------------------------------------------------------------------------
(* What scan_text finds *)

Actions == DOMAIN _ACTION_SEVERITY
MatchOf(r, s, pol) ==
    [pattern |-> r, start |-> s, end |-> s + Len(Words[r]), action |-> pol.action[r],
     message |-> 1, part |-> 1, call |-> 0]

\* Pattern r, if it is enabled, is found after s characters.
Found(text, pol, r, s) == Enabled(r, pol) /\ OccursAt(Words[r], text, s)

PatternOrder == {mn \in MatchRecords \X MatchRecords : mn[1].pattern <= mn[2].pattern}

LEMMA WordFacts ==
    /\ Len(Words) \in Nat
    /\ \A r \in Patterns : Words[r] \in Text /\ Len(Words[r]) \in Nat /\ Len(Words[r]) > 0
    /\ Patterns = 1 .. Len(Words)
<1>1. Words \in Seq(Text) /\ \A r \in Patterns : Words[r] # <<>>
  BY ScanAssumption
<1>2. \A r \in Patterns : Words[r] \in Text
  BY <1>1 DEF Patterns
<1>3. \A r \in Patterns : Len(Words[r]) \in Nat /\ Len(Words[r]) > 0
  <2> SUFFICES ASSUME NEW r \in Patterns PROVE Len(Words[r]) \in Nat /\ Len(Words[r]) > 0
    OBVIOUS
  <2>1. Words[r] \in Seq(Letters) /\ Words[r] # <<>>
    BY <1>1, <1>2 DEF Text
  <2>2. QED
    BY <2>1, EmptySeq
<1>4. QED
  BY <1>1, <1>2, <1>3 DEF Patterns

LEMMA MatchType ==
    ASSUME NEW pol \in Policies, NEW r \in Patterns, NEW s \in Nat
    PROVE  MatchOf(r, s, pol) \in MatchRecords
<1>1. r \in Int /\ s + Len(Words[r]) \in Nat
  BY WordFacts
<1>2. pol.action \in [Patterns -> Actions]
  BY DEF Policies, Actions
<1>3. pol.action[r] \in Actions
  BY <1>2
<1>4. QED
  BY <1>1, <1>3 DEF MatchOf, MatchRecords, Actions

LEMMA FoundStarts ==
    ASSUME NEW text \in Text, NEW pol, NEW r \in Patterns, NEW s \in Nat, Found(text, pol, r, s)
    PROVE  s < Len(text) /\ s + Len(Words[r]) <= Len(text) /\ Len(text) \in Nat
<1>1. Len(text) \in Nat
  BY DEF Text
<1>2. QED
  BY <1>1, WordFacts DEF Found, OccursAt

\* The matches of scan_text are where the patterns occur.
LEMMA ScanTextProperties ==
    ASSUME NEW text \in Text, NEW pol \in Policies
    PROVE  LET ms == scan_text(text, pol) IN
           /\ ms \in Seq(MatchRecords)
           /\ \A m : m \in Range(ms) <=>
                  \E r \in Patterns, s \in Nat : Found(text, pol, r, s) /\ m = MatchOf(r, s, pol)
           /\ IsInjective(ms)
           /\ Related(PatternOrder, ms)
<1> DEFINE n == Len(text)
           hits(r) == {j \in 1 .. n : Found(text, pol, r, j - 1)}
           e(r) == [j \in 1 .. n |-> MatchOf(r, j - 1, pol)]
           found == [r \in 1 .. Len(Words) |-> Optional(n, e(r), hits(r))]
           ms == scan_text(text, pol)
<1>1. n \in Nat /\ DOMAIN text = 1 .. n
  BY DEF Text
<1> HIDE DEF n
<1>2. ms = FlattenSeq(found)
  <2>1. ASSUME NEW r \in Patterns
        PROVE  FlattenSeq([j \in DOMAIN text |->
                   IF Enabled(r, pol) /\ OccursAt(Words[r], text, j - 1)
                   THEN <<[pattern |-> r, start |-> j - 1, end |-> j - 1 + Len(Words[r]),
                           action |-> pol.action[r], message |-> 1, part |-> 1, call |-> 0]>>
                   ELSE <<>>]) = Optional(n, e(r), hits(r))
    <3> DEFINE left == [j \in 1 .. n |->
                   IF Enabled(r, pol) /\ OccursAt(Words[r], text, j - 1)
                   THEN <<[pattern |-> r, start |-> j - 1, end |-> j - 1 + Len(Words[r]),
                           action |-> pol.action[r], message |-> 1, part |-> 1, call |-> 0]>>
                   ELSE <<>>]
               right == [j \in 1 .. n |-> IF j \in hits(r) THEN <<e(r)[j]>> ELSE <<>>]
    <3>1. left = right
      <4>1. \A j \in 1 .. n : left[j] = right[j]
        BY DEF Found, MatchOf
      <4>2. QED
        BY <4>1
    <3>2. QED
      BY <1>1, <3>1, Zenon DEF Optional
  <2>2. QED
    BY <2>1, WordFacts, Zenon DEF scan_text
<1>3. ASSUME NEW r \in Patterns
      PROVE  /\ found[r] \in Seq(MatchRecords)
             /\ \A m : m \in Range(found[r]) <=> \E j \in hits(r) : m = MatchOf(r, j - 1, pol)
             /\ Related(PatternOrder, found[r])
             /\ IsInjective(found[r])
  <2>1. found[r] = Optional(n, e(r), hits(r))
    BY WordFacts
  <2>2. e(r) \in [1 .. n -> MatchRecords]
    BY <1>1, MatchType
  <2>3. \A j \in 1 .. n : e(r)[j] = MatchOf(r, j - 1, pol) /\ e(r)[j].pattern = r /\ e(r)[j].start = j - 1
    BY DEF MatchOf
  <2>4. hits(r) \in SUBSET (1 .. n)
    OBVIOUS
  <2> HIDE DEF hits, e, found
  <2>5. \A k, l \in hits(r) : k < l => <<e(r)[k], e(r)[l]>> \in PatternOrder
    <3> SUFFICES ASSUME NEW k \in hits(r), NEW l \in hits(r) PROVE <<e(r)[k], e(r)[l]>> \in PatternOrder
      OBVIOUS
    <3>1. e(r)[k] \in MatchRecords /\ e(r)[l] \in MatchRecords
      BY <2>2, <2>4
    <3>2. e(r)[k].pattern = r /\ e(r)[l].pattern = r /\ r \in Int
      BY <2>3, <2>4, WordFacts
    <3>3. QED
      BY <3>1, <3>2 DEF PatternOrder
  <2>6. \A k, l \in hits(r) : k # l => e(r)[k] # e(r)[l]
    <3> SUFFICES ASSUME NEW k \in hits(r), NEW l \in hits(r), e(r)[k] = e(r)[l] PROVE k = l
      OBVIOUS
    <3>1. k \in Int /\ l \in Int /\ k - 1 = l - 1
      BY <1>1, <2>3, <2>4
    <3>2. QED
      BY <3>1
  <2>7. /\ Optional(n, e(r), hits(r)) \in Seq(MatchRecords)
        /\ \A x : x \in Range(Optional(n, e(r), hits(r))) <=> \E k \in hits(r) : x = e(r)[k]
        /\ Related(PatternOrder, Optional(n, e(r), hits(r)))
        /\ IsInjective(Optional(n, e(r), hits(r)))
    <3> DEFINE h == e(r)
               D == hits(r)
    <3>1. n \in Nat /\ h \in [1 .. n -> MatchRecords] /\ D \in SUBSET (1 .. n)
      BY <1>1, <2>2, <2>4
    <3>2. \A k, l \in D : k < l => <<h[k], h[l]>> \in PatternOrder
      BY <2>5
    <3>3. \A k, l \in D : k # l => h[k] # h[l]
      BY <2>6
    <3> HIDE DEF h, D
    <3>4. /\ Optional(n, h, D) \in Seq(MatchRecords)
          /\ \A x : x \in Range(Optional(n, h, D)) <=> \E k \in D : x = h[k]
      BY <3>1, OptionalProperties
    <3>5. IsInjective(Optional(n, h, D))
      BY <3>1, <3>3, OptionalProperties
    <3>6. Related(PatternOrder, Optional(n, h, D))
      <4>1. \A R : (\A k, l \in D : k < l => <<h[k], h[l]>> \in R) => Related(R, Optional(n, h, D))
        BY <3>1, OptionalProperties, Zenon
      <4>2. QED
        BY <3>2, <4>1, Zenon
    <3>7. QED
      BY <3>4, <3>5, <3>6 DEF h, D
  <2>8. \A x : (\E k \in hits(r) : x = e(r)[k]) <=> (\E j \in hits(r) : x = MatchOf(r, j - 1, pol))
    BY <2>3, <2>4
  <2>9. QED
    BY <2>1, <2>7, <2>8, Zenon
<1>4. found \in Seq(Seq(MatchRecords)) /\ Len(found) = Len(Words)
  <2>1. found = [r \in 1 .. Len(Words) |-> found[r]]
    OBVIOUS
  <2> HIDE DEF found
  <2>2. found \in [1 .. Len(Words) -> Seq(MatchRecords)]
    BY <1>3, <2>1, WordFacts
  <2>3. QED
    BY <2>2, WordFacts
<1> HIDE DEF found, ms
<1>5. ms \in Seq(MatchRecords)
  BY <1>2, <1>4, FlattenType
<1>6. ASSUME NEW m
      PROVE  m \in Range(ms) <=>
                 \E r \in Patterns, s \in Nat : Found(text, pol, r, s) /\ m = MatchOf(r, s, pol)
  <2>1. m \in Range(ms) <=> \E r \in Patterns : m \in Range(found[r])
    BY <1>2, <1>4, FlattenRange, WordFacts
  <2>2. ASSUME NEW r \in Patterns
        PROVE  m \in Range(found[r]) <=> \E s \in Nat : Found(text, pol, r, s) /\ m = MatchOf(r, s, pol)
    <3>1. m \in Range(found[r]) <=> \E j \in hits(r) : m = MatchOf(r, j - 1, pol)
      BY <1>3
    <3>2. ASSUME NEW j \in hits(r), m = MatchOf(r, j - 1, pol)
          PROVE  \E s \in Nat : Found(text, pol, r, s) /\ m = MatchOf(r, s, pol)
      <4>1. j - 1 \in Nat /\ Found(text, pol, r, j - 1)
        BY <1>1
      <4>2. QED
        BY <3>2, <4>1
    <3>3. ASSUME NEW s \in Nat, Found(text, pol, r, s), m = MatchOf(r, s, pol)
          PROVE  \E j \in hits(r) : m = MatchOf(r, j - 1, pol)
      <4>1. s < n
        BY <3>3, FoundStarts DEF n
      <4>2. s + 1 \in hits(r) /\ s + 1 - 1 = s
        BY <1>1, <3>3, <4>1
      <4>3. QED
        BY <3>3, <4>2
    <3>4. QED
      BY <3>1, <3>2, <3>3
  <2>3. QED
    BY <2>1, <2>2
<1>7. IsInjective(ms)
  <2>1. \A r \in Patterns : \A m \in Range(found[r]) : m.pattern = r
    BY <1>3 DEF MatchOf
  <2>2. \A k, l \in Patterns : k # l => Range(found[k]) \cap Range(found[l]) = {}
    BY <2>1
  <2>3. QED
    BY <1>2, <1>3, <1>4, <2>2, FlattenInjective, WordFacts
<1>8. Related(PatternOrder, ms)
  <2>1. \A r \in Patterns : \A m \in Range(found[r]) : m.pattern = r /\ m \in MatchRecords
    <3>1. \A r \in Patterns : \A m \in Range(found[r]) : m.pattern = r
      BY <1>3 DEF MatchOf
    <3>2. \A r \in Patterns : \A m \in Range(found[r]) : m \in MatchRecords
      BY <1>3, RangeOfSeq
    <3>3. QED
      BY <3>1, <3>2
  <2>2. RelatedAcross(PatternOrder, found)
    <3> SUFFICES ASSUME NEW k \in Patterns, NEW l \in Patterns, k < l,
                        NEW x \in Range(found[k]), NEW y \in Range(found[l])
                 PROVE  <<x, y>> \in PatternOrder
      BY <1>4, WordFacts DEF RelatedAcross
    <3>1. x.pattern = k /\ y.pattern = l /\ k <= l /\ x \in MatchRecords /\ y \in MatchRecords
      BY <2>1, WordFacts
    <3>2. QED
      BY <3>1 DEF PatternOrder
  <2>3. QED
    BY <1>2, <1>3, <1>4, <2>2, FlattenRelated, WordFacts
<1>9. QED
  BY <1>5, <1>6, <1>7, <1>8 DEF ms

-----------------------------------------------------------------------------
(* The calls that a stream's fragments make *)

Names == STRING \cup {NoName}
CallRecords == [name : Names, arguments : Text]
FragmentRecords == [index : Nat, name : Names, arguments : Text]

\* What is put together from the fragments of tool calls.
Tables == UNION {[D -> CallRecords] : D \in {D \in SUBSET (Nat \ {NoIndex}) : IsFiniteSet(D)}}

IndicesOf(frags) == {f.index : f \in Range(frags)} \ {NoIndex}
Those(i) == {f \in FragmentRecords : f.index = i}
Table(frags) == [i \in IndicesOf(frags) |-> CallOf(Kept(frags, Those(i)))]

LEMMA TextConcat ==
    ASSUME NEW s \in Text, NEW t \in Text
    PROVE  s \o t \in Text /\ <<>> \in Text
<1>1. s \in Seq(Letters) /\ t \in Seq(Letters)
  BY DEF Text
<1>2. s \o t \in Seq(Letters) /\ <<>> \in Seq(Letters)
  BY <1>1, ConcatProperties, EmptySeq
<1>3. QED
  BY <1>2 DEF Text

LEMMA AddType ==
    ASSUME NEW acc \in Tables, NEW e \in FragmentRecords
    PROVE  Add(acc, e) \in Tables
<1> DEFINE D == DOMAIN acc
           E == D \cup ({e.index} \ {NoIndex})
           slot == IF e.index \in DOMAIN acc THEN acc[e.index]
                   ELSE [name |-> NoName, arguments |-> <<>>]
           merged == [name |-> IF e.name # NoName THEN e.name ELSE slot.name,
                      arguments |-> slot.arguments \o e.arguments]
<1>1. D \in SUBSET (Nat \ {NoIndex}) /\ IsFiniteSet(D) /\ acc \in [D -> CallRecords]
  BY DEF Tables
<1>2. e.index \in Nat /\ e.name \in Names /\ e.arguments \in Text
  BY DEF FragmentRecords
<1>3. slot.name \in Names /\ slot.arguments \in Text
  <2>1. <<>> \in Text /\ NoName \in Names
    <3>1. <<>> \in Text
      BY EmptySeq DEF Text
    <3>2. NoName \in Names
      BY DEF Names
    <3>3. QED
      BY <3>1, <3>2
  <2>2. \A i \in D : acc[i] \in CallRecords
    BY <1>1
  <2>3. QED
    BY <2>1, <2>2 DEF CallRecords
<1>4. merged \in CallRecords
  <2>1. slot.arguments \o e.arguments \in Text
    BY <1>2, <1>3, TextConcat
  <2> HIDE DEF slot
  <2>2. QED
    BY <1>2, <1>3, <2>1 DEF CallRecords
<1>5. E \in SUBSET (Nat \ {NoIndex}) /\ IsFiniteSet(E)
  <2>1. IsFiniteSet(D \cup {e.index})
    BY <1>1, FS_AddElement
  <2>2. E = D \/ E = D \cup {e.index}
    OBVIOUS
  <2> HIDE DEF D
  <2>3. QED
    BY <1>1, <1>2, <2>1, <2>2
<1>6. Add(acc, e) = [i \in E |-> IF i = e.index THEN merged ELSE acc[i]]
  BY Zenon DEF Add
<1> HIDE DEF slot, merged
<1>7. Add(acc, e) \in [E -> CallRecords]
  BY <1>1, <1>4, <1>6
<1> HIDE DEF E
<1>8. QED
  BY <1>5, <1>7 DEF Tables

LEMMA NoCallsType == NoCalls \in Tables
<1>1. NoCalls \in [{} -> CallRecords]
  BY DEF NoCalls
<1>2. {} \in SUBSET (Nat \ {NoIndex}) /\ IsFiniteSet({})
  BY FS_EmptySet
<1>3. QED
  BY <1>1, <1>2 DEF Tables

LEMMA AddFold ==
    ASSUME NEW acc \in Tables, NEW frags \in Seq(FragmentRecords)
    PROVE  \E f \in [0 .. Len(frags) -> Tables] :
              /\ f[0] = acc
              /\ \A k \in 1 .. Len(frags) : f[k] = Add(f[k - 1], frags[k])
              /\ FoldLeft(Add, acc, frags) = f[Len(frags)]
<1> DEFINE n == Len(frags)
           step == [k \in 1 .. n |-> [a \in Tables |-> Add(a, frags[k])]]
           F(g) == [t \in SUBSET (1 .. n) |->
                       IF t = {} THEN acc ELSE Add(g[t \ {Max(t)}], frags[Max(t)])]
           iter == CHOOSE g : g = F(g)
<1>1. n \in Nat /\ DOMAIN frags = 1 .. n /\ acc \in Tables /\ \A k \in 1 .. n : frags[k] \in FragmentRecords
  BY EmptySeq
<1> HIDE DEF n
<1>2. \A k \in 1 .. n, a \in Tables : Add(a, frags[k]) \in Tables
  BY <1>1, AddType
<1>3. step \in [1 .. n -> [Tables -> Tables]]
  BY <1>2
<1>4. PICK g : Folding(n, Tables, acc, step, g)
  <2> HIDE DEF step, F, iter
  <2> QED
    BY <1>1, <1>3, FoldExists
<1>5. \A t \in SUBSET (1 .. n) : t # {} => Max(t) \in 1 .. n /\ t \ {Max(t)} \in SUBSET (1 .. n)
  BY <1>1, MaxOfFinite
<1>6. g = F(g)
  <2>1. \A t \in SUBSET (1 .. n) : t # {} =>
            step[Max(t)][g[t \ {Max(t)}]] = Add(g[t \ {Max(t)}], frags[Max(t)])
    <3>1. g \in [SUBSET (1 .. n) -> Tables]
      BY <1>4 DEF Folding
    <3>2. QED
      BY <1>5, <3>1
  <2> HIDE DEF step
  <2>2. QED
    BY <1>4, <2>1 DEF FoldStep, Folding
<1>7. iter = F(iter)
  <2> HIDE DEF F
  <2> QED
    BY <1>6, Zenon
<1>8. FoldLeft(Add, acc, frags) = iter[1 .. n]
  BY <1>1, Zenon DEF FoldLeft, MapThenFoldSet
<1> HIDE DEF iter
<1>9. iter[{}] = acc
  <2>1. {} \in SUBSET (1 .. n)
    OBVIOUS
  <2>2. QED
    BY <1>7, <2>1
<1>10. ASSUME NEW k \in 1 .. n
       PROVE  iter[1 .. k] = Add(iter[1 .. k - 1], frags[k])
  <2>1. 1 .. k \in SUBSET (1 .. n) /\ k \in Nat /\ k # 0
    BY <1>1
  <2>2. Max(1 .. k) = k /\ (1 .. k) \ {k} = 1 .. k - 1 /\ 1 .. k # {}
    BY <2>1, MaxOfInterval
  <2>3. iter[1 .. k] = F(iter)[1 .. k]
    BY <1>7, Zenon
  <2> HIDE DEF n
  <2>4. QED
    BY <2>1, <2>2, <2>3
<1>11. \A k \in 0 .. n : iter[1 .. k] \in Tables
  <2>1. FoldSteps(n, Tables, acc, step, iter)
    BY <1>9, <1>10 DEF FoldSteps
  <2> HIDE DEF step, F
  <2>2. PrefixesIn(n, Tables, iter)
    BY <1>1, <1>3, <2>1, FoldPrefixes
  <2>3. QED
    BY <2>2 DEF PrefixesIn
<1> DEFINE f == [k \in 0 .. n |-> iter[1 .. k]]
<1>12. f \in [0 .. n -> Tables]
  BY <1>11
<1>13. f[0] = acc
  <2>1. 1 .. 0 = {} /\ 0 \in 0 .. n
    BY <1>1
  <2>2. QED
    BY <1>9, <2>1
<1>14. ASSUME NEW k \in 1 .. n
       PROVE  f[k] = Add(f[k - 1], frags[k])
  <2>1. k \in 0 .. n /\ k - 1 \in 0 .. n
    BY <1>1
  <2>2. f[k] = iter[1 .. k] /\ f[k - 1] = iter[1 .. k - 1]
    BY <2>1
  <2> HIDE DEF f
  <2>3. QED
    BY <1>10, <2>2
<1>15. FoldLeft(Add, acc, frags) = f[n]
  <2>1. n \in 0 .. n
    BY <1>1
  <2>2. QED
    BY <1>8, <2>1
<1> HIDE DEF f
<1>16. QED
  BY <1>12, <1>13, <1>14, <1>15 DEF n

LEMMA FrameCalls ==
    ASSUME NEW frame \in Frames
    PROVE  frame.calls \in Seq(FragmentRecords) /\ frame.text \in Text
<1> DEFINE F == [index : Nat, name : STRING, arguments : Text]
<1>1. frame.calls \in Seq(F) /\ frame.text \in Text
  BY DEF Frames
<1>2. F \subseteq FragmentRecords
  BY DEF FragmentRecords, Names
<1> HIDE DEF F
<1>3. QED
  BY <1>1, <1>2, SeqMonotonic

LEMMA AccumulateType ==
    ASSUME NEW acc \in Tables, NEW frame \in Frames
    PROVE  accumulate_tool_call_deltas(acc, frame) \in Tables
<1>1. frame.calls \in Seq(FragmentRecords)
  BY FrameCalls
<1> DEFINE frags == frame.calls
<1> HIDE DEF frags
<1>2. frags \in Seq(FragmentRecords)
  BY <1>1 DEF frags
<1>3. PICK f \in [0 .. Len(frags) -> Tables] : FoldLeft(Add, acc, frags) = f[Len(frags)]
  BY <1>2, AddFold
<1>4. Len(frags) \in 0 .. Len(frags)
  BY <1>2
<1>5. FoldLeft(Add, acc, frags) \in Tables
  BY <1>3, <1>4
<1>6. QED
  BY <1>5 DEF accumulate_tool_call_deltas, frags

LEMMA AccumulateFold ==
    ASSUME NEW frames \in Seq(Frames)
    PROVE  \E f \in [0 .. Len(frames) -> Tables] :
              /\ f[0] = NoCalls
              /\ \A k \in 1 .. Len(frames) : f[k] = accumulate_tool_call_deltas(f[k - 1], frames[k])
              /\ Accumulated(frames) = f[Len(frames)]
<1> DEFINE n == Len(frames)
           step == [k \in 1 .. n |-> [a \in Tables |-> accumulate_tool_call_deltas(a, frames[k])]]
           F(g) == [t \in SUBSET (1 .. n) |->
                       IF t = {} THEN NoCalls ELSE accumulate_tool_call_deltas(g[t \ {Max(t)}], frames[Max(t)])]
           iter == CHOOSE g : g = F(g)
<1>1. n \in Nat /\ DOMAIN frames = 1 .. n /\ NoCalls \in Tables /\ \A k \in 1 .. n : frames[k] \in Frames
  BY EmptySeq, NoCallsType
<1> HIDE DEF n
<1>2. \A k \in 1 .. n, a \in Tables : accumulate_tool_call_deltas(a, frames[k]) \in Tables
  BY <1>1, AccumulateType
<1>3. step \in [1 .. n -> [Tables -> Tables]]
  BY <1>2
<1>4. PICK g : Folding(n, Tables, NoCalls, step, g)
  <2> HIDE DEF step, F, iter
  <2> QED
    BY <1>1, <1>3, FoldExists
<1>5. \A t \in SUBSET (1 .. n) : t # {} => Max(t) \in 1 .. n /\ t \ {Max(t)} \in SUBSET (1 .. n)
  BY <1>1, MaxOfFinite
<1>6. g = F(g)
  <2>1. \A t \in SUBSET (1 .. n) : t # {} =>
            step[Max(t)][g[t \ {Max(t)}]] = accumulate_tool_call_deltas(g[t \ {Max(t)}], frames[Max(t)])
    <3>1. g \in [SUBSET (1 .. n) -> Tables]
      BY <1>4 DEF Folding
    <3>2. QED
      BY <1>5, <3>1
  <2> HIDE DEF step
  <2>2. QED
    BY <1>4, <2>1 DEF FoldStep, Folding
<1>7. iter = F(iter)
  <2> HIDE DEF F
  <2> QED
    BY <1>6, Zenon
<1>8. Accumulated(frames) = iter[1 .. n]
  BY <1>1, Zenon DEF Accumulated, FoldLeft, MapThenFoldSet
<1> HIDE DEF iter
<1>9. iter[{}] = NoCalls
  <2>1. {} \in SUBSET (1 .. n)
    OBVIOUS
  <2>2. QED
    BY <1>7, <2>1
<1>10. ASSUME NEW k \in 1 .. n
       PROVE  iter[1 .. k] = accumulate_tool_call_deltas(iter[1 .. k - 1], frames[k])
  <2>1. 1 .. k \in SUBSET (1 .. n) /\ k \in Nat /\ k # 0
    BY <1>1
  <2>2. Max(1 .. k) = k /\ (1 .. k) \ {k} = 1 .. k - 1 /\ 1 .. k # {}
    BY <2>1, MaxOfInterval
  <2>3. iter[1 .. k] = F(iter)[1 .. k]
    BY <1>7, Zenon
  <2> HIDE DEF n
  <2>4. QED
    BY <2>1, <2>2, <2>3
<1>11. \A k \in 0 .. n : iter[1 .. k] \in Tables
  <2>1. FoldSteps(n, Tables, NoCalls, step, iter)
    BY <1>9, <1>10 DEF FoldSteps
  <2> HIDE DEF step, F
  <2>2. PrefixesIn(n, Tables, iter)
    BY <1>1, <1>3, <2>1, FoldPrefixes
  <2>3. QED
    BY <2>2 DEF PrefixesIn
<1> DEFINE f == [k \in 0 .. n |-> iter[1 .. k]]
<1>12. f \in [0 .. n -> Tables]
  BY <1>11
<1>13. f[0] = NoCalls
  <2>1. 1 .. 0 = {} /\ 0 \in 0 .. n
    BY <1>1
  <2>2. QED
    BY <1>9, <2>1
<1>14. ASSUME NEW k \in 1 .. n
       PROVE  f[k] = accumulate_tool_call_deltas(f[k - 1], frames[k])
  <2>1. k \in 0 .. n /\ k - 1 \in 0 .. n
    BY <1>1
  <2>2. f[k] = iter[1 .. k] /\ f[k - 1] = iter[1 .. k - 1]
    BY <2>1
  <2> HIDE DEF f
  <2>3. QED
    BY <1>10, <2>2
<1>15. Accumulated(frames) = f[n]
  <2>1. n \in 0 .. n
    BY <1>1
  <2>2. QED
    BY <1>8, <2>1
<1> HIDE DEF f
<1>16. QED
  BY <1>12, <1>13, <1>14, <1>15 DEF n

LEMMA CallOfEmpty == CallOf(<<>>) = [name |-> NoName, arguments |-> <<>>]
<1>1. DOMAIN <<>> = {} /\ Named(<<>>) = {}
  BY DEF Named
<1>2. [k \in DOMAIN <<>> |-> <<>>[k].arguments] = <<>>
  BY <1>1
<1>3. FlattenSeq([k \in DOMAIN <<>> |-> <<>>[k].arguments]) = <<>>
  BY <1>2, FlattenEmpty, Zenon
<1>4. QED
  BY <1>1, <1>3, Zenon DEF CallOf

LEMMA CallOfAppend ==
    ASSUME NEW s \in Seq(FragmentRecords), NEW e \in FragmentRecords
    PROVE  CallOf(Append(s, e)) =
               [name |-> IF e.name # NoName THEN e.name ELSE CallOf(s).name,
                arguments |-> CallOf(s).arguments \o e.arguments]
<1> DEFINE t == Append(s, e)
           n == Len(s)
           args(u) == [k \in DOMAIN u |-> u[k].arguments]
           nameOf(u) == IF Named(u) = {} THEN NoName ELSE u[Max(Named(u))].name
<1>1. /\ t \in Seq(FragmentRecords) /\ DOMAIN t = 1 .. n + 1 /\ t[n + 1] = e
      /\ \A k \in 1 .. n : t[k] = s[k]
      /\ n \in Nat /\ DOMAIN s = 1 .. n
  BY AppendProperties
<1> HIDE DEF t, n
<1>2. \A u : CallOf(u) = [name |-> nameOf(u), arguments |-> FlattenSeq(args(u))]
  BY Zenon DEF CallOf
<1>3. FlattenSeq(args(t)) = FlattenSeq(args(s)) \o e.arguments
  <2>1. \A k \in 1 .. n : s[k].arguments \in Seq(Letters)
    <3>1. \A k \in 1 .. n : s[k] \in FragmentRecords
      BY <1>1
    <3>2. QED
      BY <3>1 DEF FragmentRecords, Text
  <2>2. e.arguments \in Seq(Letters)
    BY DEF FragmentRecords, Text
  <2>3. args(s) \in [1 .. n -> Seq(Letters)]
    BY <1>1, <2>1
  <2>4. \A k \in 1 .. n : args(s)[k] = s[k].arguments
    BY <1>1
  <2>5. args(t) = [k \in 1 .. n + 1 |-> t[k].arguments]
    BY <1>1
  <2> HIDE DEF args
  <2>6. args(s) \in Seq(Seq(Letters)) /\ Len(args(s)) = n
    <3> DEFINE f == args(s)
    <3>1. f \in [1 .. n -> Seq(Letters)] /\ n \in Nat
      BY <1>1, <2>3
    <3> HIDE DEF f
    <3>2. f \in Seq(Seq(Letters)) /\ Len(f) = n
      BY <3>1
    <3>3. QED
      BY <3>2 DEF f
  <2> DEFINE u == Append(args(s), e.arguments)
  <2>7. /\ u \in Seq(Seq(Letters)) /\ Len(u) = n + 1 /\ u[n + 1] = e.arguments
        /\ \A k \in 1 .. n : u[k] = args(s)[k]
    BY <2>2, <2>6, AppendProperties
  <2> HIDE DEF u
  <2>8. u = [k \in 1 .. n + 1 |-> u[k]]
    BY <1>1, <2>7
  <2>9. \A k \in 1 .. n + 1 : u[k] = t[k].arguments
    <3> SUFFICES ASSUME NEW k \in 1 .. n + 1 PROVE u[k] = t[k].arguments
      OBVIOUS
    <3>1. CASE k = n + 1
      BY <1>1, <2>7, <3>1
    <3>2. CASE k # n + 1
      <4>1. k \in 1 .. n
        BY <1>1, <3>2
      <4>2. QED
        BY <1>1, <2>4, <2>7, <4>1
    <3>3. QED
      BY <3>1, <3>2
  <2>10. args(t) = u
    BY <2>5, <2>8, <2>9
  <2>11. FlattenSeq(u) = FlattenSeq(args(s)) \o e.arguments
    BY <2>2, <2>6, FlattenAppend DEF u
  <2>12. QED
    BY <2>10, <2>11
<1>4. nameOf(t) = IF e.name # NoName THEN e.name ELSE nameOf(s)
  <2>1. CASE e.name # NoName
    <3>1. n + 1 \in Named(t) /\ \A k \in Named(t) : k \in 1 .. n + 1
      BY <1>1, <2>1 DEF Named
    <3>2. Named(t) \in SUBSET (1 .. n + 1) /\ Named(t) # {} /\ n + 1 \in Nat
      BY <1>1, <3>1
    <3>3. Max(Named(t)) \in Named(t) /\ \A y \in Named(t) : Max(Named(t)) >= y
      BY <3>2, MaxOfFinite
    <3>4. Max(Named(t)) = n + 1
      BY <1>1, <3>1, <3>3
    <3>5. QED
      BY <1>1, <2>1, <3>1, <3>4
  <2>2. CASE e.name = NoName
    <3>1. Named(t) = Named(s)
      <4>1. \A k : k \in Named(t) <=> k \in 1 .. n + 1 /\ t[k].name # NoName
        BY <1>1 DEF Named
      <4>2. \A k : k \in Named(s) <=> k \in 1 .. n /\ s[k].name # NoName
        BY <1>1 DEF Named
      <4>3. \A k : k \in 1 .. n + 1 <=> k \in 1 .. n \/ k = n + 1
        BY <1>1
      <4>4. n + 1 \notin 1 .. n
        BY <1>1
      <4>5. \A k : k \in Named(t) <=> k \in Named(s)
        BY <1>1, <2>2, <4>1, <4>2, <4>3, Zenon
      <4>6. QED
        BY <4>5
    <3>2. Named(s) # {} => Max(Named(s)) \in 1 .. n
      <4>1. Named(s) \in SUBSET (1 .. n)
        BY <1>1 DEF Named
      <4>2. QED
        BY <1>1, <4>1, MaxOfFinite
    <3>3. QED
      BY <1>1, <2>2, <3>1, <3>2
  <2>3. QED
    BY <2>1, <2>2
<1> HIDE DEF nameOf, args
<1>5. QED
  BY <1>2, <1>3, <1>4 DEF t

LEMMA CallOfType ==
    ASSUME NEW s \in Seq(FragmentRecords)
    PROVE  CallOf(s) \in CallRecords
<1> DEFINE P == {t \in Seq(FragmentRecords) : CallOf(t) \in CallRecords}
<1>1. <<>> \in P
  <2>1. <<>> \in Text /\ <<>> \in Seq(FragmentRecords)
    BY EmptySeq DEF Text
  <2>2. QED
    BY <2>1, CallOfEmpty DEF CallRecords, Names
<1>2. ASSUME NEW t \in Seq(FragmentRecords), NEW e \in FragmentRecords, t \in P
      PROVE  Append(t, e) \in P
  <2>1. CallOf(t).name \in Names /\ CallOf(t).arguments \in Text
    BY <1>2 DEF CallRecords
  <2>2. e.name \in Names /\ e.arguments \in Text
    BY DEF FragmentRecords
  <2>3. CallOf(t).arguments \o e.arguments \in Text
    BY <2>1, <2>2, TextConcat
  <2>4. Append(t, e) \in Seq(FragmentRecords)
    BY AppendProperties
  <2>5. CallOf(Append(t, e)) \in CallRecords
    <3>1. CallOf(Append(t, e)) =
              [name |-> IF e.name # NoName THEN e.name ELSE CallOf(t).name,
               arguments |-> CallOf(t).arguments \o e.arguments]
      BY CallOfAppend
    <3>2. QED
      BY <2>1, <2>2, <2>3, <3>1 DEF CallRecords
  <2>6. QED
    BY <2>4, <2>5
<1>3. Seq(FragmentRecords) \subseteq P
  <2> HIDE DEF P
  <2> QED
    BY <1>1, <1>2, SequenceInduction
<1>4. QED
  BY <1>3

LEMMA IndicesAppend ==
    ASSUME NEW s \in Seq(FragmentRecords), NEW e \in FragmentRecords
    PROVE  IndicesOf(Append(s, e)) = IndicesOf(s) \cup ({e.index} \ {NoIndex})
<1>1. Range(Append(s, e)) = Range(s) \cup {e}
  <2> DEFINE w == <<e>>
  <2>1. Append(s, e) = s \o w /\ w \in Seq(FragmentRecords) /\ Range(w) = {e}
    BY AppendIsConcat DEF Range
  <2> HIDE DEF w
  <2>2. Range(s \o w) = Range(s) \cup Range(w)
    BY <2>1, RangeConcatenation
  <2>3. QED
    BY <2>1, <2>2
<1>2. QED
  BY <1>1 DEF IndicesOf

LEMMA TableAppend ==
    ASSUME NEW s \in Seq(FragmentRecords), NEW e \in FragmentRecords
    PROVE  Add(Table(s), e) = Table(Append(s, e))
<1> DEFINE D == IndicesOf(s)
           E == D \cup ({e.index} \ {NoIndex})
           acc == Table(s)
           t == Append(s, e)
           slot == IF e.index \in DOMAIN acc THEN acc[e.index]
                   ELSE [name |-> NoName, arguments |-> <<>>]
           merged == [name |-> IF e.name # NoName THEN e.name ELSE slot.name,
                      arguments |-> slot.arguments \o e.arguments]
<1>1. DOMAIN acc = D /\ \A i \in D : acc[i] = CallOf(Kept(s, Those(i)))
  BY DEF Table
<1>2. Add(acc, e) = [i \in E |-> IF i = e.index THEN merged ELSE acc[i]]
  BY <1>1, Zenon DEF Add
<1>3. Table(t) = [i \in E |-> CallOf(Kept(t, Those(i)))]
  BY IndicesAppend DEF Table
<1> HIDE DEF acc, t
<1>4. ASSUME NEW i \in E
      PROVE  (IF i = e.index THEN merged ELSE acc[i]) = CallOf(Kept(t, Those(i)))
  <2>1. CASE i = e.index
    <3>1. Kept(t, Those(i)) = Append(Kept(s, Those(i)), e)
      <4>1. e \in Those(i)
        BY <2>1 DEF Those
      <4>2. QED
        BY <4>1, KeptAppend DEF t
    <3>2. slot = CallOf(Kept(s, Those(i)))
      <4>1. CASE i \in D
        BY <1>1, <2>1, <4>1
      <4>2. CASE i \notin D
        <5>1. \A f \in Range(s) : f \notin Those(i)
          <6>1. i # NoIndex
            BY DEF IndicesOf
          <6>2. QED
            BY <4>2, <6>1 DEF IndicesOf, Those
        <5>2. Range(Kept(s, Those(i))) = {} /\ Kept(s, Those(i)) \in Seq(FragmentRecords)
          BY <5>1, KeptProperties
        <5>3. Kept(s, Those(i)) = <<>>
          <6> DEFINE u == Kept(s, Those(i))
          <6> HIDE DEF u
          <6>1. Range(u) = {} /\ u \in Seq(FragmentRecords)
            BY <5>2 DEF u
          <6>2. Len(u) = 0
            <7>1. \A k \in 1 .. Len(u) : u[k] \in Range(u)
              BY <6>1, RangeEquality
            <7>2. QED
              BY <6>1, <7>1
          <6>3. u = <<>>
            BY <6>1, <6>2
          <6>4. QED
            BY <6>3 DEF u
        <5>4. QED
          BY <1>1, <2>1, <4>2, <5>3, CallOfEmpty
      <4>3. QED
        BY <4>1, <4>2
    <3>3. Kept(s, Those(i)) \in Seq(FragmentRecords)
      BY KeptProperties
    <3> HIDE DEF slot
    <3>4. CallOf(Append(Kept(s, Those(i)), e)) = merged
      BY <3>2, <3>3, CallOfAppend
    <3> HIDE DEF merged
    <3>5. QED
      BY <2>1, <3>1, <3>4
  <2>2. CASE i # e.index
    <3>1. i \in D
      BY <2>2
    <3>2. e \notin Those(i)
      BY <2>2 DEF Those
    <3>3. Kept(t, Those(i)) = Kept(s, Those(i))
      BY <3>2, KeptAppend DEF t
    <3> HIDE DEF merged
    <3>4. QED
      BY <1>1, <2>2, <3>1, <3>3
  <2>3. QED
    BY <2>1, <2>2
<1> HIDE DEF E, merged
<1>5. QED
  BY <1>2, <1>3, <1>4 DEF acc, t

LEMMA TableType ==
    ASSUME NEW s \in Seq(FragmentRecords)
    PROVE  Table(s) \in Tables
<1> DEFINE P == {t \in Seq(FragmentRecords) : Table(t) \in Tables}
<1>1. <<>> \in P
  <2>1. IndicesOf(<<>>) = {} /\ <<>> \in Seq(FragmentRecords)
    BY EmptySeq DEF IndicesOf, Range
  <2>2. Table(<<>>) \in [{} -> CallRecords]
    BY <2>1 DEF Table
  <2>3. {} \in SUBSET (Nat \ {NoIndex}) /\ IsFiniteSet({})
    BY FS_EmptySet
  <2>4. QED
    BY <2>1, <2>2, <2>3 DEF Tables
<1>2. ASSUME NEW t \in Seq(FragmentRecords), NEW e \in FragmentRecords, t \in P
      PROVE  Append(t, e) \in P
  <2>1. Append(t, e) \in Seq(FragmentRecords)
    BY AppendProperties
  <2>2. Table(t) \in Tables
    BY <1>2
  <2>3. Table(Append(t, e)) \in Tables
    BY <2>2, AddType, TableAppend
  <2>4. QED
    BY <2>1, <2>3
<1>3. Seq(FragmentRecords) \subseteq P
  <2> HIDE DEF P
  <2> QED
    BY <1>1, <1>2, SequenceInduction
<1>4. QED
  BY <1>3

LEMMA FoldTable ==
    ASSUME NEW s \in Seq(FragmentRecords), NEW c \in Seq(FragmentRecords)
    PROVE  FoldLeft(Add, Table(s), c) = Table(s \o c)
<1> DEFINE n == Len(c)
<1>1. n \in Nat
  OBVIOUS
<1>2. PICK f \in [0 .. n -> Tables] :
          /\ f[0] = Table(s) /\ \A k \in 1 .. n : f[k] = Add(f[k - 1], c[k])
          /\ FoldLeft(Add, Table(s), c) = f[n]
  BY AddFold, TableType
<1> DEFINE P == {m \in Nat : m <= n => f[m] = Table(s \o SubSeq(c, 1, m))}
<1>3. 0 \in P
  <2>1. SubSeq(c, 1, 0) = <<>>
    BY SubSeqEmpty
  <2>2. s \o <<>> = s
    BY ConcatEmptySeq
  <2>3. QED
    BY <1>2, <2>1, <2>2
<1>4. ASSUME NEW m \in Nat, m \in P
      PROVE  m + 1 \in P
  <2>1. SUFFICES ASSUME m + 1 <= n PROVE f[m + 1] = Table(s \o SubSeq(c, 1, m + 1))
    OBVIOUS
  <2>2. f[m] = Table(s \o SubSeq(c, 1, m))
    BY <1>1, <1>4, <2>1
  <2> HIDE DEF P
  <2> DEFINE k == m + 1
  <2>3. k \in 1 .. n /\ k - 1 = m
    BY <1>1, <2>1
  <2> HIDE DEF k
  <2> DEFINE u == SubSeq(c, 1, k - 1)
  <2>4. u \in Seq(FragmentRecords) /\ c[k] \in FragmentRecords /\ SubSeq(c, 1, k) = Append(u, c[k])
    BY <2>3, PrefixAppend
  <2>5. f[k] = Add(f[k - 1], c[k])
    BY <1>2, <2>3, Zenon
  <2>6. f[k - 1] = Table(s \o u)
    BY <2>2, <2>3
  <2> HIDE DEF u
  <2>7. s \o u \in Seq(FragmentRecords) /\ s \o Append(u, c[k]) = Append(s \o u, c[k])
    BY <2>4, ConcatProperties, ConcatAppend
  <2>8. f[k] = Table(Append(s \o u, c[k]))
    BY <2>4, <2>5, <2>6, <2>7, TableAppend
  <2>9. f[k] = Table(s \o SubSeq(c, 1, k))
    BY <2>4, <2>7, <2>8
  <2>10. QED
    BY <2>9 DEF k
<1>5. Nat \subseteq P
  <2> HIDE DEF P
  <2> QED
    BY <1>3, <1>4, Induction
<1>6. f[n] = Table(s \o SubSeq(c, 1, n))
  BY <1>1, <1>5
<1>7. SubSeq(c, 1, n) = c
  BY SubSeqFull
<1>8. QED
  BY <1>2, <1>6, <1>7

CallsOf(frames) == [k \in 1 .. Len(frames) |-> frames[k].calls]

LEMMA CallsOfType ==
    ASSUME NEW frames \in Seq(Frames)
    PROVE  CallsOf(frames) \in Seq(Seq(FragmentRecords)) /\ Len(CallsOf(frames)) = Len(frames)
<1> DEFINE n == Len(frames)
           f == CallsOf(frames)
<1>1. n \in Nat /\ \A k \in 1 .. n : frames[k] \in Frames
  OBVIOUS
<1>2. \A k \in 1 .. n : frames[k].calls \in Seq(FragmentRecords)
  BY <1>1, FrameCalls
<1>3. f \in [1 .. n -> Seq(FragmentRecords)]
  BY <1>2 DEF CallsOf
<1> HIDE DEF f, n
<1>4. f \in Seq(Seq(FragmentRecords)) /\ Len(f) = n
  BY <1>1, <1>3
<1>5. QED
  BY <1>4 DEF f, n

LEMMA AccumulatedTable ==
    ASSUME NEW frames \in Seq(Frames)
    PROVE  Accumulated(frames) = Table(FlattenSeq(CallsOf(frames)))
<1> DEFINE n == Len(frames)
           calls == CallsOf(frames)
<1>1. n \in Nat /\ \A k \in 1 .. n : frames[k] \in Frames /\ calls[k] = frames[k].calls
  BY DEF CallsOf
<1>2. PICK f \in [0 .. n -> Tables] :
          /\ f[0] = NoCalls /\ \A k \in 1 .. n : f[k] = accumulate_tool_call_deltas(f[k - 1], frames[k])
          /\ Accumulated(frames) = f[n]
  BY AccumulateFold
<1>3. calls \in Seq(Seq(FragmentRecords)) /\ Len(calls) = n
  BY CallsOfType
<1> HIDE DEF calls
<1>4. PICK cat \in [0 .. n -> Seq(FragmentRecords)] :
          /\ cat[0] = <<>> /\ \A k \in 1 .. n : cat[k] = cat[k - 1] \o calls[k]
          /\ FlattenSeq(calls) = cat[n]
  <2>1. PICK cat \in [0 .. Len(calls) -> Seq(FragmentRecords)] :
          /\ cat[0] = <<>> /\ \A k \in 1 .. Len(calls) : cat[k] = cat[k - 1] \o calls[k]
          /\ FlattenSeq(calls) = cat[Len(calls)]
    BY <1>3, FlattenRecursion
  <2>2. QED
    BY <1>3, <2>1
<1> DEFINE P == {m \in Nat : m <= n => f[m] = Table(cat[m])}
<1>5. 0 \in P
  <2>1. IndicesOf(<<>>) = {}
    BY DEF IndicesOf, Range
  <2>2. Table(<<>>) = NoCalls
    BY <2>1 DEF Table, NoCalls
  <2>3. QED
    BY <1>2, <1>4, <2>2
<1>6. ASSUME NEW m \in Nat, m \in P
      PROVE  m + 1 \in P
  <2>1. SUFFICES ASSUME m + 1 <= n PROVE f[m + 1] = Table(cat[m + 1])
    OBVIOUS
  <2>2. f[m] = Table(cat[m])
    BY <1>1, <1>6, <2>1
  <2> HIDE DEF P
  <2> DEFINE k == m + 1
  <2>3. k \in 1 .. n /\ k - 1 = m /\ m \in 0 .. n
    BY <1>1, <2>1
  <2> HIDE DEF k
  <2>4. f[k] = accumulate_tool_call_deltas(f[k - 1], frames[k])
    BY <1>2, <2>3, Zenon
  <2>5. f[k] = FoldLeft(Add, Table(cat[m]), calls[k])
    BY <1>1, <2>2, <2>3, <2>4, Zenon DEF accumulate_tool_call_deltas
  <2>6. cat[m] \in Seq(FragmentRecords) /\ calls[k] \in Seq(FragmentRecords)
    <3>1. cat[m] \in Seq(FragmentRecords)
      BY <1>4, <2>3
    <3>2. calls[k] \in Seq(FragmentRecords)
      BY <1>3, <2>3
    <3>3. QED
      BY <3>1, <3>2
  <2>7. f[k] = Table(cat[m] \o calls[k])
    BY <2>5, <2>6, FoldTable
  <2>8. cat[k] = cat[m] \o calls[k]
    BY <1>4, <2>3
  <2>9. QED
    BY <2>7, <2>8 DEF k
<1>7. Nat \subseteq P
  <2> HIDE DEF P
  <2> QED
    BY <1>5, <1>6, Induction
<1>8. QED
  BY <1>1, <1>2, <1>4, <1>7 DEF calls

\* Whatever the fragments and their order, the tool calls the gateway has
\* accumulated from a stream are those a client puts together.
THEOREM AccumulatedIsAssembled ==
    ASSUME NEW frames \in Seq(Frames)
    PROVE  Accumulated(frames) = Assembled(frames).calls /\ Accumulated(frames) \in Tables
<1> DEFINE n == Len(frames)
           calls == CallsOf(frames)
           all == FlattenSeq(calls)
<1>1. n \in Nat /\ DOMAIN frames = 1 .. n /\ \A k \in 1 .. n : calls[k] = frames[k].calls
  BY DEF CallsOf
<1>2. calls \in Seq(Seq(FragmentRecords)) /\ Len(calls) = n
  BY CallsOfType
<1>3. Accumulated(frames) = Table(all)
  BY AccumulatedTable
<1>4. calls = [k \in 1 .. n |-> frames[k].calls]
  BY DEF CallsOf
<1> HIDE DEF calls, n
<1>5. IndicesOf(all) = CallIndices(frames) \ {NoIndex}
  <2>1. \A f : f \in Range(all) <=> \E k \in 1 .. n : f \in Range(frames[k].calls)
    BY <1>1, <1>2, FlattenRange
  <2> HIDE DEF all
  <2>2. QED
    BY <1>1, <2>1 DEF IndicesOf, CallIndices
<1>6. ASSUME NEW i
      PROVE  Kept(all, Those(i)) = Fragments(frames, i)
  <2>1. Kept(all, Those(i)) = FlattenSeq([k \in 1 .. n |-> Kept(calls[k], Those(i))])
    BY <1>2, KeptFlatten
  <2>2. ASSUME NEW k \in 1 .. n
        PROVE  Kept(calls[k], Those(i)) = Where(frames[k].calls, LAMBDA f : f.index = i)
    <3> DEFINE c == frames[k].calls
    <3>1. c \in Seq(FragmentRecords) /\ calls[k] = c
      BY <1>1, <1>2
    <3> HIDE DEF c
    <3>2. \A j \in DOMAIN c : c[j] \in Those(i) <=> c[j].index = i
      <4>1. \A j \in DOMAIN c : c[j] \in FragmentRecords
        BY <3>1
      <4>2. QED
        BY <4>1 DEF Those
    <3>3. [j \in DOMAIN c |-> IF c[j] \in Those(i) THEN <<c[j]>> ELSE <<>>]
              = [j \in DOMAIN c |-> IF c[j].index = i THEN <<c[j]>> ELSE <<>>]
      BY <3>2
    <3>4. QED
      BY <3>1, <3>3, Zenon DEF Kept, Where, c
  <2>3. [k \in 1 .. n |-> Kept(calls[k], Those(i))]
            = [k \in 1 .. n |-> Where(frames[k].calls, LAMBDA f : f.index = i)]
    BY <2>2, Zenon
  <2>4. QED
    BY <1>1, <2>1, <2>3, Zenon DEF Fragments
<1> HIDE DEF all
<1>7. Table(all) = [i \in CallIndices(frames) \ {NoIndex} |-> CallOf(Fragments(frames, i))]
  BY <1>5, <1>6, Zenon DEF Table
<1>8. all \in Seq(FragmentRecords)
  BY <1>2, FlattenType DEF all
<1>9. Table(all) \in Tables
  BY <1>8, TableType
<1>10. Assembled(frames).calls = [i \in CallIndices(frames) \ {NoIndex} |-> CallOf(Fragments(frames, i))]
  BY DEF Assembled
<1>11. QED
  BY <1>3, <1>7, <1>9, <1>10

-----------------------------------------------------------------------------
(* What the scans find, and where *)

\* The matches of a scan are M, each once.
Scans(ms, M) == ms \in Seq(MatchRecords) /\ Range(ms) = M /\ IsInjective(ms)

MatchAt(i, p, c, r, s, pol) ==
    [pattern |-> r, start |-> s, end |-> s + Len(Words[r]),
     action |-> IF c # 0 /\ pol.action[r] = "redact" THEN "block" ELSE pol.action[r],
     message |-> i, part |-> p, call |-> c]

\* In part p, or in call c, of message i.
Hits(i, p, c, text, pol) ==
    {m \in MatchRecords :
        \E r \in Patterns, s \in Nat : Found(text, pol, r, s) /\ m = MatchAt(i, p, c, r, s, pol)}

ContentHits(i, parts, pol) == UNION {Hits(i, p, 0, parts[p], pol) : p \in DOMAIN parts}
CallHits(i, calls, pol) == UNION {Hits(i, 1, c, calls[c].arguments, pol) : c \in DOMAIN calls}

LEMMA MatchAtType ==
    ASSUME NEW i \in Nat, NEW p \in Nat, NEW c \in Nat, NEW r \in Patterns, NEW s \in Nat,
           NEW pol \in Policies
    PROVE  MatchAt(i, p, c, r, s, pol) \in MatchRecords
<1>1. r \in Int /\ s + Len(Words[r]) \in Nat
  BY WordFacts
<1>2. pol.action \in [Patterns -> Actions]
  BY DEF Policies, Actions
<1>3. pol.action[r] \in Actions /\ "block" \in Actions
  BY <1>2 DEF Actions, _ACTION_SEVERITY
<1>4. QED
  BY <1>1, <1>3 DEF MatchAt, MatchRecords, Actions

LEMMA ScansNothing == Scans(<<>>, {})
  BY EmptySeq DEF Scans, Range, IsInjective

LEMMA ScansText ==
    ASSUME NEW text \in Text, NEW pol \in Policies
    PROVE  Scans(scan_text(text, pol), Hits(1, 1, 0, text, pol))
<1> DEFINE ms == scan_text(text, pol)
<1>1. /\ ms \in Seq(MatchRecords) /\ IsInjective(ms)
      /\ \A m : m \in Range(ms) <=>
             \E r \in Patterns, s \in Nat : Found(text, pol, r, s) /\ m = MatchOf(r, s, pol)
  BY ScanTextProperties
<1> HIDE DEF ms
<1>2. \A r, s : MatchOf(r, s, pol) = MatchAt(1, 1, 0, r, s, pol)
  BY DEF MatchOf, MatchAt
<1>3. \A m \in Range(ms) : m \in MatchRecords
  BY <1>1, RangeOfSeq
<1>4. Range(ms) = Hits(1, 1, 0, text, pol)
  BY <1>1, <1>2, <1>3 DEF Hits
<1>5. QED
  BY <1>1, <1>4 DEF Scans, ms

LEMMA ScansEach ==
    ASSUME NEW ms, NEW M, Scans(ms, M), NEW g \in [MatchRecords -> MatchRecords],
           \A m, n \in M : g[m] = g[n] => m = n
    PROVE  Scans([k \in DOMAIN ms |-> g[ms[k]]], {g[m] : m \in M})
<1> DEFINE n == Len(ms)
           t == [k \in DOMAIN ms |-> g[ms[k]]]
<1>1. ms \in Seq(MatchRecords) /\ Range(ms) = M /\ IsInjective(ms)
  BY DEF Scans
<1>2. n \in Nat /\ DOMAIN ms = 1 .. n /\ \A k \in 1 .. n : ms[k] \in MatchRecords
  BY <1>1
<1> HIDE DEF n
<1>3. t \in [1 .. n -> MatchRecords]
  BY <1>2
<1>4. \A k \in 1 .. n : t[k] = g[ms[k]] /\ ms[k] \in M
  BY <1>1, <1>2 DEF Range
<1>5. DOMAIN t = 1 .. n
  BY <1>2
<1> HIDE DEF t
<1>6. t \in Seq(MatchRecords)
  BY <1>2, <1>3
<1>7. Range(t) = {g[m] : m \in M}
  <2>1. \A m \in M : \E k \in 1 .. n : ms[k] = m
    BY <1>1, <1>2 DEF Range
  <2>2. QED
    BY <1>4, <1>5, <2>1 DEF Range
<1>8. IsInjective(t)
  BY <1>1, <1>2, <1>4, <1>5 DEF IsInjective
<1>9. QED
  BY <1>6, <1>7, <1>8 DEF Scans, t

LEMMA ScansFlatten ==
    ASSUME NEW n \in Nat, NEW seqs, DOMAIN seqs = 1 .. n, seqs = [k \in 1 .. n |-> seqs[k]],
           NEW M, \A k \in 1 .. n : Scans(seqs[k], M[k]),
           \A k, l \in 1 .. n : k # l => M[k] \cap M[l] = {}
    PROVE  Scans(FlattenSeq(seqs), UNION {M[k] : k \in 1 .. n})
<1>1. \A k \in 1 .. n :
          seqs[k] \in Seq(MatchRecords) /\ Range(seqs[k]) = M[k] /\ IsInjective(seqs[k])
  BY DEF Scans
<1>2. seqs \in [1 .. n -> Seq(MatchRecords)]
  BY <1>1
<1>3. seqs \in Seq(Seq(MatchRecords)) /\ Len(seqs) = n
  BY <1>2
<1>4. FlattenSeq(seqs) \in Seq(MatchRecords)
  BY <1>3, FlattenType
<1>5. \A m : m \in Range(FlattenSeq(seqs)) <=> \E k \in 1 .. n : m \in M[k]
  <2>1. \A m : m \in Range(FlattenSeq(seqs)) <=> \E k \in 1 .. n : m \in Range(seqs[k])
    BY <1>3, FlattenRange
  <2>2. QED
    BY <1>1, <2>1
<1>6. IsInjective(FlattenSeq(seqs))
  <2>1. \A k \in 1 .. n : IsInjective(seqs[k])
    BY <1>1
  <2>2. \A k, l \in 1 .. n : k # l => Range(seqs[k]) \cap Range(seqs[l]) = {}
    BY <1>1
  <2>3. QED
    BY <1>3, <2>1, <2>2, FlattenInjective
<1>7. Range(FlattenSeq(seqs)) = UNION {M[k] : k \in 1 .. n}
  BY <1>5
<1>8. QED
  BY <1>4, <1>6, <1>7 DEF Scans

LEMMA ScansConcat ==
    ASSUME NEW s, NEW M, Scans(s, M), NEW t, NEW N, Scans(t, N), M \cap N = {}
    PROVE  Scans(s \o t, M \cup N)
<1>1. s \in Seq(MatchRecords) /\ Range(s) = M /\ IsInjective(s)
  BY DEF Scans
<1>2. t \in Seq(MatchRecords) /\ Range(t) = N /\ IsInjective(t)
  BY DEF Scans
<1> DEFINE u == s \o t
<1>3. /\ u \in Seq(MatchRecords) /\ Len(u) = Len(s) + Len(t) /\ Len(s) \in Nat /\ Len(t) \in Nat
      /\ \A i \in 1 .. Len(s) + Len(t) : u[i] = IF i <= Len(s) THEN s[i] ELSE t[i - Len(s)]
  BY <1>1, <1>2, ConcatProperties
<1>4. Range(u) = M \cup N
  BY <1>1, <1>2, RangeConcatenation
<1> HIDE DEF u
<1>5. IsInjective(u)
  <2> SUFFICES ASSUME NEW i \in 1 .. Len(u), NEW j \in 1 .. Len(u), u[i] = u[j]
               PROVE  i = j
    BY <1>3 DEF IsInjective
  <2>1. \A k \in 1 .. Len(s) : k \in DOMAIN s /\ s[k] \in M
    BY <1>1, RangeEquality
  <2>2. \A k \in 1 .. Len(t) : k \in DOMAIN t /\ t[k] \in N
    BY <1>2, RangeEquality
  <2>3. ASSUME NEW k \in 1 .. Len(u)
        PROVE  \/ k <= Len(s) /\ k \in 1 .. Len(s) /\ u[k] = s[k]
               \/ k > Len(s) /\ k - Len(s) \in 1 .. Len(t) /\ u[k] = t[k - Len(s)]
    BY <1>3
  <2>4. CASE i <= Len(s) /\ j <= Len(s)
    <3>1. i \in 1 .. Len(s) /\ j \in 1 .. Len(s) /\ s[i] = s[j]
      BY <1>3, <2>3, <2>4
    <3>2. QED
      BY <1>1, <2>1, <3>1 DEF IsInjective
  <2>5. CASE i > Len(s) /\ j > Len(s)
    <3>1. i - Len(s) \in 1 .. Len(t) /\ j - Len(s) \in 1 .. Len(t) /\ t[i - Len(s)] = t[j - Len(s)]
      BY <1>3, <2>3, <2>5
    <3>2. i - Len(s) = j - Len(s)
      BY <1>2, <2>2, <3>1 DEF IsInjective
    <3>3. QED
      BY <1>3, <3>2
  <2>6. CASE i <= Len(s) /\ j > Len(s)
    <3>1. u[i] \in M /\ u[j] \in N
      BY <1>3, <2>1, <2>2, <2>3, <2>6
    <3>2. QED
      BY <3>1
  <2>7. CASE i > Len(s) /\ j <= Len(s)
    <3>1. u[i] \in N /\ u[j] \in M
      BY <1>3, <2>1, <2>2, <2>3, <2>7
    <3>2. QED
      BY <3>1
  <2>8. QED
    BY <1>3, <2>4, <2>5, <2>6, <2>7
<1>6. QED
  BY <1>3, <1>4, <1>5 DEF Scans, u

\* Two hits of one text are the same if they have the same pattern and start.
LEMMA HitsKey ==
    ASSUME NEW i, NEW p, NEW c, NEW text, NEW pol, NEW m \in Hits(i, p, c, text, pol),
           NEW n \in Hits(i, p, c, text, pol), m.pattern = n.pattern, m.start = n.start
    PROVE  m = n
<1>1. PICK r \in Patterns, s \in Nat : m = MatchAt(i, p, c, r, s, pol)
  BY DEF Hits
<1>2. PICK q \in Patterns, t \in Nat : n = MatchAt(i, p, c, q, t, pol)
  BY DEF Hits
<1>3. r = q /\ s = t
  BY <1>1, <1>2 DEF MatchAt
<1>4. QED
  BY <1>1, <1>2, <1>3

LEMMA ScansPart ==
    ASSUME NEW text \in Text, NEW pol \in Policies, NEW p \in Nat
    PROVE  Scans(Each(scan_text(text, pol), LAMBDA m : [m EXCEPT !.part = p]),
                 Hits(1, p, 0, text, pol))
<1> DEFINE ms == scan_text(text, pol)
           M == Hits(1, 1, 0, text, pol)
           g == [m \in MatchRecords |-> [m EXCEPT !.part = p]]
<1>1. Scans(ms, M)
  BY ScansText
<1>2. g \in [MatchRecords -> MatchRecords]
  BY DEF MatchRecords
<1>3. \A m \in M : m \in MatchRecords
  BY DEF Hits
<1>4. \A m, n \in M : g[m] = g[n] => m = n
  <2> SUFFICES ASSUME NEW m \in M, NEW n \in M, g[m] = g[n] PROVE m = n
    OBVIOUS
  <2>1. m.pattern = n.pattern /\ m.start = n.start
    BY <1>3 DEF MatchRecords
  <2>2. QED
    BY <2>1, HitsKey
<1>5. {g[m] : m \in M} = Hits(1, p, 0, text, pol)
  <2>1. ASSUME NEW r \in Patterns, NEW s \in Nat
        PROVE  /\ MatchAt(1, 1, 0, r, s, pol) \in MatchRecords
               /\ MatchAt(1, p, 0, r, s, pol) \in MatchRecords
               /\ g[MatchAt(1, 1, 0, r, s, pol)] = MatchAt(1, p, 0, r, s, pol)
    <3>1. MatchAt(1, 1, 0, r, s, pol) \in MatchRecords /\ MatchAt(1, p, 0, r, s, pol) \in MatchRecords
      BY MatchAtType
    <3>2. [MatchAt(1, 1, 0, r, s, pol) EXCEPT !.part = p] = MatchAt(1, p, 0, r, s, pol)
      BY DEF MatchAt
    <3>3. QED
      BY <3>1, <3>2
  <2> HIDE DEF g
  <2>2. QED
    BY <2>1 DEF Hits
<1>6. Each(ms, LAMBDA m : [m EXCEPT !.part = p]) = [k \in DOMAIN ms |-> g[ms[k]]]
  <2>1. \A k \in DOMAIN ms : ms[k] \in MatchRecords
    BY <1>1 DEF Scans
  <2> HIDE DEF ms
  <2>2. \A k \in DOMAIN ms : [ms[k] EXCEPT !.part = p] = g[ms[k]]
    BY <2>1
  <2> HIDE DEF g
  <2>3. QED
    BY <2>2, Zenon DEF Each
<1> HIDE DEF ms, M, g
<1>7. Scans([k \in DOMAIN ms |-> g[ms[k]]], {g[m] : m \in M})
  BY <1>1, <1>2, <1>4, ScansEach
<1>8. QED
  BY <1>5, <1>6, <1>7 DEF ms

LEMMA ScansArguments ==
    ASSUME NEW text \in Text, NEW pol \in Policies, NEW c \in Nat, c # 0
    PROVE  Scans(scan_tool_call_argument_text(c, text, pol), Hits(1, 1, c, text, pol))
<1> DEFINE ms == scan_text(text, pol)
           M == Hits(1, 1, 0, text, pol)
           g == [m \in MatchRecords |-> _clamp_redact_to_block([m EXCEPT !.call = c])]
<1>1. Scans(ms, M)
  BY ScansText
<1>2. g \in [MatchRecords -> MatchRecords]
  BY DEF MatchRecords, _clamp_redact_to_block, Actions, _ACTION_SEVERITY
<1>3. \A m \in M : m \in MatchRecords
  BY DEF Hits
<1>4. \A m, n \in M : g[m] = g[n] => m = n
  <2> SUFFICES ASSUME NEW m \in M, NEW n \in M, g[m] = g[n] PROVE m = n
    OBVIOUS
  <2>1. \A x \in MatchRecords : g[x].pattern = x.pattern /\ g[x].start = x.start
    BY DEF MatchRecords, _clamp_redact_to_block
  <2> HIDE DEF g
  <2>2. m.pattern = n.pattern /\ m.start = n.start
    BY <1>3, <2>1
  <2>3. QED
    BY <2>2, HitsKey
<1>5. {g[m] : m \in M} = Hits(1, 1, c, text, pol)
  <2>1. ASSUME NEW r \in Patterns, NEW s \in Nat
        PROVE  /\ MatchAt(1, 1, 0, r, s, pol) \in MatchRecords
               /\ MatchAt(1, 1, c, r, s, pol) \in MatchRecords
               /\ g[MatchAt(1, 1, 0, r, s, pol)] = MatchAt(1, 1, c, r, s, pol)
    <3>1. MatchAt(1, 1, 0, r, s, pol) \in MatchRecords /\ MatchAt(1, 1, c, r, s, pol) \in MatchRecords
      BY MatchAtType
    <3>2. _clamp_redact_to_block([MatchAt(1, 1, 0, r, s, pol) EXCEPT !.call = c])
              = MatchAt(1, 1, c, r, s, pol)
      BY DEF MatchAt, _clamp_redact_to_block
    <3>3. QED
      BY <3>1, <3>2
  <2> HIDE DEF g
  <2>2. QED
    BY <2>1 DEF Hits
<1>6. scan_tool_call_argument_text(c, text, pol) = [k \in DOMAIN ms |-> g[ms[k]]]
  <2>1. \A k \in DOMAIN ms : ms[k] \in MatchRecords
    BY <1>1 DEF Scans
  <2> HIDE DEF ms
  <2>2. \A k \in DOMAIN ms : _clamp_redact_to_block([ms[k] EXCEPT !.call = c]) = g[ms[k]]
    BY <2>1
  <2> HIDE DEF g
  <2>3. QED
    BY <2>2, Zenon DEF Each, scan_tool_call_argument_text, ms
<1> HIDE DEF ms, M, g
<1>7. Scans([k \in DOMAIN ms |-> g[ms[k]]], {g[m] : m \in M})
  BY <1>1, <1>2, <1>4, ScansEach
<1>8. QED
  BY <1>5, <1>6, <1>7

LEMMA ScansContent ==
    ASSUME NEW parts \in Seq(Text), NEW pol \in Policies
    PROVE  Scans(scan_message_content(parts, pol), ContentHits(1, parts, pol))
<1> DEFINE n == Len(parts)
           scan(p) == Each(scan_text(parts[p], pol), LAMBDA m : [m EXCEPT !.part = p])
           seqs == [p \in 1 .. n |-> scan(p)]
           M == [p \in 1 .. n |-> Hits(1, p, 0, parts[p], pol)]
<1>1. n \in Nat /\ DOMAIN parts = 1 .. n /\ \A p \in 1 .. n : parts[p] \in Text /\ p \in Nat
  OBVIOUS
<1> HIDE DEF n
<1>2. \A p \in 1 .. n : Scans(scan(p), Hits(1, p, 0, parts[p], pol))
  <2> HIDE DEF scan
  <2> SUFFICES ASSUME NEW p \in 1 .. n PROVE Scans(scan(p), Hits(1, p, 0, parts[p], pol))
    OBVIOUS
  <2>1. QED
    BY <1>1, ScansPart DEF scan
<1> HIDE DEF scan
<1>3. \A p \in 1 .. n : Scans(seqs[p], M[p])
  BY <1>2
<1>4. \A k, l \in 1 .. n : k # l => M[k] \cap M[l] = {}
  <2>1. \A k \in 1 .. n : \A m \in M[k] : m.part = k
    BY DEF Hits, MatchAt
  <2>2. QED
    BY <2>1
<1>5. scan_message_content(parts, pol) = FlattenSeq(seqs)
  BY <1>1, Zenon DEF scan_message_content, scan
<1>6. ContentHits(1, parts, pol) = UNION {M[p] : p \in 1 .. n}
  BY <1>1 DEF ContentHits
<1>7. DOMAIN seqs = 1 .. n /\ seqs = [k \in 1 .. n |-> seqs[k]]
  OBVIOUS
<1> HIDE DEF seqs, M
<1>8. QED
  BY <1>1, <1>3, <1>4, <1>5, <1>6, <1>7, ScansFlatten

\* The calls of a message, or those that were put together from a stream.
IsCallTable(calls) ==
    /\ DOMAIN calls \in SUBSET (Nat \ {0}) /\ IsFiniteSet(DOMAIN calls)
    /\ \A c \in DOMAIN calls : calls[c].arguments \in Text

LEMMA IndicesProperties ==
    ASSUME NEW calls, IsCallTable(calls)
    PROVE  /\ Indices(calls) \in Seq(DOMAIN calls)
           /\ Range(Indices(calls)) = DOMAIN calls
           /\ IsInjective(Indices(calls))
<1> DEFINE S == DOMAIN calls
           R == {xy \in Nat \X Nat : xy[1] < xy[2]}
           n == Cardinality(S)
<1>1. S \in SUBSET (Nat \ {0}) /\ IsFiniteSet(S)
  BY DEF IsCallTable
<1>2. IsStrictOrder(R, S)
  BY <1>1 DEF IsStrictOrder
<1>3. \A x, y \in S : <<x, y>> \in R <=> x < y
  BY <1>1
<1>4. Indices(calls) = Ordered(S, R)
  <2>1. \A x \in S : {y \in S : y < x} = {y \in S : <<y, x>> \in R}
    BY <1>3
  <2> HIDE DEF R, S
  <2>2. \A k : (CHOOSE x \in S : Cardinality({y \in S : y < x}) = k - 1)
              = CHOOSE x \in S : Cardinality({y \in S : <<y, x>> \in R}) = k - 1
    <3> TAKE k
    <3>1. \A x : (x \in S /\ Cardinality({y \in S : y < x}) = k - 1)
              <=> (x \in S /\ Cardinality({y \in S : <<y, x>> \in R}) = k - 1)
      BY <2>1
    <3>2. QED
      BY <3>1, Zenon
  <2>3. Indices(calls)
            = [k \in 1 .. Cardinality(S) |-> CHOOSE x \in S : Cardinality({y \in S : y < x}) = k - 1]
    BY DEF Indices, InOrder, S
  <2>4. Ordered(S, R)
            = [k \in 1 .. Cardinality(S) |-> CHOOSE x \in S : Cardinality({y \in S : <<y, x>> \in R}) = k - 1]
    BY DEF Ordered
  <2>5. QED
    BY <2>2, <2>3, <2>4, Zenon
<1> HIDE DEF R, S, n
<1> DEFINE order == Indices(calls)
<1>5. /\ order \in [1 .. n -> S] /\ n \in Nat
      /\ \A x \in S : \E k \in 1 .. n : order[k] = x
      /\ \A k, l \in 1 .. n : k < l => <<order[k], order[l]>> \in R
  <2>1. /\ Ordered(S, R) \in [1 .. n -> S] /\ n \in Nat
        /\ \A x \in S : \E k \in 1 .. n : Ordered(S, R)[k] = x
        /\ \A k, l \in 1 .. n : k < l => <<Ordered(S, R)[k], Ordered(S, R)[l]>> \in R
    BY <1>1, <1>2, OrderedProperties DEF n
  <2>2. QED
    BY <1>4, <2>1
<1> HIDE DEF order
<1>6. order \in Seq(S) /\ DOMAIN order = 1 .. n
  BY <1>5
<1>7. Range(order) = S
  BY <1>5, <1>6 DEF Range
<1>8. IsInjective(order)
  <2> SUFFICES ASSUME NEW k \in 1 .. n, NEW l \in 1 .. n, order[k] = order[l], k # l PROVE FALSE
    BY <1>6 DEF IsInjective
  <2>1. k < l \/ l < k
    BY <1>5
  <2>2. order[k] \in S /\ order[l] \in S
    BY <1>5
  <2>3. <<order[k], order[l]>> \in R \/ <<order[l], order[k]>> \in R
    BY <1>5, <2>1
  <2>4. QED
    BY <1>2, <2>2, <2>3 DEF IsStrictOrder
<1>9. QED
  BY <1>6, <1>7, <1>8 DEF order, S

LEMMA ScansCalls ==
    ASSUME NEW calls, IsCallTable(calls), NEW pol \in Policies
    PROVE  Scans(scan_tool_calls(calls, pol), CallHits(1, calls, pol))
<1> DEFINE order == Indices(calls)
           n == Len(order)
           scan(c) == scan_tool_call_argument_text(c, calls[c].arguments, pol)
           seqs == [k \in 1 .. n |-> scan(order[k])]
           M == [k \in 1 .. n |-> Hits(1, 1, order[k], calls[order[k]].arguments, pol)]
<1>1. order \in Seq(DOMAIN calls) /\ Range(order) = DOMAIN calls /\ IsInjective(order)
  BY IndicesProperties
<1> HIDE DEF order
<1>2. n \in Nat /\ DOMAIN order = 1 .. n /\ \A k \in 1 .. n : order[k] \in DOMAIN calls
  BY <1>1
<1>3. \A c \in DOMAIN calls : c \in Nat /\ c # 0 /\ calls[c].arguments \in Text
  BY DEF IsCallTable
<1> HIDE DEF n
<1>4. \A c \in DOMAIN calls : Scans(scan(c), Hits(1, 1, c, calls[c].arguments, pol))
  BY <1>3, ScansArguments
<1> HIDE DEF scan
<1>5. \A k \in 1 .. n : Scans(seqs[k], M[k])
  BY <1>2, <1>4
<1>6. \A k, l \in 1 .. n : k # l => M[k] \cap M[l] = {}
  <2>1. \A k \in 1 .. n : \A m \in M[k] : m.call = order[k]
    BY DEF Hits, MatchAt
  <2>2. \A k, l \in 1 .. n : k # l => order[k] # order[l]
    BY <1>1, <1>2 DEF IsInjective
  <2>3. QED
    BY <2>1, <2>2
<1>7. scan_tool_calls(calls, pol) = FlattenSeq(seqs)
  BY <1>2, Zenon DEF scan_tool_calls, scan, order
<1>8. CallHits(1, calls, pol) = UNION {M[k] : k \in 1 .. n}
  <2>1. \A c : c \in DOMAIN calls <=> \E k \in 1 .. n : order[k] = c
    BY <1>1, <1>2 DEF Range
  <2>2. \A m : (\E k \in 1 .. n : m \in M[k]) <=>
               (\E c \in DOMAIN calls : m \in Hits(1, 1, c, calls[c].arguments, pol))
    <3>1. \A k \in 1 .. n : M[k] = Hits(1, 1, order[k], calls[order[k]].arguments, pol)
      OBVIOUS
    <3> HIDE DEF M
    <3>2. ASSUME NEW m, NEW k \in 1 .. n, m \in M[k]
          PROVE  \E c \in DOMAIN calls : m \in Hits(1, 1, c, calls[c].arguments, pol)
      BY <1>2, <3>1, <3>2
    <3>3. ASSUME NEW m, NEW c \in DOMAIN calls, m \in Hits(1, 1, c, calls[c].arguments, pol)
          PROVE  \E k \in 1 .. n : m \in M[k]
      <4>1. PICK k \in 1 .. n : order[k] = c
        BY <2>1
      <4>2. QED
        BY <3>1, <3>3, <4>1
    <3>4. QED
      BY <3>2, <3>3
  <2> HIDE DEF M
  <2>3. QED
    BY <2>2 DEF CallHits
<1>9. DOMAIN seqs = 1 .. n /\ seqs = [k \in 1 .. n |-> seqs[k]]
  OBVIOUS
<1> HIDE DEF seqs, M
<1>10. QED
  BY <1>2, <1>5, <1>6, <1>7, <1>8, <1>9, ScansFlatten

-----------------------------------------------------------------------------
(* The matches of a guardrail *)

\* What guardrail g finds in message i.
MessageHits(g, i, message, pol) ==
    IF g = "prompt_injection"
    THEN IF pol.scope = "user_messages_only" /\ message.role # "user" THEN {}
         ELSE ContentHits(i, message.parts, pol)
    ELSE ContentHits(i, message.parts, pol) \cup CallHits(i, message.calls, pol)

AllHits(g, ms, pol) == UNION {MessageHits(g, i, ms[i], pol) : i \in DOMAIN ms}

\* A message, or what a stream tells.
IsMessage(message) == message.parts \in Seq(Text) /\ IsCallTable(message.calls)

LEMMA MessageFacts ==
    ASSUME NEW message \in Messages
    PROVE  IsMessage(message)
<1> DEFINE calls == message.calls
<1>1. message.parts \in Seq(Text) /\ calls \in Seq(Calls)
  BY DEF Messages
<1> HIDE DEF calls
<1>2. Len(calls) \in Nat /\ DOMAIN calls = 1 .. Len(calls) /\ \A c \in DOMAIN calls : calls[c] \in Calls
  BY <1>1
<1>3. DOMAIN calls \in SUBSET (Nat \ {0}) /\ IsFiniteSet(DOMAIN calls)
  <2> DEFINE n == Len(calls)
  <2>1. n \in Nat /\ DOMAIN calls = 1 .. n
    BY <1>2
  <2> HIDE DEF n
  <2>2. IsFiniteSet(1 .. n)
    BY <2>1, FS_Interval
  <2>3. QED
    BY <2>1, <2>2
<1>4. \A c \in DOMAIN calls : calls[c].arguments \in Text
  BY <1>2 DEF Calls
<1>5. QED
  BY <1>1, <1>3, <1>4 DEF IsMessage, IsCallTable, calls

LEMMA TableFacts ==
    ASSUME NEW calls \in Tables
    PROVE  IsCallTable(calls)
<1>1. PICK D \in SUBSET (Nat \ {NoIndex}) : IsFiniteSet(D) /\ calls \in [D -> CallRecords]
  BY DEF Tables
<1>2. \A c \in D : calls[c] \in CallRecords
  BY <1>1
<1>3. QED
  BY <1>1, <1>2 DEF IsCallTable, CallRecords, NoIndex

LEMMA ScansMessage ==
    ASSUME NEW ms, NEW M, Scans(ms, M), NEW i \in Nat, \A m \in M : m.message = 1
    PROVE  Scans(Each(ms, LAMBDA m : [m EXCEPT !.message = i]), {[m EXCEPT !.message = i] : m \in M})
<1> DEFINE g == [m \in MatchRecords |-> [m EXCEPT !.message = i]]
<1>1. \A m \in M : m \in MatchRecords
  BY RangeOfSeq DEF Scans
<1>2. g \in [MatchRecords -> MatchRecords]
  BY DEF MatchRecords
<1>3. \A m, n \in M : g[m] = g[n] => m = n
  <2> SUFFICES ASSUME NEW m \in M, NEW n \in M, g[m] = g[n] PROVE m = n
    OBVIOUS
  <2>1. m \in MatchRecords /\ n \in MatchRecords /\ m.message = n.message
    BY <1>1
  <2>2. [m EXCEPT !.message = i] = [n EXCEPT !.message = i]
    BY <2>1
  <2>3. QED
    BY <2>1, <2>2 DEF MatchRecords
<1>4. {g[m] : m \in M} = {[m EXCEPT !.message = i] : m \in M}
  BY <1>1
<1>5. Each(ms, LAMBDA m : [m EXCEPT !.message = i]) = [k \in DOMAIN ms |-> g[ms[k]]]
  <2>1. \A k \in DOMAIN ms : ms[k] \in MatchRecords
    BY DEF Scans
  <2>2. \A k \in DOMAIN ms : [ms[k] EXCEPT !.message = i] = g[ms[k]]
    BY <2>1
  <2> HIDE DEF g
  <2>3. QED
    BY <2>2, Zenon DEF Each
<1> HIDE DEF g
<1>6. Scans([k \in DOMAIN ms |-> g[ms[k]]], {g[m] : m \in M})
  BY <1>2, <1>3, ScansEach
<1>7. QED
  BY <1>4, <1>5, <1>6

LEMMA HitsMoved ==
    ASSUME NEW i \in Nat, NEW p \in Nat, NEW c \in Nat, NEW text, NEW pol \in Policies
    PROVE  {[m EXCEPT !.message = i] : m \in Hits(1, p, c, text, pol)} = Hits(i, p, c, text, pol)
<1>1. ASSUME NEW r \in Patterns, NEW s \in Nat
      PROVE  /\ MatchAt(1, p, c, r, s, pol) \in MatchRecords
             /\ MatchAt(i, p, c, r, s, pol) \in MatchRecords
             /\ [MatchAt(1, p, c, r, s, pol) EXCEPT !.message = i] = MatchAt(i, p, c, r, s, pol)
  <2>1. MatchAt(1, p, c, r, s, pol) \in MatchRecords /\ MatchAt(i, p, c, r, s, pol) \in MatchRecords
    BY MatchAtType
  <2>2. [MatchAt(1, p, c, r, s, pol) EXCEPT !.message = i] = MatchAt(i, p, c, r, s, pol)
    BY DEF MatchAt
  <2>3. QED
    BY <2>1, <2>2
<1>2. QED
  BY <1>1 DEF Hits

LEMMA MessageHitsMoved ==
    ASSUME NEW i \in Nat, NEW message, IsMessage(message), NEW pol \in Policies
    PROVE  /\ {[m EXCEPT !.message = i] : m \in ContentHits(1, message.parts, pol)}
                  = ContentHits(i, message.parts, pol)
           /\ {[m EXCEPT !.message = i] : m \in CallHits(1, message.calls, pol)}
                  = CallHits(i, message.calls, pol)
<1> DEFINE parts == message.parts
           calls == message.calls
<1>1. \A p \in DOMAIN parts : p \in Nat
  <2>1. parts \in Seq(Text)
    BY DEF IsMessage
  <2>2. QED
    BY <2>1
<1>2. \A c \in DOMAIN calls : c \in Nat
  BY DEF IsMessage, IsCallTable
<1> HIDE DEF parts, calls
<1>3. \A p \in DOMAIN parts : {[m EXCEPT !.message = i] : m \in Hits(1, p, 0, parts[p], pol)}
                                  = Hits(i, p, 0, parts[p], pol)
  BY <1>1, HitsMoved
<1>4. \A c \in DOMAIN calls : {[m EXCEPT !.message = i] : m \in Hits(1, 1, c, calls[c].arguments, pol)}
                                  = Hits(i, 1, c, calls[c].arguments, pol)
  BY <1>2, HitsMoved
<1>5. {[m EXCEPT !.message = i] : m \in ContentHits(1, parts, pol)} = ContentHits(i, parts, pol)
  BY <1>3 DEF ContentHits
<1>6. {[m EXCEPT !.message = i] : m \in CallHits(1, calls, pol)} = CallHits(i, calls, pol)
  BY <1>4 DEF CallHits
<1>7. QED
  BY <1>5, <1>6 DEF parts, calls

LEMMA ContentMessage ==
    ASSUME NEW i, NEW parts, NEW pol, NEW m \in ContentHits(i, parts, pol)
    PROVE  m.message = i /\ m.call = 0
  BY DEF ContentHits, Hits, MatchAt

LEMMA CallMessage ==
    ASSUME NEW i, NEW calls, NEW pol, NEW m \in CallHits(i, calls, pol)
    PROVE  m.message = i /\ m.part = 1
  BY DEF CallHits, Hits, MatchAt

LEMMA HitsMessage ==
    ASSUME NEW g, NEW i, NEW message, NEW pol, NEW m \in MessageHits(g, i, message, pol)
    PROVE  m.message = i
<1>1. \/ m \in ContentHits(i, message.parts, pol)
      \/ m \in CallHits(i, message.calls, pol)
  BY DEF MessageHits
<1>2. QED
  BY <1>1, ContentMessage, CallMessage

\* Content and calls are told apart.
LEMMA HitsApart ==
    ASSUME NEW i, NEW parts, NEW calls, IsCallTable(calls), NEW pol
    PROVE  /\ \A m \in CallHits(i, calls, pol) : m.call # 0
           /\ ContentHits(i, parts, pol) \cap CallHits(i, calls, pol) = {}
<1>1. \A m \in CallHits(i, calls, pol) : m.call # 0
  <2>1. \A c \in DOMAIN calls : c # 0
    BY DEF IsCallTable
  <2>2. QED
    BY <2>1 DEF CallHits, Hits, MatchAt
<1>2. \A m \in ContentHits(i, parts, pol) : m.call = 0
  BY ContentMessage
<1>3. QED
  BY <1>1, <1>2

LEMMA ScansRequest ==
    ASSUME NEW ms \in Seq(Messages), NEW pol \in Policies
    PROVE  /\ \A i \in DOMAIN ms :
                 Scans(scan_request(ms, pol)[i], MessageHits("prompt_injection", i, ms[i], pol))
           /\ Scans(FlattenSeq(scan_request(ms, pol)), AllHits("prompt_injection", ms, pol))
<1> DEFINE n == Len(ms)
           found(i) == scan_message_content(ms[i].parts, pol)
           M == [i \in 1 .. n |-> MessageHits("prompt_injection", i, ms[i], pol)]
           seqs == scan_request(ms, pol)
<1>1. n \in Nat /\ DOMAIN ms = 1 .. n /\ \A i \in 1 .. n : ms[i] \in Messages /\ i \in Nat
  OBVIOUS
<1>2. \A i \in 1 .. n : IsMessage(ms[i])
  BY <1>1, MessageFacts
<1> HIDE DEF n
<1>3. \A i \in 1 .. n : seqs[i] = IF pol.scope = "user_messages_only" /\ ms[i].role # "user" THEN <<>>
                                  ELSE Each(found(i), LAMBDA m : [m EXCEPT !.message = i])
  BY <1>1 DEF scan_request
<1>4. DOMAIN seqs = 1 .. n /\ seqs = [k \in 1 .. n |-> seqs[k]]
  BY <1>1 DEF scan_request
<1> HIDE DEF seqs
<1>5. ASSUME NEW i \in 1 .. n
      PROVE  Scans(seqs[i], M[i])
  <2>1. CASE pol.scope = "user_messages_only" /\ ms[i].role # "user"
    BY <1>3, <2>1, ScansNothing DEF MessageHits
  <2>2. CASE ~(pol.scope = "user_messages_only" /\ ms[i].role # "user")
    <3> DEFINE N == ContentHits(1, ms[i].parts, pol)
    <3>1. Scans(found(i), N)
      BY <1>2, ScansContent DEF IsMessage
    <3>2. \A m \in N : m.message = 1
      BY ContentMessage
    <3>3. {[m EXCEPT !.message = i] : m \in N} = ContentHits(i, ms[i].parts, pol)
      BY <1>1, <1>2, MessageHitsMoved
    <3>4. M[i] = ContentHits(i, ms[i].parts, pol)
      BY <2>2 DEF MessageHits
    <3> HIDE DEF N, M, found
    <3>5. Scans(Each(found(i), LAMBDA m : [m EXCEPT !.message = i]), {[m EXCEPT !.message = i] : m \in N})
      <4> DEFINE u == found(i)
      <4>1. Scans(u, N) /\ i \in Nat
        BY <1>1, <3>1
      <4> HIDE DEF u
      <4>2. Scans(Each(u, LAMBDA m : [m EXCEPT !.message = i]), {[m EXCEPT !.message = i] : m \in N})
        BY <3>2, <4>1, ScansMessage
      <4>3. QED
        BY <4>2 DEF u
    <3>6. seqs[i] = Each(found(i), LAMBDA m : [m EXCEPT !.message = i])
      BY <1>3, <2>2
    <3>7. QED
      BY <3>3, <3>4, <3>5, <3>6
  <2>3. QED
    BY <2>1, <2>2
<1>6. \A k, l \in 1 .. n : k # l => M[k] \cap M[l] = {}
  <2>1. \A k \in 1 .. n : \A m \in M[k] : m.message = k
    BY HitsMessage
  <2> HIDE DEF M
  <2>2. QED
    BY <2>1
<1>7. AllHits("prompt_injection", ms, pol) = UNION {M[i] : i \in 1 .. n}
  BY <1>1 DEF AllHits
<1>8. \A i \in 1 .. n : M[i] = MessageHits("prompt_injection", i, ms[i], pol)
  OBVIOUS
<1> HIDE DEF M
<1>9. Scans(FlattenSeq(seqs), UNION {M[i] : i \in 1 .. n})
  BY <1>1, <1>4, <1>5, <1>6, ScansFlatten
<1>10. QED
  BY <1>1, <1>5, <1>7, <1>8, <1>9 DEF seqs

LEMMA ScansResponse ==
    ASSUME NEW ms, NEW n \in Nat, DOMAIN ms = 1 .. n, \A i \in 1 .. n : IsMessage(ms[i]),
           NEW pol \in Policies
    PROVE  /\ \A i \in DOMAIN ms :
                 Scans(scan_response(ms, pol)[i], MessageHits("output_leak", i, ms[i], pol))
           /\ Scans(FlattenSeq(scan_response(ms, pol)), AllHits("output_leak", ms, pol))
<1> DEFINE found(i) == scan_message_content(ms[i].parts, pol) \o scan_tool_calls(ms[i].calls, pol)
           M == [i \in 1 .. n |-> MessageHits("output_leak", i, ms[i], pol)]
           seqs == scan_response(ms, pol)
<1>1. \A i \in 1 .. n : seqs[i] = Each(found(i), LAMBDA m : [m EXCEPT !.message = i]) /\ i \in Nat
  BY DEF scan_response
<1>2. DOMAIN seqs = 1 .. n /\ seqs = [k \in 1 .. n |-> seqs[k]]
  BY DEF scan_response
<1> HIDE DEF seqs
<1>3. ASSUME NEW i \in 1 .. n
      PROVE  Scans(seqs[i], M[i])
  <2> DEFINE C == ContentHits(1, ms[i].parts, pol)
             D == CallHits(1, ms[i].calls, pol)
  <2>1. Scans(scan_message_content(ms[i].parts, pol), C)
    BY ScansContent DEF IsMessage
  <2>2. Scans(scan_tool_calls(ms[i].calls, pol), D)
    BY ScansCalls DEF IsMessage
  <2>3. C \cap D = {} /\ (\A m \in C : m.message = 1) /\ (\A m \in D : m.message = 1)
    <3>1. C \cap D = {}
      BY HitsApart DEF IsMessage
    <3>2. \A m \in C : m.message = 1
      BY ContentMessage
    <3>3. \A m \in D : m.message = 1
      BY CallMessage
    <3>4. QED
      BY <3>1, <3>2, <3>3
  <2>4. /\ {[m EXCEPT !.message = i] : m \in C} = ContentHits(i, ms[i].parts, pol)
        /\ {[m EXCEPT !.message = i] : m \in D} = CallHits(i, ms[i].calls, pol)
    BY MessageHitsMoved
  <2>5. M[i] = ContentHits(i, ms[i].parts, pol) \cup CallHits(i, ms[i].calls, pol)
    BY DEF MessageHits
  <2> HIDE DEF C, D, M
  <2>6. Scans(found(i), C \cup D)
    BY <2>1, <2>2, <2>3, ScansConcat
  <2>7. \A m \in C \cup D : m.message = 1
    BY <2>3
  <2>8. {[m EXCEPT !.message = i] : m \in C \cup D} = M[i]
    BY <2>4, <2>5
  <2> HIDE DEF found
  <2>9. Scans(Each(found(i), LAMBDA m : [m EXCEPT !.message = i]),
              {[m EXCEPT !.message = i] : m \in C \cup D})
    <3> DEFINE E == C \cup D
               u == found(i)
    <3>1. Scans(u, E) /\ i \in Nat /\ \A m \in E : m.message = 1
      BY <1>1, <2>6, <2>7
    <3> HIDE DEF E, u
    <3>2. Scans(Each(u, LAMBDA m : [m EXCEPT !.message = i]), {[m EXCEPT !.message = i] : m \in E})
      BY <3>1, ScansMessage
    <3>3. QED
      BY <3>2 DEF E, u
  <2>10. QED
    BY <1>1, <2>8, <2>9
<1>4. \A k, l \in 1 .. n : k # l => M[k] \cap M[l] = {}
  <2>1. \A k \in 1 .. n : \A m \in M[k] : m.message = k
    BY HitsMessage
  <2> HIDE DEF M
  <2>2. QED
    BY <2>1
<1>5. AllHits("output_leak", ms, pol) = UNION {M[i] : i \in 1 .. n}
  BY DEF AllHits
<1>6. \A i \in 1 .. n : M[i] = MessageHits("output_leak", i, ms[i], pol)
  OBVIOUS
<1> HIDE DEF M
<1>7. Scans(FlattenSeq(seqs), UNION {M[i] : i \in 1 .. n})
  BY <1>2, <1>3, <1>4, ScansFlatten
<1>8. QED
  BY <1>3, <1>5, <1>6, <1>7 DEF seqs

\* The end of a stream is scanned as the answer that it has told.
LEMMA StreamText ==
    ASSUME NEW chunks \in Seq(Frames)
    PROVE  /\ extract_stream_delta_text(chunks) \in Text
           /\ Assembled(chunks).parts = <<extract_stream_delta_text(chunks)>>
           /\ IsMessage(Assembled(chunks))
<1> DEFINE n == Len(chunks)
           f == [k \in DOMAIN chunks |-> chunks[k].text]
<1>1. n \in Nat /\ DOMAIN chunks = 1 .. n /\ \A k \in 1 .. n : chunks[k] \in Frames
  OBVIOUS
<1>2. \A k \in 1 .. n : chunks[k].text \in Seq(Letters)
  BY <1>1, FrameCalls DEF Text
<1>3. f \in [1 .. n -> Seq(Letters)]
  BY <1>1, <1>2
<1>4. extract_stream_delta_text(chunks) = FlattenSeq(f)
  BY Zenon DEF extract_stream_delta_text
<1> HIDE DEF f, n
<1>5. f \in Seq(Seq(Letters))
  BY <1>1, <1>3
<1>6. extract_stream_delta_text(chunks) \in Text
  BY <1>4, <1>5, FlattenType DEF Text
<1>7. Assembled(chunks).parts = <<extract_stream_delta_text(chunks)>>
  BY Zenon DEF Assembled, extract_stream_delta_text
<1>8. Assembled(chunks).parts \in Seq(Text)
  BY <1>6, <1>7
<1>9. IsCallTable(Assembled(chunks).calls)
  BY AccumulatedIsAssembled, TableFacts
<1>10. QED
  BY <1>6, <1>7, <1>8, <1>9 DEF IsMessage

\* In one message, every match is already of that message.
LEMMA EachIsSame ==
    ASSUME NEW ms, NEW M, Scans(ms, M), \A m \in M : m.message = 1
    PROVE  Each(ms, LAMBDA m : [m EXCEPT !.message = 1]) = ms
<1>1. ms \in Seq(MatchRecords) /\ Range(ms) = M
  BY DEF Scans
<1>2. \A k \in DOMAIN ms : ms[k] \in MatchRecords /\ ms[k].message = 1
  BY <1>1 DEF Range
<1>3. \A k \in DOMAIN ms : [ms[k] EXCEPT !.message = 1] = ms[k]
  BY <1>2 DEF MatchRecords
<1>4. ms = [k \in DOMAIN ms |-> ms[k]]
  BY <1>1
<1>5. QED
  BY <1>3, <1>4, Zenon DEF Each

\* A stream scanned as a whole matches as the answer put together would.
LEMMA StreamIsResponse ==
    ASSUME NEW chunks \in Seq(Frames), NEW pol \in Policies
    PROVE  scan_response(<<Assembled(chunks)>>, pol)
               = <<scan_text(extract_stream_delta_text(chunks), pol)
                       \o scan_tool_calls(Accumulated(chunks), pol)>>
<1> DEFINE text == extract_stream_delta_text(chunks)
           calls == Accumulated(chunks)
           given == Assembled(chunks)
           ms == scan_text(text, pol) \o scan_tool_calls(calls, pol)
<1>1. text \in Text /\ given.parts = <<text>> /\ given.calls = calls /\ IsMessage(given)
  BY StreamText, AccumulatedIsAssembled
<1> HIDE DEF text, calls, given
<1>2. scan_message_content(<<text>>, pol) = scan_text(text, pol)
  <2> DEFINE u == scan_text(text, pol)
             v == Each(u, LAMBDA m : [m EXCEPT !.part = 1])
  <2>1. Scans(u, Hits(1, 1, 0, text, pol))
    BY <1>1, ScansText
  <2>2. u \in Seq(MatchRecords) /\ \A k \in DOMAIN u : u[k] \in MatchRecords /\ u[k].part = 1
    BY <2>1 DEF Scans, Hits, MatchAt, Range
  <2>3. scan_message_content(<<text>>, pol) = FlattenSeq([p \in {1} |-> v])
    <3>1. DOMAIN <<text>> = {1} /\ <<text>>[1] = text
      OBVIOUS
    <3>2. [p \in DOMAIN <<text>> |-> Each(scan_text(<<text>>[p], pol), LAMBDA m : [m EXCEPT !.part = p])]
              = [p \in {1} |-> v]
      BY <3>1
    <3>3. QED
      BY <3>2, Zenon DEF scan_message_content
  <2> HIDE DEF u
  <2>4. v = u
    <3>1. \A k \in DOMAIN u : [u[k] EXCEPT !.part = 1] = u[k]
      BY <2>2 DEF MatchRecords
    <3>2. u = [k \in DOMAIN u |-> u[k]]
      BY <2>2
    <3>3. QED
      BY <3>1, <3>2, Zenon DEF Each
  <2>5. [p \in {1} |-> v] = <<u>>
    BY <2>4
  <2>6. QED
    BY <2>2, <2>3, <2>5, FlattenOne DEF u
<1>3. Scans(ms, ContentHits(1, given.parts, pol) \cup CallHits(1, given.calls, pol))
  <2>1. Scans(scan_message_content(given.parts, pol), ContentHits(1, given.parts, pol))
    BY <1>1, ScansContent DEF IsMessage
  <2>2. Scans(scan_tool_calls(given.calls, pol), CallHits(1, given.calls, pol))
    BY <1>1, ScansCalls DEF IsMessage
  <2>3. ContentHits(1, given.parts, pol) \cap CallHits(1, given.calls, pol) = {}
    BY <1>1, HitsApart DEF IsMessage
  <2>4. Scans(scan_message_content(given.parts, pol) \o scan_tool_calls(given.calls, pol),
              ContentHits(1, given.parts, pol) \cup CallHits(1, given.calls, pol))
    BY <2>1, <2>2, <2>3, ScansConcat
  <2>5. QED
    BY <1>1, <1>2, <2>4
<1>4. scan_response(<<given>>, pol) = [i \in {1} |-> Each(ms, LAMBDA m : [m EXCEPT !.message = 1])]
  <2>1. DOMAIN <<given>> = {1} /\ <<given>>[1] = given
    OBVIOUS
  <2>2. scan_message_content(given.parts, pol) \o scan_tool_calls(given.calls, pol) = ms
    BY <1>1, <1>2
  <2> HIDE DEF ms
  <2>3. [i \in DOMAIN <<given>> |->
            Each(scan_message_content(<<given>>[i].parts, pol) \o scan_tool_calls(<<given>>[i].calls, pol),
                 LAMBDA m : [m EXCEPT !.message = i])]
        = [i \in {1} |-> Each(ms, LAMBDA m : [m EXCEPT !.message = 1])]
    <3> DEFINE at(i) == Each(scan_message_content(<<given>>[i].parts, pol)
                                 \o scan_tool_calls(<<given>>[i].calls, pol),
                             LAMBDA m : [m EXCEPT !.message = i])
    <3>1. at(1) = Each(ms, LAMBDA m : [m EXCEPT !.message = 1])
      BY <2>1, <2>2
    <3> HIDE DEF at
    <3>2. [i \in DOMAIN <<given>> |-> at(i)] = [i \in {1} |-> at(1)]
      BY <2>1
    <3>3. QED
      BY <3>1, <3>2, Zenon DEF at
  <2>4. QED
    BY <2>3, Zenon DEF scan_response
<1>5. \A m \in ContentHits(1, given.parts, pol) \cup CallHits(1, given.calls, pol) : m.message = 1
  BY ContentMessage, CallMessage
<1> HIDE DEF ms
<1>6. Each(ms, LAMBDA m : [m EXCEPT !.message = 1]) = ms
  BY <1>3, <1>5, EachIsSame
<1>7. scan_response(<<given>>, pol) = <<ms>>
  BY <1>4, <1>6
<1>8. QED
  BY <1>7 DEF ms, given, text, calls

-----------------------------------------------------------------------------
(* The inductive invariant *)

Results ==
    IF ~policy.enabled THEN [i \in DOMAIN original |-> <<>>]
    ELSE IF guardrail = "prompt_injection" THEN scan_request(original, policy)
    ELSE scan_response(original, policy)

StreamMatches ==
    IF ~policy.enabled THEN <<>>
    ELSE scan_text(extract_stream_delta_text(received), policy)
             \o scan_tool_calls(Accumulated(received), policy)

Matches == IF streaming THEN StreamMatches ELSE FlattenSeq(Results)

HandedOn ==
    IF guardrail = "prompt_injection" THEN apply_action_to_request(original, Results)
    ELSE apply_action_to_response(original, Results)

ContentOf(ms) == Where(ms, LAMBDA m : m.call = 0)

RedactedChunk ==
    Chunk(redact_text(extract_stream_delta_text(received), ContentOf(Matches)),
          assembled_tool_calls(Accumulated(received)))

Scanned == stage \in {"record", "done", "refused", "failed"}

\* Whose turn each stage is.
Turns ==
    /\ guardrail = "prompt_injection" => ~streaming /\ stage \notin {"call", "receive"}
    /\ stage \in {"call", "scan"} => ~streaming
    /\ stage = "receive" => streaming

\* What has been logged, and what is left to be, are the matches.
Log ==
    /\ ~Scanned => pending = <<>> /\ events = <<>>
    /\ Scanned => events \o pending = Matches /\ action = resolve_overall_action(Matches)
    /\ stage \in {"done", "refused"} => pending = <<>>
    /\ stage = "done" => action # "block"
    /\ stage = "refused" => action = "block"
    /\ alerts = IF stage = "refused" THEN 1 ELSE 0

\* What the messages have become.
Content == ~streaming => messages = IF Scanned THEN HandedOn ELSE original

\* What the client has been sent.
Sent ==
    /\ ~streaming => sent = <<>> /\ received = <<>>
    /\ streaming /\ Live => sent = IF stage = "refused" THEN <<ErrorFrame>> ELSE received
    /\ streaming /\ ~Live =>
           /\ stage = "refused" => sent = <<ErrorFrame>>
           /\ stage = "done" /\ action = "redact" => sent = <<RedactedChunk>>
           /\ stage = "done" /\ action # "redact" => sent = received
           /\ ~Scanned => sent = <<>>
           /\ stage \in {"record", "failed"} =>
                  /\ Len(sent) \in 0 .. Len(received) /\ sent = SubSeq(received, 1, Len(sent))
                  /\ sent # <<>> => pending = <<>> /\ action \in {"disabled", "flag"}
    /\ streaming /\ Live /\ stage = "done" => action # "redact"

IInv == TypeOK /\ Turns /\ Log /\ Content /\ Sent

Has(ms, a) == \E m \in Range(ms) : m.action = a

LEMMA ResolveFacts ==
    ASSUME NEW ms \in Seq(MatchRecords)
    PROVE  resolve_overall_action(ms) =
               IF Has(ms, "block") THEN "block"
               ELSE IF Has(ms, "redact") THEN "redact"
               ELSE IF Has(ms, "flag") THEN "flag" ELSE "disabled"
<1> DEFINE S == {"disabled"} \cup {m.action : m \in Range(ms)}
           sev == _ACTION_SEVERITY
           top(a) == a \in S /\ \A b \in S : sev[a] >= sev[b]
           a == resolve_overall_action(ms)
<1>1. \A b \in S : b \in {"disabled", "flag", "redact", "block"}
  <2>1. \A m \in Range(ms) : m \in MatchRecords
    BY RangeOfSeq
  <2>2. QED
    BY <2>1 DEF MatchRecords, _ACTION_SEVERITY
<1>2. sev["disabled"] = 0 /\ sev["flag"] = 1 /\ sev["redact"] = 2 /\ sev["block"] = 3
  BY DEF _ACTION_SEVERITY
<1>3. a = CHOOSE x \in S : \A b \in S : sev[x] >= sev[b]
  BY Zenon DEF resolve_overall_action
<1>4. "disabled" \in S /\ \A b \in {"flag", "redact", "block"} : b \in S <=> Has(ms, b)
  BY DEF Has
<1> HIDE DEF S, sev
<1> DEFINE best == IF Has(ms, "block") THEN "block"
                   ELSE IF Has(ms, "redact") THEN "redact"
                   ELSE IF Has(ms, "flag") THEN "flag" ELSE "disabled"
<1>5. best \in S /\ \A b \in S : sev[best] >= sev[b]
  BY <1>1, <1>2, <1>4
<1>6. \A x \in S : (\A b \in S : sev[x] >= sev[b]) => x = best
  BY <1>1, <1>2, <1>4, <1>5
<1> HIDE DEF best, a
<1>7. a = best
  BY <1>3, <1>5, <1>6
<1>8. QED
  BY <1>7 DEF best, a

LEMMA ResolveType ==
    ASSUME NEW ms \in Seq(MatchRecords)
    PROVE  resolve_overall_action(ms) \in DOMAIN _ACTION_SEVERITY
<1>1. DOMAIN _ACTION_SEVERITY = {"disabled", "flag", "redact", "block"}
  BY DEF _ACTION_SEVERITY
<1>2. QED
  BY <1>1, ResolveFacts

LEMMA AppendHead ==
    ASSUME NEW S, NEW s \in Seq(S), NEW t \in Seq(S), t # <<>>
    PROVE  Append(s, Head(t)) \o Tail(t) = s \o t
<1> DEFINE h == Head(t)
           r == Tail(t)
           one == <<h>>
<1>1. h \in S /\ r \in Seq(S) /\ one \in Seq(S)
  BY HeadTailProperties
<1>2. one \o r = t
  <2>1. Len(t) \in Nat \ {0}
    BY EmptySeq
  <2> DEFINE n == Len(t)
  <2>2. 1 \in 1 .. Len(t) /\ Len(t) \in 1 .. Len(t)
    BY <2>1
  <2>3. SubSeq(t, 1, Len(t)) = <<t[1]>> \o SubSeq(t, 1 + 1, Len(t))
    BY <2>2, SubSeqRecursiveFirst
  <2>4. r = SubSeq(t, 2, Len(t)) /\ h = t[1]
    BY TailIsSubSeq
  <2>5. SubSeq(t, 1, Len(t)) = t
    BY SubSeqFull
  <2>6. 1 + 1 = 2
    OBVIOUS
  <2>7. QED
    BY <2>3, <2>4, <2>5, <2>6
<1>3. Append(s, h) = s \o one
  BY <1>1, AppendIsConcat
<1> HIDE DEF h, r, one
<1>4. (s \o one) \o r = s \o (one \o r)
  <2>1. Regrouped(S)
    BY Regrouping
  <2>2. QED
    BY <1>1, <2>1 DEF Regrouped
<1>5. QED
  BY <1>2, <1>3, <1>4 DEF h, r

LEMMA Typing ==
    ASSUME TypeOK
    PROVE  /\ policy \in Policies /\ original \in Seq(Messages) /\ received \in Seq(Frames)
           /\ policy.enabled \in BOOLEAN
<1>1. policy \in Policies
  BY ChatAssumption DEF TypeOK
<1>2. original \in Seq(Messages)
  <2>1. <<>> \in Seq(Messages)
    BY EmptySeq
  <2>2. QED
    BY <2>1, ChatAssumption DEF TypeOK
<1>3. received \in Seq(Frames)
  BY ChatAssumption, SeqMonotonic DEF TypeOK
<1>4. policy.enabled \in BOOLEAN
  BY <1>1 DEF Policies
<1>5. QED
  BY <1>1, <1>2, <1>3, <1>4

LEMMA NothingFound ==
    ASSUME NEW ms \in Seq(Messages)
    PROVE  /\ \A i \in DOMAIN ms : Scans([k \in DOMAIN ms |-> <<>>][i], {})
           /\ Scans(FlattenSeq([i \in DOMAIN ms |-> <<>>]), {})
<1> DEFINE n == Len(ms)
           seqs == [i \in DOMAIN ms |-> <<>>]
           M == [i \in 1 .. n |-> {}]
<1>1. n \in Nat /\ DOMAIN ms = 1 .. n
  OBVIOUS
<1> HIDE DEF n
<1>2. DOMAIN seqs = 1 .. n /\ seqs = [k \in 1 .. n |-> seqs[k]]
  BY <1>1
<1>3. \A i \in 1 .. n : Scans(seqs[i], M[i])
  BY <1>1, ScansNothing
<1>4. \A k, l \in 1 .. n : k # l => M[k] \cap M[l] = {}
  OBVIOUS
<1>5. UNION {M[k] : k \in 1 .. n} = {}
  OBVIOUS
<1>6. \A i \in DOMAIN ms : Scans(seqs[i], {})
  BY ScansNothing
<1> HIDE DEF seqs, M
<1>7. Scans(FlattenSeq(seqs), {})
  BY <1>1, <1>2, <1>3, <1>4, <1>5, ScansFlatten
<1>8. QED
  BY <1>6, <1>7 DEF seqs

\* What the guardrail is given, in which it finds what is logged.
GivenHits == IF policy.enabled THEN AllHits(guardrail, Given, policy) ELSE {}

\* Matches are what occurs, whichever guardrail, and however the answer came.
LEMMA MatchesScan ==
    ASSUME TypeOK, Turns
    PROVE  Scans(Matches, GivenHits)
<1>0. policy \in Policies /\ original \in Seq(Messages) /\ received \in Seq(Frames)
  BY Typing
<1>1. CASE ~streaming /\ ~policy.enabled
  <2>1. Matches = FlattenSeq([i \in DOMAIN original |-> <<>>]) /\ GivenHits = {}
    BY <1>1 DEF Matches, Results, GivenHits
  <2>2. QED
    BY <1>0, <2>1, NothingFound
<1>2. CASE ~streaming /\ policy.enabled /\ guardrail = "prompt_injection"
  <2>1. /\ Matches = FlattenSeq(scan_request(original, policy))
        /\ GivenHits = AllHits("prompt_injection", original, policy)
    BY <1>2 DEF Matches, Results, GivenHits, Given
  <2>2. QED
    BY <1>0, <2>1, ScansRequest
<1>3. CASE ~streaming /\ policy.enabled /\ guardrail = "output_leak"
  <2>1. /\ Matches = FlattenSeq(scan_response(original, policy))
        /\ GivenHits = AllHits("output_leak", original, policy)
    BY <1>3 DEF Matches, Results, GivenHits, Given
  <2> DEFINE n == Len(original)
  <2>2. n \in Nat /\ DOMAIN original = 1 .. n /\ \A i \in 1 .. n : original[i] \in Messages
    BY <1>0
  <2>3. \A i \in 1 .. n : IsMessage(original[i])
    BY <2>2, MessageFacts
  <2> HIDE DEF n
  <2>4. QED
    BY <1>0, <2>1, <2>2, <2>3, ScansResponse
<1>4. CASE streaming /\ ~policy.enabled
  <2>1. Matches = <<>> /\ GivenHits = {}
    BY <1>4 DEF Matches, StreamMatches, GivenHits
  <2>2. QED
    BY <2>1, ScansNothing
<1>5. CASE streaming /\ policy.enabled
  <2> DEFINE given == <<Assembled(received)>>
  <2>1. guardrail = "output_leak"
    BY <1>5 DEF TypeOK, Turns
  <2>2. GivenHits = AllHits("output_leak", given, policy)
    BY <1>5, <2>1 DEF GivenHits, Given
  <2>3. Matches = StreamMatches /\ scan_response(given, policy) = <<Matches>>
    BY <1>0, <1>5, StreamIsResponse DEF Matches, StreamMatches
  <2>4. DOMAIN given = 1 .. 1 /\ \A i \in 1 .. 1 : IsMessage(given[i])
    <3>1. IsMessage(Assembled(received))
      BY <1>0, StreamText
    <3>2. QED
      BY <3>1
  <2> HIDE DEF given
  <2>5. /\ Scans(scan_response(given, policy)[1], MessageHits("output_leak", 1, given[1], policy))
        /\ AllHits("output_leak", given, policy) = MessageHits("output_leak", 1, given[1], policy)
    <3>1. 1 \in DOMAIN given /\ 1 \in Nat /\ DOMAIN given = {1}
      BY <2>4
    <3>2. Scans(scan_response(given, policy)[1], MessageHits("output_leak", 1, given[1], policy))
      BY <1>0, <2>4, <3>1, ScansResponse
    <3>3. QED
      BY <3>1, <3>2 DEF AllHits
  <2>6. QED
    BY <2>2, <2>3, <2>5
<1>6. QED
  BY <1>0, <1>1, <1>2, <1>3, <1>4, <1>5, Typing DEF TypeOK

LEMMA MatchesType ==
    ASSUME TypeOK, Turns
    PROVE  Matches \in Seq(MatchRecords) /\ resolve_overall_action(Matches) \in DOMAIN _ACTION_SEVERITY
<1>1. Matches \in Seq(MatchRecords)
  BY MatchesScan DEF Scans
<1>2. QED
  BY <1>1, ResolveType

LEMMA Same ==
    ASSUME UNCHANGED <<guardrail, policy, streaming, original, received>>
    PROVE  Matches' = Matches /\ HandedOn' = HandedOn /\ RedactedChunk' = RedactedChunk /\ Live' = Live
<1>1. Results' = Results
  BY DEF Results
<1>2. StreamMatches' = StreamMatches
  BY DEF StreamMatches
<1>3. Matches' = Matches
  BY <1>1, <1>2 DEF Matches
<1>4. HandedOn' = HandedOn
  BY <1>1 DEF HandedOn
<1>5. RedactedChunk' = RedactedChunk
  BY <1>3 DEF RedactedChunk
<1>6. Live' = Live
  BY DEF Live
<1>7. QED
  BY <1>3, <1>4, <1>5, <1>6

LEMMA HandedOnDomain == TypeOK => DOMAIN HandedOn = DOMAIN original
  BY DEF TypeOK, HandedOn, apply_action_to_request, apply_action_to_response, ApplyAction

LEMMA InitIInv == Init => IInv
<1> SUFFICES ASSUME Init PROVE IInv
  OBVIOUS
<1>1. TypeOK
  <2>1. <<>> \in Seq(Chunks) /\ Len(<<>>) = 0 /\ 0 <= MaxChunks /\ <<>> \in Seq(MatchRecords)
    BY EmptySeq, ChatAssumption
  <2>2. "disabled" \in DOMAIN _ACTION_SEVERITY /\ "scan" \in Stages
    BY DEF _ACTION_SEVERITY, Stages
  <2>3. policy \in PromptPolicies /\ original \in Prompts /\ DOMAIN messages = DOMAIN original
    BY DEF Init
  <2>4. guardrail = "prompt_injection" /\ streaming = FALSE /\ stage = "scan" /\ alerts = 0
    BY DEF Init
  <2>5. received = <<>> /\ action = "disabled" /\ pending = <<>> /\ events = <<>>
    BY DEF Init
  <2>6. /\ received \in Seq(Chunks) /\ Len(received) <= MaxChunks
        /\ pending \in Seq(MatchRecords) /\ events \in Seq(MatchRecords)
    BY <2>1, <2>5, Zenon
  <2>7. /\ policy \in IF guardrail = "prompt_injection" THEN PromptPolicies ELSE AnswerPolicies
        /\ original \in IF guardrail = "prompt_injection" THEN Prompts ELSE Answers \cup {<<>>}
    BY <2>3, <2>4
  <2>8. /\ guardrail \in {"prompt_injection", "output_leak"}
        /\ stage \in Stages /\ action \in DOMAIN _ACTION_SEVERITY /\ alerts \in 0 .. 1
    BY <2>2, <2>4, <2>5
  <2>9. streaming \in BOOLEAN
    BY <2>4, Zenon
  <2>10. QED
    BY <2>3, <2>6, <2>7, <2>8, <2>9 DEF TypeOK
<1>2. Turns
  BY DEF Init, Turns
<1>3. Log
  BY DEF Init, Log, Scanned
<1>4. Content
  BY DEF Init, Content, Scanned
<1>5. Sent
  BY DEF Init, Sent
<1>6. QED
  BY <1>1, <1>2, <1>3, <1>4, <1>5 DEF IInv


\* A step after which the matches are the same.
LEMMA LogStep ==
    ASSUME TypeOK, Turns, Log, UNCHANGED <<guardrail, policy, streaming, original, received>>,
           Scanned, Scanned', events' \o pending' = events \o pending, action' = action
    PROVE  events' \o pending' = Matches' /\ action' = resolve_overall_action(Matches')
  BY Same DEF Log

LEMMA ScanStep ==
    ASSUME IInv, ScanPrompt \/ ScanAnswer
    PROVE  IInv'
<1>0. TypeOK /\ Turns /\ Log /\ Content /\ Sent
  BY DEF IInv
<1>1. /\ stage = "scan" /\ ~streaming /\ ~Scanned /\ pending = <<>> /\ events = <<>>
  BY <1>0 DEF ScanPrompt, ScanAnswer, Turns, Log, Scanned
<1>2. Matches \in Seq(MatchRecords) /\ resolve_overall_action(Matches) \in DOMAIN _ACTION_SEVERITY
  BY <1>0, MatchesType
<1>3. Resolve(Matches) /\ messages' = HandedOn /\ UNCHANGED streamVars
  <2>1. CASE ScanPrompt
    BY <1>1, <2>1 DEF ScanPrompt, Matches, Results, HandedOn
  <2>2. CASE ScanAnswer
    BY <1>1, <2>2 DEF ScanAnswer, Matches, Results, HandedOn
  <2>3. QED
    BY <2>1, <2>2
<1>4. /\ action' = resolve_overall_action(Matches) /\ pending' = Matches /\ stage' = "record"
      /\ UNCHANGED <<guardrail, policy, streaming, original, events, alerts, received, sent>>
  BY <1>3 DEF Resolve, streamVars
<1>5. Matches' = Matches /\ HandedOn' = HandedOn
  BY <1>4, Same
<1>6. TypeOK'
  <2>1. "record" \in Stages /\ DOMAIN HandedOn = DOMAIN original
    BY <1>0, HandedOnDomain DEF Stages
  <2>2. QED
    BY <1>0, <1>2, <1>3, <1>4, <2>1 DEF TypeOK
<1>7. Turns'
  BY <1>0, <1>1, <1>4 DEF Turns
<1>8. Log'
  <2>1. events' \o pending' = Matches'
    <3>1. events' = <<>> /\ pending' = Matches'
      BY <1>1, <1>4, <1>5
    <3>2. <<>> \o Matches = Matches
      BY <1>2, ConcatEmptySeq
    <3>3. QED
      BY <1>5, <3>1, <3>2
  <2>2. action' = resolve_overall_action(Matches')
    BY <1>4, <1>5
  <2>3. stage' = "record" /\ Scanned' /\ stage = "scan" /\ alerts' = alerts
    BY <1>1, <1>4 DEF Scanned
  <2>4. QED
    BY <1>0, <2>1, <2>2, <2>3 DEF Log
<1>9. Content'
  BY <1>3, <1>4, <1>5 DEF Content, Scanned
<1>10. Sent'
  BY <1>0, <1>1, <1>4 DEF Sent
<1>11. QED
  BY <1>6, <1>7, <1>8, <1>9, <1>10 DEF IInv

LEMMA RecordStep ==
    ASSUME IInv, RecordEvent
    PROVE  IInv'
<1>0. TypeOK /\ Turns /\ Log /\ Content /\ Sent
  BY DEF IInv
<1>1. /\ stage = "record" /\ pending # <<>> /\ Scanned /\ Scanned'
      /\ events' = Append(events, Head(pending)) /\ pending' = Tail(pending)
      /\ UNCHANGED <<guardrail, policy, streaming, stage, original, messages, received, sent, action, alerts>>
  BY DEF RecordEvent, contentVars, streamVars, Scanned
<1>2. events \in Seq(MatchRecords) /\ pending \in Seq(MatchRecords)
  BY <1>0 DEF TypeOK
<1>3. events' \in Seq(MatchRecords) /\ pending' \in Seq(MatchRecords)
  <2>1. Head(pending) \in MatchRecords /\ Tail(pending) \in Seq(MatchRecords)
    BY <1>1, <1>2, HeadTailProperties
  <2>2. QED
    BY <1>1, <1>2, <2>1, AppendProperties
<1>4. events' \o pending' = events \o pending
  BY <1>1, <1>2, AppendHead
<1>5. /\ HandedOn' = HandedOn /\ RedactedChunk' = RedactedChunk /\ Live' = Live
      /\ events' \o pending' = Matches' /\ action' = resolve_overall_action(Matches')
  BY <1>0, <1>1, <1>4, Same, LogStep
<1>6. TypeOK'
  BY <1>0, <1>1, <1>3 DEF TypeOK
<1>7. Turns'
  BY <1>0, <1>1 DEF Turns
<1>8. Log'
  BY <1>0, <1>1, <1>5 DEF Log
<1>9. Content'
  BY <1>0, <1>1, <1>5 DEF Content
<1>10. Sent'
  BY <1>0, <1>1, <1>5 DEF Sent, Scanned
<1>11. QED
  BY <1>6, <1>7, <1>8, <1>9, <1>10 DEF IInv

\* RecordFails, Block, HandOn and SendRedacted end the request, or its scan.
LEMMA EndStep ==
    ASSUME IInv, RecordFails \/ Block \/ HandOn \/ SendRedacted
    PROVE  IInv'
<1>0. TypeOK /\ Turns /\ Log /\ Content /\ Sent
  BY DEF IInv
<1>1. /\ stage = "record" /\ Scanned /\ Scanned'
      /\ UNCHANGED <<guardrail, policy, streaming, original, messages, received, action, pending, events>>
  BY DEF RecordFails, Block, HandOn, SendRedacted, contentVars, streamVars, scanVars, Scanned
<1>2. \/ stage' = "failed" /\ UNCHANGED <<sent, alerts>>
      \/ /\ stage' = "refused" /\ action = "block" /\ pending = <<>> /\ alerts' = alerts + 1
         /\ sent' = IF streaming THEN <<ErrorFrame>> ELSE sent
      \/ stage' = "done" /\ action # "block" /\ ~streaming /\ pending = <<>> /\ UNCHANGED <<sent, alerts>>
      \/ /\ stage' = "done" /\ streaming /\ ~Live /\ action = "redact" /\ pending = <<>>
         /\ sent' = <<RedactedChunk>> /\ UNCHANGED alerts
  <2>1. CASE RecordFails
    BY <2>1 DEF RecordFails, streamVars
  <2>2. CASE Block
    BY <2>2 DEF Block
  <2>3. CASE HandOn
    BY <2>3 DEF HandOn, streamVars
  <2>4. CASE SendRedacted
    <3>1. events \o pending = Matches /\ pending = <<>> /\ events \in Seq(MatchRecords)
      BY <1>0, <1>1, <2>4 DEF Log, SendRedacted, TypeOK
    <3>2. events = Matches
      BY <3>1, ConcatEmptySeq
    <3>3. sent' = <<Chunk(redact_text(extract_stream_delta_text(received), ContentOf(events)),
                          assembled_tool_calls(Accumulated(received)))>>
      BY <2>4, Zenon DEF SendRedacted, ContentOf
    <3>4. sent' = <<RedactedChunk>>
      BY <3>2, <3>3 DEF RedactedChunk
    <3>5. QED
      BY <2>4, <3>4 DEF SendRedacted
  <2>5. QED
    BY <2>1, <2>2, <2>3, <2>4
<1>3. /\ HandedOn' = HandedOn /\ RedactedChunk' = RedactedChunk /\ Live' = Live /\ Matches' = Matches
  BY <1>1, Same
<1>4. events' \o pending' = Matches' /\ action' = resolve_overall_action(Matches')
  BY <1>0, <1>1, <1>3 DEF Log
<1>5. alerts = 0
  BY <1>0, <1>1 DEF Log
<1>6. TypeOK'
  <2>1. stage' \in Stages /\ alerts' \in 0 .. 1
    BY <1>2, <1>5 DEF Stages
  <2>2. QED
    BY <1>0, <1>1, <2>1 DEF TypeOK
<1>7. Turns'
  BY <1>0, <1>1, <1>2 DEF Turns
<1>8. Log'
  BY <1>0, <1>1, <1>2, <1>4, <1>5 DEF Log
<1>9. Content'
  BY <1>0, <1>1, <1>3 DEF Content
<1>10. Sent'
  BY <1>0, <1>1, <1>2, <1>3 DEF Sent, Scanned
<1>11. QED
  BY <1>6, <1>7, <1>8, <1>9, <1>10 DEF IInv

LEMMA AnswerStep ==
    ASSUME IInv, CallModel \/ (\E choices \in Answers : AnswerJSON(choices)) \/ AnswerStream
    PROVE  IInv'
<1>0. TypeOK /\ Turns /\ Log /\ Content /\ Sent
  BY DEF IInv
<1>1. CASE CallModel
  <2>1. /\ guardrail' = "output_leak" /\ policy' \in AnswerPolicies /\ stage' = "call"
        /\ original' = <<>> /\ messages' = <<>> /\ action' = "disabled" /\ events' = <<>>
        /\ UNCHANGED <<streaming, received, sent, pending, alerts>>
        /\ guardrail = "prompt_injection" /\ stage = "done"
    BY <1>1 DEF CallModel, streamVars
  <2>2. pending = <<>> /\ ~streaming /\ alerts = 0
    BY <1>0, <2>1 DEF Log, Turns
  <2>3. ~Scanned'
    BY <2>1 DEF Scanned
  <2>4. TypeOK'
    <3>1. "call" \in Stages /\ "disabled" \in DOMAIN _ACTION_SEVERITY /\ <<>> \in Seq(MatchRecords)
      BY EmptySeq DEF Stages, _ACTION_SEVERITY
    <3>2. /\ policy' \in IF guardrail' = "prompt_injection" THEN PromptPolicies ELSE AnswerPolicies
          /\ original' \in IF guardrail' = "prompt_injection" THEN Prompts ELSE Answers \cup {<<>>}
      BY <2>1
    <3>3. QED
      BY <1>0, <2>1, <3>1, <3>2 DEF TypeOK
  <2>5. Turns'
    BY <2>1, <2>2 DEF Turns
  <2>6. Log'
    BY <2>1, <2>2, <2>3 DEF Log
  <2>7. Content'
    BY <2>1, <2>3 DEF Content
  <2>8. Sent'
    BY <1>0, <2>1, <2>2 DEF Sent
  <2>9. QED
    BY <2>4, <2>5, <2>6, <2>7, <2>8 DEF IInv
<1>2. CASE \E choices \in Answers : AnswerJSON(choices)
  <2>1. PICK choices \in Answers : AnswerJSON(choices)
    BY <1>2
  <2>2. /\ stage = "call" /\ stage' = "scan" /\ original' = choices /\ messages' = choices
        /\ UNCHANGED <<guardrail, policy, streaming, received, sent, action, pending, events, alerts>>
    BY <2>1 DEF AnswerJSON, streamVars, scanVars
  <2>3. guardrail = "output_leak" /\ ~streaming /\ pending = <<>> /\ events = <<>> /\ alerts = 0
    BY <1>0, <2>2 DEF Turns, Log, TypeOK, Scanned
  <2>4. ~Scanned'
    BY <2>2 DEF Scanned
  <2>5. TypeOK'
    <3>1. "scan" \in Stages
      BY DEF Stages
    <3>2. QED
      BY <1>0, <2>2, <2>3, <3>1 DEF TypeOK
  <2>6. Turns'
    BY <2>2, <2>3 DEF Turns
  <2>7. Log'
    BY <2>2, <2>3, <2>4 DEF Log
  <2>8. Content'
    BY <2>2, <2>4 DEF Content
  <2>9. Sent'
    BY <1>0, <2>2, <2>3 DEF Sent
  <2>10. QED
    BY <2>5, <2>6, <2>7, <2>8, <2>9 DEF IInv
<1>3. CASE AnswerStream
  <2>1. /\ stage = "call" /\ stage' = "receive" /\ streaming' = TRUE
        /\ UNCHANGED <<guardrail, policy, original, messages, received, sent, action, pending, events, alerts>>
    BY <1>3 DEF AnswerStream, contentVars, streamVars, scanVars
  <2>2. /\ guardrail = "output_leak" /\ ~streaming /\ pending = <<>> /\ events = <<>> /\ alerts = 0
        /\ received = <<>> /\ sent = <<>>
    BY <1>0, <2>1 DEF Turns, Log, TypeOK, Scanned, Sent
  <2>3. ~Scanned' /\ streaming'
    BY <2>1 DEF Scanned
  <2>4. TypeOK'
    <3>1. "receive" \in Stages /\ streaming' \in BOOLEAN
      BY <2>1 DEF Stages
    <3>2. QED
      BY <1>0, <2>1, <3>1 DEF TypeOK
  <2>5. Turns'
    BY <2>1, <2>2, <2>3 DEF Turns
  <2>6. Log'
    BY <2>1, <2>2, <2>3 DEF Log
  <2>7. Content'
    BY <2>3 DEF Content
  <2>8. Sent'
    BY <2>1, <2>2, <2>3 DEF Sent
  <2>9. QED
    BY <2>4, <2>5, <2>6, <2>7, <2>8 DEF IInv
<1>4. QED
  BY <1>1, <1>2, <1>3

LEMMA ReceiveStep ==
    ASSUME IInv, NEW chunk \in Chunks, Receive(chunk)
    PROVE  IInv'
<1>0. TypeOK /\ Turns /\ Log /\ Content /\ Sent
  BY DEF IInv
<1>1. /\ stage = "receive" /\ received' = Append(received, chunk)
      /\ sent' = IF Live THEN Append(sent, chunk) ELSE sent
      /\ Len(received) < MaxChunks
      /\ UNCHANGED <<guardrail, policy, streaming, stage, original, messages, action, pending, events, alerts>>
  BY DEF Receive, contentVars, scanVars
<1>2. streaming /\ ~Scanned /\ ~Scanned' /\ Live' = Live
  BY <1>0, <1>1 DEF Turns, Scanned, Live
<1>3. TypeOK'
  <2>1. received' \in Seq(Chunks) /\ Len(received') = Len(received) + 1 /\ Len(received) \in Nat
    BY <1>0, <1>1, AppendProperties DEF TypeOK
  <2>2. Len(received') <= MaxChunks
    BY <1>1, <2>1, ChatAssumption
  <2>3. QED
    BY <1>0, <1>1, <2>1, <2>2 DEF TypeOK
<1>4. Turns'
  BY <1>0, <1>1 DEF Turns
<1>5. Log'
  BY <1>0, <1>1, <1>2 DEF Log
<1>6. Content'
  BY <1>1, <1>2 DEF Content
<1>7. Sent'
  BY <1>0, <1>1, <1>2 DEF Sent
<1>8. QED
  BY <1>3, <1>4, <1>5, <1>6, <1>7 DEF IInv

LEMMA EndOfStreamStep ==
    ASSUME IInv, EndOfStream
    PROVE  IInv'
<1>0. TypeOK /\ Turns /\ Log /\ Content /\ Sent
  BY DEF IInv
<1>1. stage = "receive" /\ streaming /\ ~Scanned /\ pending = <<>> /\ events = <<>>
  BY <1>0 DEF EndOfStream, Turns, Log, Scanned
<1>2. Matches \in Seq(MatchRecords) /\ resolve_overall_action(Matches) \in DOMAIN _ACTION_SEVERITY
  BY <1>0, MatchesType
<1>3. /\ action' = resolve_overall_action(Matches) /\ pending' = Matches /\ stage' = "record"
      /\ UNCHANGED <<guardrail, policy, streaming, original, messages, events, alerts, received, sent>>
  BY <1>1 DEF EndOfStream, Resolve, streamVars, Matches, StreamMatches
<1>4. Matches' = Matches /\ Live' = Live
  BY <1>3, Same
<1>5. TypeOK'
  <2>1. "record" \in Stages
    BY DEF Stages
  <2>2. QED
    BY <1>0, <1>2, <1>3, <2>1 DEF TypeOK
<1>6. Turns'
  BY <1>0, <1>1, <1>3 DEF Turns
<1>7. Log'
  <2>1. events' \o pending' = Matches'
    <3>1. events' = <<>> /\ pending' = Matches'
      BY <1>1, <1>3, <1>4
    <3>2. <<>> \o Matches = Matches
      BY <1>2, ConcatEmptySeq
    <3>3. QED
      BY <1>4, <3>1, <3>2
  <2>2. action' = resolve_overall_action(Matches')
    BY <1>3, <1>4
  <2>3. stage' = "record" /\ Scanned' /\ stage = "receive" /\ alerts' = alerts
    BY <1>1, <1>3 DEF Scanned
  <2>4. QED
    BY <1>0, <2>1, <2>2, <2>3 DEF Log
<1>8. Content'
  BY <1>1, <1>3 DEF Content
<1>9. Sent'
  <2>1. stage' = "record" /\ sent' = sent /\ received' = received /\ streaming' /\ stage = "receive"
    BY <1>1, <1>3
  <2>2. CASE Live
    BY <1>0, <1>1, <1>4, <2>1, <2>2 DEF Sent
  <2>3. CASE ~Live
    <3>1. sent = <<>>
      BY <1>0, <1>1, <2>3 DEF Sent
    <3>2. /\ Len(sent) \in 0 .. Len(received) /\ sent = SubSeq(received, 1, Len(sent))
      <4>1. Len(received) \in Nat /\ Len(<<>>) = 0
        BY <1>0 DEF TypeOK
      <4>2. SubSeq(received, 1, 0) = <<>>
        BY SubSeqEmpty
      <4>3. QED
        BY <3>1, <4>1, <4>2
    <3>3. Scanned' /\ ~Live' /\ sent' = <<>>
      BY <1>4, <2>1, <2>3, <3>1 DEF Scanned
    <3>4. Len(sent') \in 0 .. Len(received') /\ sent' = SubSeq(received', 1, Len(sent'))
      BY <2>1, <3>2
    <3>5. QED
      BY <2>1, <3>3, <3>4 DEF Sent
  <2>4. QED
    BY <2>2, <2>3
<1>10. QED
  BY <1>5, <1>6, <1>7, <1>8, <1>9 DEF IInv

LEMMA ReleaseStep ==
    ASSUME IInv, Release
    PROVE  IInv'
<1>0. TypeOK /\ Turns /\ Log /\ Content /\ Sent
  BY DEF IInv
<1>1. /\ stage = "record" /\ pending = <<>> /\ streaming /\ action \in {"disabled", "flag"}
      /\ UNCHANGED <<guardrail, policy, streaming, original, messages, received, action, pending, events, alerts>>
      /\ \/ sent = received /\ stage' = "done" /\ sent' = sent
         \/ /\ sent # received /\ sent' = Append(sent, received[Len(sent) + 1]) /\ stage' = stage
  BY DEF Release, contentVars, scanVars
<1>2. Scanned /\ Scanned' /\ action # "block" /\ alerts = 0
  BY <1>0, <1>1 DEF Scanned, Log
<1>3. /\ HandedOn' = HandedOn /\ RedactedChunk' = RedactedChunk /\ Live' = Live /\ Matches' = Matches
  BY <1>1, Same
<1>4. events' \o pending' = Matches' /\ action' = resolve_overall_action(Matches')
  BY <1>0, <1>1, <1>2, <1>3 DEF Log
<1>5. TypeOK'
  <2>1. stage' \in Stages
    BY <1>1 DEF Stages
  <2>2. QED
    BY <1>0, <1>1, <2>1 DEF TypeOK
<1>6. Turns'
  BY <1>0, <1>1 DEF Turns
<1>7. Log'
  BY <1>0, <1>1, <1>2, <1>4 DEF Log
<1>8. Content'
  BY <1>1 DEF Content
<1>9. Sent'
  <2>1. CASE sent = received /\ stage' = "done" /\ sent' = sent
    BY <1>0, <1>1, <1>2, <1>3, <2>1 DEF Sent
  <2>2. CASE sent # received /\ sent' = Append(sent, received[Len(sent) + 1]) /\ stage' = stage
    <3>1. ~Live /\ Len(sent) \in 0 .. Len(received) /\ sent = SubSeq(received, 1, Len(sent))
      BY <1>0, <1>1, <2>2 DEF Sent
    <3>2. received \in Seq(Chunks) /\ Len(received) \in Nat
      BY <1>0 DEF TypeOK
    <3>3. Len(sent) # Len(received)
      BY <2>2, <3>1, <3>2, SubSeqFull
    <3> DEFINE k == Len(sent) + 1
    <3>4. k \in 1 .. Len(received) /\ k - 1 = Len(sent)
      BY <3>1, <3>2, <3>3
    <3> HIDE DEF k
    <3>5. SubSeq(received, 1, k) = Append(SubSeq(received, 1, k - 1), received[k])
      BY <3>2, <3>4, PrefixAppend
    <3>6. sent' = SubSeq(received, 1, k)
      BY <2>2, <3>1, <3>4, <3>5 DEF k
    <3>7. Len(sent') = k
      <4>1. \A i \in 1 .. k : received[i] \in Chunks
        BY <3>2, <3>4
      <4>2. k \in Int /\ 1 <= k /\ k - 1 + 1 = k
        BY <3>2, <3>4
      <4>3. Len(SubSeq(received, 1, k)) = IF 1 <= k THEN k - 1 + 1 ELSE 0
        BY <4>1, <4>2, SubSeqProperties
      <4>4. QED
        BY <3>6, <4>2, <4>3
    <3>8. Len(sent') \in 0 .. Len(received') /\ sent' = SubSeq(received', 1, Len(sent'))
      BY <1>1, <3>2, <3>4, <3>6, <3>7
    <3>9. stage' = "record" /\ ~Live' /\ pending' = <<>> /\ action' \in {"disabled", "flag"} /\ streaming'
      BY <1>1, <1>3, <2>2, <3>1
    <3>10. QED
      BY <1>2, <3>8, <3>9 DEF Sent
  <2>3. QED
    BY <1>1, <2>1, <2>2
<1>10. QED
  BY <1>5, <1>6, <1>7, <1>8, <1>9 DEF IInv

\* Every step keeps the invariant.
LEMMA NextIInv ==
    ASSUME IInv, [Next]_vars
    PROVE  IInv'
<1>1. CASE UNCHANGED vars
  <2>1. UNCHANGED <<guardrail, policy, streaming, stage, original, messages, received, sent,
                    action, pending, events, alerts>>
    BY <1>1 DEF vars, contentVars, streamVars, scanVars
  <2>2. /\ HandedOn' = HandedOn /\ RedactedChunk' = RedactedChunk /\ Live' = Live /\ Matches' = Matches
    BY <2>1, Same
  <2>3. TypeOK /\ Turns /\ Log /\ Content /\ Sent
    BY DEF IInv
  <2>4. TypeOK' /\ Turns'
    BY <2>1, <2>3 DEF TypeOK, Turns
  <2>5. Log' /\ Content'
    BY <2>1, <2>2, <2>3 DEF Log, Content, Scanned
  <2>6. Sent'
    BY <2>1, <2>2, <2>3 DEF Sent, Scanned
  <2>7. QED
    BY <2>4, <2>5, <2>6 DEF IInv
<1>2. CASE Over
  BY <1>1, <1>2 DEF Over
<1>3. QED
  BY <1>1, <1>2, ScanStep, RecordStep, EndStep, AnswerStep, ReceiveStep, EndOfStreamStep, ReleaseStep
     DEF Next

\* The invariant holds.
LEMMA Invariant == Spec => []IInv
<1>1. Init => IInv
  BY InitIInv
<1>2. IInv /\ [Next]_vars => IInv'
  BY NextIInv
<1>3. QED
  BY <1>1, <1>2, PTL DEF Spec

\* Every variable of a guarded request keeps its type.
THEOREM TypeCorrect == Spec => []TypeOK
<1>1. IInv => TypeOK
  BY DEF IInv
<1>2. QED
  BY <1>1, Invariant, PTL

-----------------------------------------------------------------------------
(* What is logged *)

Place(m) == <<m.message, m.part, m.call, m.start, m.action>>

\* Pattern r is recorded at this place among these matches.
Told(x, M, r) == \E m \in M : m.pattern = r /\ x = Place(m)

Escalated(c, r, pol) == IF c # 0 /\ pol.action[r] = "redact" THEN "block" ELSE pol.action[r]

LEMMA HitsTold ==
    ASSUME NEW i \in Nat, NEW p \in Nat, NEW c \in Nat, NEW text \in Text, NEW pol \in Policies,
           NEW r \in Patterns, NEW x
    PROVE  Told(x, Hits(i, p, c, text, pol), r) <=>
               Enabled(r, pol) /\ \E s \in Starts(text, r) : x = <<i, p, c, s, Escalated(c, r, pol)>>
<1>1. ASSUME NEW m \in Hits(i, p, c, text, pol), m.pattern = r, x = Place(m)
      PROVE  Enabled(r, pol) /\ \E s \in Starts(text, r) : x = <<i, p, c, s, Escalated(c, r, pol)>>
  <2>1. PICK q \in Patterns, s \in Nat : Found(text, pol, q, s) /\ m = MatchAt(i, p, c, q, s, pol)
    BY <1>1 DEF Hits
  <2>2. q = r /\ x = <<i, p, c, s, Escalated(c, r, pol)>>
    BY <1>1, <2>1 DEF MatchAt, Place, Escalated
  <2>3. s < Len(text) /\ Len(text) \in Nat
    BY <2>1, FoundStarts
  <2>4. s \in 0 .. Len(text)
    BY <2>3
  <2>5. Enabled(r, pol) /\ OccursAt(Words[r], text, s)
    BY <2>1, <2>2 DEF Found
  <2>6. QED
    BY <2>2, <2>4, <2>5 DEF Starts
<1>2. ASSUME Enabled(r, pol), NEW s \in Starts(text, r), x = <<i, p, c, s, Escalated(c, r, pol)>>
      PROVE  Told(x, Hits(i, p, c, text, pol), r)
  <2> DEFINE m == MatchAt(i, p, c, r, s, pol)
  <2>1. s \in Nat /\ Found(text, pol, r, s)
    BY <1>2 DEF Starts, Found
  <2>2. m \in MatchRecords
    BY <2>1, MatchAtType
  <2>3. m.pattern = r /\ x = Place(m)
    BY <1>2 DEF MatchAt, Place, Escalated
  <2> HIDE DEF m
  <2>4. m \in Hits(i, p, c, text, pol)
    <3>1. m = MatchAt(i, p, c, r, s, pol)
      BY DEF m
    <3>2. QED
      BY <2>1, <2>2, <3>1 DEF Hits
  <2>5. QED
    BY <2>3, <2>4 DEF Told
<1>3. QED
  BY <1>1, <1>2 DEF Told

LEMMA GivenFacts ==
    ASSUME TypeOK, Turns
    PROVE  /\ \A i \in DOMAIN Given : i \in Nat /\ IsMessage(Given[i])
           /\ streaming => guardrail = "output_leak"
<1>0. policy \in Policies /\ original \in Seq(Messages) /\ received \in Seq(Frames)
  BY Typing
<1>1. CASE ~streaming
  <2>1. Given = original
    BY <1>1 DEF Given
  <2>2. \A i \in DOMAIN original : i \in Nat /\ original[i] \in Messages
    BY <1>0
  <2>3. QED
    BY <1>1, <2>1, <2>2, MessageFacts
<1>2. CASE streaming
  <2>1. Given = <<Assembled(received)>> /\ guardrail = "output_leak"
    BY <1>2 DEF Given, TypeOK, Turns
  <2>2. IsMessage(Assembled(received))
    BY <1>0, StreamText
  <2>3. QED
    BY <2>1, <2>2
<1>3. QED
  BY <1>1, <1>2

LEMMA MessageTold ==
    ASSUME TypeOK, Turns, NEW i \in DOMAIN Given, NEW r \in Patterns, NEW x
    PROVE  /\ Told(x, ContentHits(i, Given[i].parts, policy), r) <=>
                  Enabled(r, policy) /\ x \in TextPlaces(r, i)
           /\ Told(x, CallHits(i, Given[i].calls, policy), r) <=>
                  Enabled(r, policy) /\ x \in CallPlaces(r, i)
<1> DEFINE parts == Given[i].parts
           calls == Given[i].calls
<1>1. policy \in Policies /\ i \in Nat
  BY Typing, GivenFacts
<1>2. parts \in Seq(Text) /\ IsCallTable(calls)
  BY GivenFacts DEF IsMessage
<1>3. TextPlaces(r, i) =
          UNION {{<<i, p, 0, s, policy.action[r]>> : s \in Starts(parts[p], r)} : p \in DOMAIN parts}
  BY DEF TextPlaces
<1>4. CallPlaces(r, i) =
          UNION {{<<i, 1, c, s, IF policy.action[r] = "redact" THEN "block" ELSE policy.action[r]>> :
                      s \in Starts(calls[c].arguments, r)} : c \in DOMAIN calls}
  BY DEF CallPlaces
<1>5. \A p \in DOMAIN parts : p \in Nat /\ parts[p] \in Text
  BY <1>2
<1>6. \A c \in DOMAIN calls : c \in Nat /\ c # 0 /\ calls[c].arguments \in Text
  BY <1>2 DEF IsCallTable
<1> HIDE DEF parts, calls
<1>7. \A p \in DOMAIN parts : Told(x, Hits(i, p, 0, parts[p], policy), r) <=>
          Enabled(r, policy) /\ x \in {<<i, p, 0, s, policy.action[r]>> : s \in Starts(parts[p], r)}
  <2> TAKE p \in DOMAIN parts
  <2>1. 0 \in Nat /\ Escalated(0, r, policy) = policy.action[r]
    BY DEF Escalated
  <2>2. Told(x, Hits(i, p, 0, parts[p], policy), r) <=>
            Enabled(r, policy) /\ \E s \in Starts(parts[p], r) : x = <<i, p, 0, s, Escalated(0, r, policy)>>
    BY <1>1, <1>5, <2>1, HitsTold
  <2>3. QED
    BY <2>1, <2>2
<1>8. \A c \in DOMAIN calls : Told(x, Hits(i, 1, c, calls[c].arguments, policy), r) <=>
          /\ Enabled(r, policy)
          /\ x \in {<<i, 1, c, s, IF policy.action[r] = "redact" THEN "block" ELSE policy.action[r]>> :
                        s \in Starts(calls[c].arguments, r)}
  <2> TAKE c \in DOMAIN calls
  <2>1. 1 \in Nat /\ Escalated(c, r, policy) = IF policy.action[r] = "redact" THEN "block" ELSE policy.action[r]
    BY <1>6 DEF Escalated
  <2>2. Told(x, Hits(i, 1, c, calls[c].arguments, policy), r) <=>
            /\ Enabled(r, policy)
            /\ \E s \in Starts(calls[c].arguments, r) : x = <<i, 1, c, s, Escalated(c, r, policy)>>
    BY <1>1, <1>6, <2>1, HitsTold
  <2>3. QED
    BY <2>1, <2>2
<1>9. Told(x, ContentHits(i, parts, policy), r) <=>
          \E p \in DOMAIN parts : Told(x, Hits(i, p, 0, parts[p], policy), r)
  BY DEF ContentHits, Told
<1>10. Told(x, CallHits(i, calls, policy), r) <=>
           \E c \in DOMAIN calls : Told(x, Hits(i, 1, c, calls[c].arguments, policy), r)
  BY DEF CallHits, Told
<1>11. Told(x, ContentHits(i, parts, policy), r) <=> Enabled(r, policy) /\ x \in TextPlaces(r, i)
  BY <1>3, <1>7, <1>9
<1>12. Told(x, CallHits(i, calls, policy), r) <=> Enabled(r, policy) /\ x \in CallPlaces(r, i)
  BY <1>4, <1>8, <1>10
<1>13. QED
  BY <1>11, <1>12 DEF parts, calls

LEMMA RecordedOccurrences ==
    ASSUME TypeOK, Turns, Range(events) = GivenHits, NEW r \in Patterns
    PROVE  Recorded(r) = IF policy.enabled /\ Enabled(r, policy) THEN Occurrences(r) ELSE {}
<1>1. \A x : x \in Recorded(r) <=> Told(x, GivenHits, r)
  BY DEF Recorded, Told, Place
<1>2. CASE ~policy.enabled
  BY <1>1, <1>2 DEF GivenHits, Told
<1>3. CASE policy.enabled
  <2>1. GivenHits = AllHits(guardrail, Given, policy)
    BY <1>3 DEF GivenHits
  <2>2. \A x : Told(x, GivenHits, r) <=>
            \E i \in DOMAIN Given : Told(x, MessageHits(guardrail, i, Given[i], policy), r)
    BY <2>1 DEF AllHits, Told
  <2>3. ASSUME NEW x, NEW i \in DOMAIN Given
        PROVE  Told(x, MessageHits(guardrail, i, Given[i], policy), r) <=>
                   Enabled(r, policy) /\ InScope(Given[i]) /\ x \in Places(r, i)
    <3> DEFINE content == ContentHits(i, Given[i].parts, policy)
               inCalls == CallHits(i, Given[i].calls, policy)
    <3>1. /\ Told(x, content, r) <=> Enabled(r, policy) /\ x \in TextPlaces(r, i)
          /\ Told(x, inCalls, r) <=> Enabled(r, policy) /\ x \in CallPlaces(r, i)
      BY MessageTold
    <3>2. guardrail \in {"prompt_injection", "output_leak"}
          /\ policy.scope \in {"all_messages", "user_messages_only"}
      BY Typing DEF TypeOK, Policies
    <3>3. MessageHits(guardrail, i, Given[i], policy) =
              IF InScope(Given[i])
              THEN content \cup IF guardrail = "prompt_injection" THEN {} ELSE inCalls
              ELSE {}
      BY <3>2 DEF MessageHits, InScope
    <3> HIDE DEF content, inCalls
    <3>4. Told(x, content \cup inCalls, r) <=> Told(x, content, r) \/ Told(x, inCalls, r)
      BY DEF Told
    <3>5. ~Told(x, {}, r)
      BY DEF Told
    <3>6. CASE ~InScope(Given[i])
      BY <3>3, <3>5, <3>6
    <3>7. CASE InScope(Given[i]) /\ guardrail = "prompt_injection"
      <4>1. MessageHits(guardrail, i, Given[i], policy) = content /\ Places(r, i) = TextPlaces(r, i)
        BY <3>3, <3>7 DEF Places
      <4>2. QED
        BY <3>1, <3>7, <4>1
    <3>8. CASE InScope(Given[i]) /\ guardrail # "prompt_injection"
      <4>1. /\ MessageHits(guardrail, i, Given[i], policy) = content \cup inCalls
            /\ Places(r, i) = TextPlaces(r, i) \cup CallPlaces(r, i)
        BY <3>3, <3>8 DEF Places
      <4>2. QED
        BY <3>1, <3>4, <3>8, <4>1
    <3>9. QED
      BY <3>6, <3>7, <3>8
  <2>4. \A x : x \in Recorded(r) <=> Enabled(r, policy) /\ x \in Occurrences(r)
    BY <1>1, <2>2, <2>3 DEF Occurrences
  <2>5. QED
    BY <1>3, <2>4
<1>4. QED
  BY <1>2, <1>3

\* Each match is logged once, with its own action, before anyone is answered
\* (_record_output_leak_matches), and a block is counted once.
THEOREM MatchesRecorded == Spec => []EveryMatchRecorded
<1>1. IInv => EveryMatchRecorded
  <2> SUFFICES ASSUME IInv PROVE EveryMatchRecorded
    OBVIOUS
  <2>1. TypeOK /\ Turns /\ Log /\ Sent
    BY DEF IInv
  <2>2. ASSUME stage \in {"done", "refused"} \/ (streaming /\ ~Live /\ sent # <<>>)
        PROVE  /\ IsInjective(events)
               /\ \A r \in Patterns :
                     Recorded(r) = IF policy.enabled /\ Enabled(r, policy) THEN Occurrences(r) ELSE {}
    <3>1. Scanned /\ pending = <<>>
      BY <2>1, <2>2 DEF Log, Sent, Scanned, TypeOK, Stages
    <3>2. events \o pending = Matches
      BY <2>1, <3>1 DEF Log
    <3>3. events \in Seq(MatchRecords)
      BY <2>1 DEF TypeOK
    <3>4. events = Matches
      BY <3>1, <3>2, <3>3, ConcatEmptySeq
    <3>5. IsInjective(events) /\ Range(events) = GivenHits
      BY <2>1, <3>4, MatchesScan DEF Scans
    <3>6. QED
      BY <2>1, <3>5, RecordedOccurrences
  <2>3. alerts = IF stage = "refused" THEN 1 ELSE 0
    BY <2>1 DEF Log
  <2>4. QED
    BY <2>2, <2>3 DEF EveryMatchRecorded
<1>2. QED
  BY <1>1, Invariant, PTL

(* Redaction: spans that overlap or touch are merged *)

LEMMA MergeFacts ==
    ASSUME NEW G \in Seq(MatchRecords), NEW m \in MatchRecords
    PROVE  /\ Merge(G, m) \in Seq(MatchRecords)
           /\ G # <<>> /\ m.start <= G[Len(G)].end =>
                  /\ Len(Merge(G, m)) = Len(G)
                  /\ \A k \in 1 .. Len(G) - 1 : Merge(G, m)[k] = G[k]
                  /\ Merge(G, m)[Len(G)].start = G[Len(G)].start
                  /\ Merge(G, m)[Len(G)].pattern = G[Len(G)].pattern
                  /\ Merge(G, m)[Len(G)].end = IF G[Len(G)].end < m.end THEN m.end ELSE G[Len(G)].end
           /\ G = <<>> \/ ~(m.start <= G[Len(G)].end) => Merge(G, m) = Append(G, m)
<1> DEFINE L == Len(G)
           H == Merge(G, m)
<1>1. L \in Nat /\ DOMAIN G = 1 .. L /\ Last(G) = G[L]
  BY DEF Last
<1>2. G # <<>> => L \in 1 .. L
  BY EmptySeq
<1>3. CASE G # <<>> /\ m.start <= G[L].end
  <2> DEFINE e == IF G[L].end < m.end THEN m.end ELSE G[L].end
             last == [G[L] EXCEPT !.end = e]
  <2>1. H = [G EXCEPT ![L] = last]
    BY <1>1, <1>3, Zenon DEF Merge
  <2>2. last \in MatchRecords /\ last.start = G[L].start /\ last.pattern = G[L].pattern /\ last.end = e
    <3>1. G[L] \in MatchRecords
      BY <1>1, <1>2, <1>3
    <3>2. QED
      BY <3>1 DEF MatchRecords
  <2> HIDE DEF last, e, L, H
  <2>3. DOMAIN H = 1 .. L /\ H[L] = last /\ \A k \in 1 .. L : k # L => H[k] = G[k]
    BY <1>1, <1>2, <1>3, <2>1
  <2>4. \A k \in 1 .. L : H[k] \in MatchRecords
    BY <1>1, <2>2, <2>3
  <2>5. H = [k \in 1 .. L |-> H[k]]
    BY <1>1, <2>1
  <2>6. H \in [1 .. L -> MatchRecords]
    BY <2>3, <2>4, <2>5
  <2>7. H \in Seq(MatchRecords) /\ Len(H) = L
    BY <1>1, <2>6, LenProperties
  <2>8. /\ Len(H) = L /\ \A k \in 1 .. L - 1 : H[k] = G[k]
        /\ H[L].start = G[L].start /\ H[L].pattern = G[L].pattern /\ H[L].end = e
    BY <1>1, <2>2, <2>3, <2>7
  <2>9. G # <<>> /\ m.start <= G[Len(G)].end
    BY <1>3 DEF L
  <2>10. QED
    BY <2>7, <2>8, <2>9 DEF e, L, H
<1>4. CASE G = <<>> \/ ~(m.start <= G[L].end)
  <2>1. H = Append(G, m)
    BY <1>1, <1>4 DEF Merge
  <2>2. Append(G, m) \in Seq(MatchRecords)
    BY AppendProperties
  <2>3. H \in Seq(MatchRecords)
    BY <2>1, <2>2
  <2> HIDE DEF H, L
  <2>4. ~(G # <<>> /\ m.start <= G[L].end)
    BY <1>4
  <2>5. QED
    BY <2>1, <2>3, <2>4, Zenon DEF H, L
<1>5. QED
  BY <1>3, <1>4

LEMMA MergeType ==
    ASSUME NEW G \in Seq(MatchRecords), NEW m \in MatchRecords
    PROVE  Merge(G, m) \in Seq(MatchRecords)
BY MergeFacts

LEMMA MergeFold ==
    ASSUME NEW ms \in Seq(MatchRecords)
    PROVE  \E f \in [0 .. Len(ms) -> Seq(MatchRecords)] :
              /\ f[0] = <<>>
              /\ \A k \in 1 .. Len(ms) : f[k] = Merge(f[k - 1], ms[k])
              /\ FoldLeft(Merge, <<>>, ms) = f[Len(ms)]
<1> DEFINE n == Len(ms)
           step == [k \in 1 .. n |-> [a \in Seq(MatchRecords) |-> Merge(a, ms[k])]]
           F(g) == [t \in SUBSET (1 .. n) |->
                       IF t = {} THEN <<>> ELSE Merge(g[t \ {Max(t)}], ms[Max(t)])]
           iter == CHOOSE g : g = F(g)
<1>1. n \in Nat /\ DOMAIN ms = 1 .. n /\ <<>> \in Seq(MatchRecords) /\ \A k \in 1 .. n : ms[k] \in MatchRecords
  BY EmptySeq
<1> HIDE DEF n
<1>2. \A k \in 1 .. n, a \in Seq(MatchRecords) : Merge(a, ms[k]) \in Seq(MatchRecords)
  BY <1>1, MergeType
<1>3. step \in [1 .. n -> [Seq(MatchRecords) -> Seq(MatchRecords)]]
  BY <1>2
<1>4. PICK g : Folding(n, Seq(MatchRecords), <<>>, step, g)
  <2> HIDE DEF step, F, iter
  <2> QED
    BY <1>1, <1>3, FoldExists
<1>5. \A t \in SUBSET (1 .. n) : t # {} => Max(t) \in 1 .. n /\ t \ {Max(t)} \in SUBSET (1 .. n)
  BY <1>1, MaxOfFinite
<1>6. g = F(g)
  <2>1. \A t \in SUBSET (1 .. n) : t # {} =>
            step[Max(t)][g[t \ {Max(t)}]] = Merge(g[t \ {Max(t)}], ms[Max(t)])
    <3>1. g \in [SUBSET (1 .. n) -> Seq(MatchRecords)]
      BY <1>4 DEF Folding
    <3>2. QED
      BY <1>5, <3>1
  <2> HIDE DEF step
  <2>2. QED
    BY <1>4, <2>1 DEF FoldStep, Folding
<1>7. iter = F(iter)
  <2> HIDE DEF F
  <2> QED
    BY <1>6, Zenon
<1>8. FoldLeft(Merge, <<>>, ms) = iter[1 .. n]
  BY <1>1, Zenon DEF FoldLeft, MapThenFoldSet
<1> HIDE DEF iter
<1>9. iter[{}] = <<>>
  <2>1. {} \in SUBSET (1 .. n)
    OBVIOUS
  <2>2. QED
    BY <1>7, <2>1
<1>10. ASSUME NEW k \in 1 .. n
       PROVE  iter[1 .. k] = Merge(iter[1 .. k - 1], ms[k])
  <2>1. 1 .. k \in SUBSET (1 .. n) /\ k \in Nat /\ k # 0
    BY <1>1
  <2>2. Max(1 .. k) = k /\ (1 .. k) \ {k} = 1 .. k - 1 /\ 1 .. k # {}
    BY <2>1, MaxOfInterval
  <2>3. iter[1 .. k] = F(iter)[1 .. k]
    BY <1>7, Zenon
  <2> HIDE DEF n
  <2>4. QED
    BY <2>1, <2>2, <2>3
<1>11. \A k \in 0 .. n : iter[1 .. k] \in Seq(MatchRecords)
  <2>1. FoldSteps(n, Seq(MatchRecords), <<>>, step, iter)
    BY <1>9, <1>10 DEF FoldSteps
  <2> HIDE DEF step, F
  <2>2. PrefixesIn(n, Seq(MatchRecords), iter)
    BY <1>1, <1>3, <2>1, FoldPrefixes
  <2>3. QED
    BY <2>2 DEF PrefixesIn
<1> DEFINE f == [k \in 0 .. n |-> iter[1 .. k]]
<1>12. f \in [0 .. n -> Seq(MatchRecords)]
  BY <1>11
<1>13. f[0] = <<>>
  <2>1. 1 .. 0 = {} /\ 0 \in 0 .. n
    BY <1>1
  <2>2. QED
    BY <1>9, <2>1
<1>14. ASSUME NEW k \in 1 .. n
       PROVE  f[k] = Merge(f[k - 1], ms[k])
  <2>1. k \in 0 .. n /\ k - 1 \in 0 .. n
    BY <1>1
  <2>2. f[k] = iter[1 .. k] /\ f[k - 1] = iter[1 .. k - 1]
    BY <2>1
  <2> HIDE DEF f
  <2>3. QED
    BY <1>10, <2>2
<1>15. FoldLeft(Merge, <<>>, ms) = f[n]
  <2>1. n \in 0 .. n
    BY <1>1
  <2>2. QED
    BY <1>8, <2>1
<1> HIDE DEF f
<1>16. QED
  BY <1>12, <1>13, <1>14, <1>15 DEF n

\* Spans in order: by their starts, and those of one start by their ends.
SpanOrdered(q) ==
    /\ \A k \in 1 .. Len(q) : q[k].start < q[k].end
    /\ \A k, l \in 1 .. Len(q) : k < l =>
           q[k].start <= q[l].start /\ (q[k].start = q[l].start => q[k].end <= q[l].end)

\* Character j is within one of the first m spans.
Within(q, m, j) == \E k \in 1 .. m : q[k].start < j /\ j <= q[k].end

\* What the first m spans are merged to.
MergedTo(q, m, G) ==
    /\ G \in Seq(MatchRecords)
    /\ G = <<>> => m = 0
    /\ \A k \in 1 .. Len(G) : G[k].start < G[k].end
    /\ \A k, l \in 1 .. Len(G) : k < l => G[k].end < G[l].start
    /\ \A j \in Nat : Within(G, Len(G), j) <=> Within(q, m, j)
    /\ \A k \in 1 .. Len(G) : \E f \in 1 .. m :
           /\ q[f].start = G[k].start /\ q[f].pattern = G[k].pattern
           /\ \A g \in 1 .. m : q[g].start = G[k].start => f <= g

\* One more span, taken in order, keeps what the merged spans cover.
LEMMA MergeStep ==
    ASSUME NEW q \in Seq(MatchRecords), SpanOrdered(q), NEW m \in Nat, m + 1 \in 1 .. Len(q),
           NEW G, MergedTo(q, m, G)
    PROVE  MergedTo(q, m + 1, Merge(G, q[m + 1]))
<1> DEFINE x == q[m + 1]
           n == m + 1
           L == Len(G)
           H == Merge(G, x)
<1>1. /\ G \in Seq(MatchRecords) /\ x \in MatchRecords
      /\ L \in Nat /\ n \in Nat /\ x = q[n]
      /\ \A k \in 1 .. L : G[k] \in MatchRecords
      /\ \A k \in 1 .. n : q[k] \in MatchRecords
  BY DEF MergedTo
<1>2. /\ G = <<>> => m = 0
      /\ \A k \in 1 .. L : G[k].start < G[k].end
      /\ \A k, l \in 1 .. L : k < l => G[k].end < G[l].start
      /\ \A j \in Nat : Within(G, L, j) <=> Within(q, m, j)
      /\ \A k \in 1 .. L : \E f \in 1 .. m :
             /\ q[f].start = G[k].start /\ q[f].pattern = G[k].pattern
             /\ \A g \in 1 .. m : q[g].start = G[k].start => f <= g
  BY DEF MergedTo
<1>3. /\ x.start < x.end
      /\ \A k \in 1 .. m : q[k].start <= x.start /\ q[k].start < q[k].end
  BY DEF SpanOrdered
<1>4. /\ x.start \in Nat /\ x.end \in Nat
      /\ \A k \in 1 .. L : G[k].start \in Nat /\ G[k].end \in Nat
      /\ \A k \in 1 .. n : q[k].start \in Nat /\ q[k].end \in Nat
  BY <1>1 DEF MatchRecords
<1>5. G # <<>> => L \in 1 .. L /\ L > 0
  BY <1>1, EmptySeq
<1>6. \A k \in 1 .. L : G[k].start <= x.start
  BY <1>2, <1>3
<1>7. \A j \in Nat : Within(q, n, j) <=> Within(q, m, j) \/ (x.start < j /\ j <= x.end)
  <2>1. \A k : k \in 1 .. n <=> k \in 1 .. m \/ k = n
    BY <1>1
  <2>2. QED
    BY <1>1, <2>1 DEF Within
<1>8. \A j \in Nat : (x.start < j /\ j <= x.end) => Within(q, n, j)
  BY <1>7
<1>9. CASE G # <<>> /\ x.start <= G[L].end
  <2>1. /\ H \in Seq(MatchRecords) /\ Len(H) = L
        /\ \A k \in 1 .. L - 1 : H[k] = G[k]
        /\ H[L].start = G[L].start
        /\ H[L].pattern = G[L].pattern
        /\ H[L].end = IF G[L].end < x.end THEN x.end ELSE G[L].end
    BY <1>1, <1>9, MergeFacts
  <2> HIDE DEF H, x, n, L
  <2>2. H[L].end \in Nat /\ G[L].end <= H[L].end /\ x.end <= H[L].end /\ (H[L].end = x.end \/ H[L].end = G[L].end)
    BY <1>4, <1>5, <1>9, <2>1
  <2>3. \A k \in 1 .. L : H[k].start = G[k].start /\ H[k].pattern = G[k].pattern /\ (k # L => H[k] = G[k])
    BY <1>1, <2>1
  <2>4. \A k \in 1 .. L : H[k].start < H[k].end
    <3>1. ASSUME NEW k \in 1 .. L, k # L
          PROVE  H[k].start < H[k].end
      BY <1>2, <2>3, <3>1
    <3>2. H[L].start < H[L].end
      BY <1>2, <1>4, <1>5, <1>9, <2>1, <2>2
    <3>3. QED
      BY <3>1, <3>2
  <2>5. \A k, l \in 1 .. L : k < l => H[k].end < H[l].start
    <3>1. \A k, l \in 1 .. L : k < l => k # L
      BY <1>1
    <3>2. QED
      BY <1>2, <2>3, <3>1
  <2>6. \A j \in Nat : Within(H, L, j) <=> Within(q, n, j)
    <3>1. ASSUME NEW j \in Nat, Within(H, L, j)
          PROVE  Within(G, L, j) \/ (x.start < j /\ j <= x.end)
      <4>1. PICK k \in 1 .. L : H[k].start < j /\ j <= H[k].end
        BY <3>1 DEF Within
      <4>2. CASE k # L
        BY <2>3, <4>1, <4>2 DEF Within
      <4>3. CASE k = L /\ j <= G[L].end
        BY <2>3, <4>1, <4>3 DEF Within
      <4>4. CASE k = L /\ ~(j <= G[L].end)
        BY <1>4, <1>9, <2>2, <4>1, <4>4
      <4>5. QED
        BY <4>2, <4>3, <4>4
    <3>2. ASSUME NEW j \in Nat, Within(G, L, j)
          PROVE  Within(H, L, j)
      <4>1. PICK k \in 1 .. L : G[k].start < j /\ j <= G[k].end
        BY <3>2 DEF Within
      <4>2. H[k].start < j /\ j <= H[k].end
        BY <1>4, <2>2, <2>3, <4>1
      <4>3. QED
        BY <4>2 DEF Within
    <3>3. ASSUME NEW j \in Nat, x.start < j, j <= x.end
          PROVE  Within(H, L, j)
      <4>1. H[L].start < j /\ j <= H[L].end
        BY <1>4, <1>5, <1>6, <1>9, <2>2, <2>3, <3>3
      <4>2. QED
        BY <1>5, <1>9, <4>1 DEF Within
    <3>4. QED
      BY <1>2, <1>7, <3>1, <3>2, <3>3
  <2>7. \A k \in 1 .. L : \E f \in 1 .. n :
            /\ q[f].start = H[k].start /\ q[f].pattern = H[k].pattern
            /\ \A g \in 1 .. n : q[g].start = H[k].start => f <= g
    <3> TAKE k \in 1 .. L
    <3>1. PICK f \in 1 .. m :
              /\ q[f].start = G[k].start /\ q[f].pattern = G[k].pattern
              /\ \A g \in 1 .. m : q[g].start = G[k].start => f <= g
      BY <1>2
    <3>2. f \in 1 .. n /\ \A g \in 1 .. n : g \in 1 .. m \/ f <= g
      BY DEF n
    <3>3. QED
      BY <2>3, <3>1, <3>2
  <2>8. H # <<>>
    BY <1>5, <1>9, <2>1, EmptySeq
  <2>9. MergedTo(q, n, H)
    BY <2>1, <2>4, <2>5, <2>6, <2>7, <2>8 DEF MergedTo
  <2>10. QED
    BY <2>9 DEF n, H, x
<1>10. CASE G = <<>> \/ ~(x.start <= G[L].end)
  <2>1. H = Append(G, x)
    BY <1>1, <1>10, MergeFacts
  <2>2. /\ H \in Seq(MatchRecords) /\ Len(H) = L + 1 /\ H[L + 1] = x
        /\ \A k \in 1 .. L : H[k] = G[k]
    BY <1>1, <2>1, AppendProperties
  <2> DEFINE N == L + 1
  <2>3. N \in Nat /\ \A k : k \in 1 .. N <=> k \in 1 .. L \/ k = N
    BY <1>1
  <2>4. Len(H) = N /\ H[N] = x /\ \A k \in 1 .. L : k < N
    BY <2>2
  <2> HIDE DEF H, x, n, L, N
  <2>5. \A k \in 1 .. L : G[k].end < x.start
    <3> TAKE k \in 1 .. L
    <3>1. G # <<>>
      BY <1>1, EmptySeq DEF L
    <3>2. ~(x.start <= G[L].end) /\ L \in 1 .. L
      BY <1>5, <1>10, <3>1
    <3>3. k = L \/ G[k].end < G[L].start
      BY <1>1, <1>2, <3>2
    <3>4. G[L].start < G[L].end
      BY <1>2, <3>2
    <3>5. QED
      BY <1>4, <3>2, <3>3, <3>4
  <2>6. \A k \in 1 .. N : H[k].start < H[k].end
    BY <1>2, <1>3, <2>2, <2>3, <2>4
  <2>7. \A k, l \in 1 .. N : k < l => H[k].end < H[l].start
    <3> TAKE k, l \in 1 .. N
    <3> HAVE k < l
    <3>1. k \in 1 .. L
      BY <1>1, <2>3 DEF N
    <3>2. CASE l \in 1 .. L
      BY <1>2, <2>2, <3>1, <3>2
    <3>3. CASE l = N
      BY <2>2, <2>4, <2>5, <3>1, <3>3
    <3>4. QED
      BY <2>3, <3>2, <3>3
  <2>8. \A j \in Nat : Within(H, N, j) <=> Within(q, n, j)
    <3> TAKE j \in Nat
    <3>1. Within(H, N, j) <=> Within(G, L, j) \/ (x.start < j /\ j <= x.end)
      BY <2>2, <2>3, <2>4 DEF Within
    <3>2. QED
      BY <1>2, <1>7, <3>1
  <2>9. \A k \in 1 .. N : \E f \in 1 .. n :
            /\ q[f].start = H[k].start /\ q[f].pattern = H[k].pattern
            /\ \A g \in 1 .. n : q[g].start = H[k].start => f <= g
    <3> TAKE k \in 1 .. N
    <3>1. CASE k \in 1 .. L
      <4>1. PICK f \in 1 .. m :
                /\ q[f].start = G[k].start /\ q[f].pattern = G[k].pattern
                /\ \A g \in 1 .. m : q[g].start = G[k].start => f <= g
        BY <1>2, <3>1
      <4>2. f \in 1 .. n /\ \A g \in 1 .. n : g \in 1 .. m \/ f <= g
        BY DEF n
      <4>3. QED
        BY <2>2, <3>1, <4>1, <4>2
    <3>2. CASE k = N
      <4>1. ASSUME NEW g \in 1 .. m, q[g].start = x.start
            PROVE  FALSE
        <5>1. g \in 1 .. n /\ x.start + 1 \in Nat
          BY <1>4 DEF n
        <5>2. q[g].start < x.start + 1 /\ x.start + 1 <= q[g].end
          BY <1>3, <1>4, <4>1, <5>1
        <5>3. Within(q, m, x.start + 1)
          BY <5>2 DEF Within
        <5>4. PICK i \in 1 .. L : G[i].start < x.start + 1 /\ x.start + 1 <= G[i].end
          BY <1>2, <5>1, <5>3 DEF Within
        <5>5. QED
          BY <1>4, <2>5, <5>4
      <4>2. n \in 1 .. n /\ \A g \in 1 .. n : g \in 1 .. m \/ n <= g
        BY DEF n
      <4>3. QED
        BY <1>1, <2>4, <3>2, <4>1, <4>2
    <3>3. QED
      BY <2>3, <3>1, <3>2
  <2>10. H # <<>>
    BY <1>1, <2>4, EmptySeq DEF N
  <2>11. MergedTo(q, n, H)
    BY <2>2, <2>4, <2>6, <2>7, <2>8, <2>9, <2>10 DEF MergedTo
  <2>12. QED
    BY <2>11 DEF n, H, x
<1>11. QED
  BY <1>9, <1>10

\* Merged spans cover the matched characters, and are apart.
LEMMA MergedSpans ==
    ASSUME NEW q \in Seq(MatchRecords), SpanOrdered(q)
    PROVE  MergedTo(q, Len(q), FoldLeft(Merge, <<>>, q))
<1> DEFINE n == Len(q)
<1>1. PICK f \in [0 .. n -> Seq(MatchRecords)] :
          /\ f[0] = <<>> /\ \A k \in 1 .. n : f[k] = Merge(f[k - 1], q[k])
          /\ FoldLeft(Merge, <<>>, q) = f[n]
  BY MergeFold
<1> DEFINE P == {m \in Nat : m <= n => MergedTo(q, m, f[m])}
<1>2. n \in Nat
  OBVIOUS
<1> HIDE DEF n
<1>3. 0 \in P
  <2>1. f[0] \in Seq(MatchRecords) /\ Len(f[0]) = 0 /\ f[0] = <<>>
    BY <1>1, EmptySeq
  <2>2. 1 .. 0 = {}
    OBVIOUS
  <2>3. MergedTo(q, 0, f[0])
    BY <2>1, <2>2 DEF MergedTo, Within
  <2>4. QED
    BY <2>3
<1>4. ASSUME NEW m \in Nat, m \in P
      PROVE  m + 1 \in P
  <2> SUFFICES ASSUME m + 1 <= n PROVE MergedTo(q, m + 1, f[m + 1])
    OBVIOUS
  <2>1. MergedTo(q, m, f[m]) /\ m + 1 \in 1 .. n /\ (m + 1) - 1 = m
    BY <1>2, <1>4
  <2>2. f[m + 1] = Merge(f[m], q[m + 1])
    <3> DEFINE k == m + 1
    <3>1. k \in 1 .. n /\ k - 1 = m
      BY <2>1
    <3> HIDE DEF k
    <3>2. f[k] = Merge(f[m], q[k])
      BY <1>1, <3>1
    <3>3. QED
      BY <3>2 DEF k
  <2> DEFINE G == f[m]
  <2> HIDE DEF G
  <2>3. MergedTo(q, m, G) /\ m + 1 \in 1 .. Len(q)
    BY <2>1 DEF G, n
  <2>4. MergedTo(q, m + 1, Merge(G, q[m + 1]))
    BY <2>3, MergeStep
  <2>5. QED
    BY <2>2, <2>4 DEF G
<1> HIDE DEF P
<1>5. Nat \subseteq P
  BY <1>3, <1>4, Induction
<1>6. n \in P
  BY <1>2, <1>5
<1>7. MergedTo(q, n, f[n])
  BY <1>2, <1>6 DEF P
<1>8. QED
  BY <1>1, <1>7 DEF n

(* Redaction: matches are sorted *)

\* Which of two positions comes first when matches are sorted.
SortOrder(ms) ==
    {ij \in Nat \X Nat : Before(ms[ij[1]], ms[ij[2]]) \/ (~Before(ms[ij[2]], ms[ij[1]]) /\ ij[1] < ij[2])}

\* No match starts later than the next one or, of one start, ends later; and of
\* equal spans the lower pattern comes first.
Arranged(q) ==
    \A k, l \in 1 .. Len(q) : k < l =>
        \/ Before(q[k], q[l])
        \/ q[k].start = q[l].start /\ q[k].end = q[l].end /\ q[k].pattern <= q[l].pattern

LEMMA SortIsOrdered ==
    ASSUME NEW ms \in Seq(MatchRecords)
    PROVE  Sorted(ms) = [k \in 1 .. Len(ms) |-> ms[Ordered(1 .. Len(ms), SortOrder(ms))[k]]]
<1> DEFINE S == 1 .. Len(ms)
           R == SortOrder(ms)
           Precedes(i, j) == Before(ms[i], ms[j]) \/ (~Before(ms[j], ms[i]) /\ i < j)
           order == InOrder(S, LAMBDA i, j : Before(ms[i], ms[j]) \/ (~Before(ms[j], ms[i]) /\ i < j))
<1>1. DOMAIN ms = S
  OBVIOUS
<1>2. Sorted(ms) = [k \in S |-> ms[order[k]]]
  BY <1>1, Zenon DEF Sorted
<1>3. \A x, y \in S : <<x, y>> \in R <=> Precedes(x, y)
  BY DEF SortOrder
<1>4. order = [k \in 1 .. Cardinality(S) |->
                   CHOOSE x \in S : Cardinality({y \in S : Precedes(y, x)}) = k - 1]
  BY Zenon DEF InOrder
<1> HIDE DEF R, S, order, Precedes
<1>5. order = Ordered(S, R)
  <2>1. \A x \in S : {y \in S : Precedes(y, x)} = {y \in S : <<y, x>> \in R}
    BY <1>3
  <2>2. \A k : (CHOOSE x \in S : Cardinality({y \in S : Precedes(y, x)}) = k - 1)
              = CHOOSE x \in S : Cardinality({y \in S : <<y, x>> \in R}) = k - 1
    <3> TAKE k
    <3>1. \A x : (x \in S /\ Cardinality({y \in S : Precedes(y, x)}) = k - 1)
              <=> (x \in S /\ Cardinality({y \in S : <<y, x>> \in R}) = k - 1)
      BY <2>1
    <3>2. QED
      BY <3>1, Zenon
  <2>3. Ordered(S, R)
            = [k \in 1 .. Cardinality(S) |-> CHOOSE x \in S : Cardinality({y \in S : <<y, x>> \in R}) = k - 1]
    BY DEF Ordered
  <2>4. QED
    BY <1>4, <2>2, <2>3, Zenon
<1>6. QED
  BY <1>2, <1>5 DEF S, R

LEMMA SortOrderIsStrict ==
    ASSUME NEW ms \in Seq(MatchRecords)
    PROVE  IsStrictOrder(SortOrder(ms), 1 .. Len(ms))
<1> DEFINE S == 1 .. Len(ms)
           R == SortOrder(ms)
           a == [i \in S |-> ms[i].start]
           b == [i \in S |-> ms[i].end]
<1>0. \A i \in S : i \in Nat /\ ms[i] \in MatchRecords
  OBVIOUS
<1>1. \A i \in S : i \in Nat /\ a[i] \in Nat /\ b[i] \in Nat
  BY <1>0 DEF MatchRecords
<1>2. \A x, y \in S : <<x, y>> \in R <=>
          \/ a[x] < a[y] \/ (a[x] = a[y] /\ b[x] < b[y])
          \/ ~(a[y] < a[x] \/ (a[y] = a[x] /\ b[y] < b[x])) /\ x < y
  BY DEF SortOrder, Before
<1> HIDE DEF S, R, a, b
<1>3. \A x \in S : <<x, x>> \notin R
  BY <1>1, <1>2
<1>4. ASSUME NEW x \in S, NEW y \in S, NEW z \in S, <<x, y>> \in R, <<y, z>> \in R
      PROVE  <<x, z>> \in R
  <2>1. a[x] < a[y] \/ (a[x] = a[y] /\ (b[x] < b[y] \/ (b[x] = b[y] /\ x < y)))
    BY <1>1, <1>2, <1>4
  <2>2. a[y] < a[z] \/ (a[y] = a[z] /\ (b[y] < b[z] \/ (b[y] = b[z] /\ y < z)))
    BY <1>1, <1>2, <1>4
  <2>3. a[x] < a[z] \/ (a[x] = a[z] /\ (b[x] < b[z] \/ (b[x] = b[z] /\ x < z)))
    BY <1>1, <2>1, <2>2
  <2>4. QED
    BY <1>1, <1>2, <2>3
<1>5. ASSUME NEW x \in S, NEW y \in S
      PROVE  x = y \/ <<x, y>> \in R \/ <<y, x>> \in R
  <2>1. CASE a[x] = a[y] /\ b[x] = b[y]
    BY <1>1, <1>2, <2>1
  <2>2. CASE a[x] < a[y] \/ (a[x] = a[y] /\ b[x] < b[y])
    BY <1>2, <2>2
  <2>3. CASE a[y] < a[x] \/ (a[y] = a[x] /\ b[y] < b[x])
    BY <1>2, <2>3
  <2>4. QED
    BY <1>1, <2>1, <2>2, <2>3
<1>6. IsStrictOrder(R, S)
  BY <1>3, <1>4, <1>5 DEF IsStrictOrder
<1>7. QED
  BY <1>6 DEF R, S

\* What redact_text sorts its matches to.
LEMMA SortedProperties ==
    ASSUME NEW ms \in Seq(MatchRecords)
    PROVE  /\ Sorted(ms) \in Seq(MatchRecords)
           /\ Len(Sorted(ms)) = Len(ms)
           /\ Range(Sorted(ms)) = Range(ms)
           /\ Related(PatternOrder, ms) => Arranged(Sorted(ms))
<1> DEFINE n == Len(ms)
           S == 1 .. n
           R == SortOrder(ms)
           order == Ordered(S, R)
           q == Sorted(ms)
<1>1. /\ n \in Nat /\ DOMAIN ms = S /\ \A i \in S : i \in Nat /\ ms[i] \in MatchRecords
  OBVIOUS
<1>2. IsFiniteSet(S) /\ Cardinality(S) = n
  BY <1>1, FS_Interval
<1>3. /\ order \in [S -> S]
      /\ \A x \in S : \E k \in S : order[k] = x
      /\ \A k, l \in S : k < l => <<order[k], order[l]>> \in R
  <2>1. IsStrictOrder(R, S)
    BY SortOrderIsStrict
  <2> HIDE DEF R
  <2>2. /\ order \in [1 .. Cardinality(S) -> S]
        /\ \A x \in S : \E k \in 1 .. Cardinality(S) : order[k] = x
        /\ \A k, l \in 1 .. Cardinality(S) : k < l => <<order[k], order[l]>> \in R
    <3> HIDE DEF S
    <3> QED
      BY <1>2, <2>1, OrderedProperties
  <2>3. QED
    BY <1>2, <2>2
<1>4. q = [k \in S |-> ms[order[k]]]
  BY SortIsOrdered
<1>5. \A i, j \in S : <<i, j>> \in R => Before(ms[i], ms[j]) \/ (~Before(ms[j], ms[i]) /\ i < j)
  BY DEF SortOrder
<1>6. Related(PatternOrder, ms) => \A i, j \in S : i < j => ms[i].pattern <= ms[j].pattern
  BY <1>1 DEF Related, PatternOrder
<1> HIDE DEF order, R, q
<1>7. /\ DOMAIN q = S /\ \A k \in S : q[k] = ms[order[k]] /\ order[k] \in S /\ q[k] \in MatchRecords
      /\ q = [k \in S |-> q[k]]
  BY <1>1, <1>3, <1>4
<1>8. q \in [S -> MatchRecords]
  BY <1>7
<1>9. q \in Seq(MatchRecords) /\ Len(q) = n
  BY <1>1, <1>8, LenProperties
<1> HIDE DEF n, S
<1>10. Range(q) = Range(ms)
  <2>1. \A x : x \in Range(q) <=> \E k \in S : x = q[k]
    BY <1>7 DEF Range
  <2>2. \A x : x \in Range(ms) <=> \E k \in S : x = ms[k]
    BY <1>1 DEF Range
  <2>3. \A x : (\E k \in S : x = q[k]) <=> \E k \in S : x = ms[k]
    BY <1>3, <1>7
  <2>4. QED
    BY <2>1, <2>2, <2>3
<1>11. ASSUME Related(PatternOrder, ms)
       PROVE  Arranged(q)
  <2>1. ASSUME NEW k \in S, NEW l \in S, k < l
        PROVE  \/ Before(q[k], q[l])
               \/ q[k].start = q[l].start /\ q[k].end = q[l].end /\ q[k].pattern <= q[l].pattern
    <3> DEFINE i == order[k]
               j == order[l]
    <3>1. i \in S /\ j \in S /\ q[k] = ms[i] /\ q[l] = ms[j] /\ <<i, j>> \in R
      BY <1>3, <1>7, <2>1
    <3> HIDE DEF i, j
    <3>2. CASE Before(ms[i], ms[j])
      BY <3>1, <3>2
    <3>3. CASE ~Before(ms[i], ms[j]) /\ ~Before(ms[j], ms[i]) /\ i < j
      <4>1. ms[i].start \in Nat /\ ms[j].start \in Nat /\ ms[i].end \in Nat /\ ms[j].end \in Nat
        BY <1>1, <3>1 DEF MatchRecords
      <4>2. ms[i].start = ms[j].start /\ ms[i].end = ms[j].end
        BY <3>3, <4>1 DEF Before
      <4>3. ms[i].pattern <= ms[j].pattern
        BY <1>6, <1>11, <3>1, <3>3
      <4>4. QED
        BY <3>1, <4>2, <4>3
    <3>4. QED
      BY <1>5, <3>1, <3>2, <3>3
  <2>2. S = 1 .. Len(q)
    BY <1>9 DEF S
  <2>3. QED
    BY <2>1, <2>2 DEF Arranged
<1>12. QED
  BY <1>9, <1>10, <1>11 DEF q, n

(* Redaction: what replaces a text's characters, one by one *)

\* What has become of the first j characters.
Pre(cells, j) == FlattenSeq(SubSeq(cells, 1, j))

LEMMA PreProperties ==
    ASSUME NEW S, NEW cells \in Seq(Seq(S))
    PROVE  /\ \A j \in 0 .. Len(cells) : Pre(cells, j) \in Seq(S)
           /\ Pre(cells, 0) = <<>>
           /\ Pre(cells, Len(cells)) = FlattenSeq(cells)
           /\ \A j \in 1 .. Len(cells) : Pre(cells, j) = Pre(cells, j - 1) \o cells[j]
<1>1. Len(cells) \in Nat
  OBVIOUS
<1>2. \A j \in 0 .. Len(cells) : SubSeq(cells, 1, j) \in Seq(Seq(S))
  BY SubSeqProperties
<1>3. \A j \in 0 .. Len(cells) : Pre(cells, j) \in Seq(S)
  BY <1>2, FlattenType DEF Pre
<1>4. Pre(cells, 0) = <<>>
  <2>1. SubSeq(cells, 1, 0) = <<>>
    BY SubSeqEmpty
  <2>2. QED
    BY <2>1, FlattenEmpty DEF Pre
<1>5. Pre(cells, Len(cells)) = FlattenSeq(cells)
  BY SubSeqFull DEF Pre
<1>6. ASSUME NEW j \in 1 .. Len(cells)
      PROVE  Pre(cells, j) = Pre(cells, j - 1) \o cells[j]
  <2> DEFINE before == SubSeq(cells, 1, j - 1)
             c == cells[j]
  <2>1. /\ before \in Seq(Seq(S)) /\ c \in Seq(S)
        /\ SubSeq(cells, 1, j) = Append(before, c)
    BY PrefixAppend
  <2> HIDE DEF before, c
  <2>2. FlattenSeq(Append(before, c)) = FlattenSeq(before) \o c
    BY <2>1, FlattenAppend
  <2>3. QED
    BY <2>1, <2>2 DEF before, c, Pre
<1>7. QED
  BY <1>3, <1>4, <1>5, <1>6

LEMMA PreCopied ==
    ASSUME NEW S, NEW text \in Seq(S), NEW cells \in Seq(Seq(S)), Len(cells) = Len(text),
           NEW a \in 0 .. Len(text), NEW b \in a .. Len(text),
           \A j \in a + 1 .. b : cells[j] = <<text[j]>>
    PROVE  Pre(cells, b) = Pre(cells, a) \o SubSeq(text, a + 1, b)
<1> DEFINE Good(i) == Pre(cells, i) = Pre(cells, a) \o SubSeq(text, a + 1, i)
           P == {d \in Nat : a + d <= b => Good(a + d)}
           n == Len(text)
<1>1. n \in Nat /\ a \in Nat /\ b \in Nat /\ b <= n /\ a <= b
  OBVIOUS
<1>2. Pre(cells, a) \in Seq(S)
  BY PreProperties
<1>3. 0 \in P
  <2>1. SubSeq(text, a + 1, a) = <<>>
    BY <1>1, SubSeqEmpty
  <2>2. Pre(cells, a) \o <<>> = Pre(cells, a)
    BY <1>2, ConcatEmptySeq
  <2>3. a + 0 = a
    BY <1>1
  <2>4. Good(a)
    BY <2>1, <2>2
  <2> HIDE DEF Good
  <2>5. QED
    BY <2>3, <2>4
<1> HIDE DEF Good
<1>4. ASSUME NEW d \in Nat, d \in P
      PROVE  d + 1 \in P
  <2> SUFFICES ASSUME a + (d + 1) <= b
               PROVE  Good(a + (d + 1))
    OBVIOUS
  <2> DEFINE i == a + d
             j == a + (d + 1)
             p == Pre(cells, a)
             s == SubSeq(text, a + 1, i)
             c == <<text[j]>>
  <2>1. j \in a + 1 .. b /\ j \in 1 .. Len(cells) /\ j - 1 = i /\ j \in a + 1 .. n /\ a + 1 \in 1 .. n
    BY <1>1
  <2>2. Pre(cells, i) = p \o s
    <3>1. Good(i)
      BY <1>1, <1>4
    <3>2. QED
      BY <3>1 DEF Good
  <2>3. cells[j] = c /\ Pre(cells, j) = Pre(cells, j - 1) \o cells[j]
    BY <2>1, PreProperties
  <2>4. SubSeq(text, a + 1, j) = s \o c
    <3>1. SubSeq(text, a + 1, j) = SubSeq(text, a + 1, j - 1) \o <<text[j]>>
      BY <2>1, SubSeqRecursiveSecond
    <3>2. QED
      BY <2>1, <3>1
  <2>5. p \in Seq(S) /\ s \in Seq(S) /\ c \in Seq(S)
    <3>1. s \in Seq(S)
      BY <1>1, <2>1, SubSeqProperties
    <3>2. c \in Seq(S)
      BY <2>1
    <3>3. QED
      BY <1>2, <3>1, <3>2
  <2> HIDE DEF i, j, p, s, c, P
  <2>6. (p \o s) \o c = p \o (s \o c)
    <3>1. Regrouped(S)
      BY Regrouping
    <3>2. QED
      BY <2>5, <3>1 DEF Regrouped
  <2>7. Pre(cells, j) = p \o SubSeq(text, a + 1, j)
    BY <2>1, <2>2, <2>3, <2>4, <2>6
  <2>8. QED
    BY <2>7 DEF j, p, Good
<1> HIDE DEF P
<1>5. Nat \subseteq P
  BY <1>3, <1>4, Induction
<1> DEFINE d == b - a
<1>6. d \in P /\ a + d = b
  BY <1>1, <1>5
<1> HIDE DEF d
<1>7. Good(a + d)
  BY <1>1, <1>6 DEF P
<1>8. QED
  BY <1>6, <1>7 DEF Good

LEMMA PreSkipped ==
    ASSUME NEW S, NEW cells \in Seq(Seq(S)),
           NEW a \in 0 .. Len(cells), NEW b \in a .. Len(cells),
           \A j \in a + 1 .. b : cells[j] = <<>>
    PROVE  Pre(cells, b) = Pre(cells, a)
<1> DEFINE P == {d \in Nat : a + d <= b => Pre(cells, a + d) = Pre(cells, a)}
           n == Len(cells)
<1>1. n \in Nat /\ a \in Nat /\ b \in Nat /\ b <= n /\ a <= b
  OBVIOUS
<1>2. Pre(cells, a) \in Seq(S)
  BY PreProperties
<1>3. 0 \in P
  BY <1>1
<1>4. ASSUME NEW d \in Nat, d \in P
      PROVE  d + 1 \in P
  <2> SUFFICES ASSUME a + (d + 1) <= b
               PROVE  Pre(cells, a + (d + 1)) = Pre(cells, a)
    OBVIOUS
  <2> DEFINE i == a + d
             j == a + (d + 1)
  <2>1. j \in a + 1 .. b /\ j \in 1 .. Len(cells) /\ j - 1 = i
    BY <1>1
  <2>2. Pre(cells, i) = Pre(cells, a)
    BY <1>1, <1>4
  <2>3. cells[j] = <<>> /\ Pre(cells, j) = Pre(cells, j - 1) \o cells[j]
    BY <2>1, PreProperties
  <2> HIDE DEF i, j
  <2>4. Pre(cells, a) \o <<>> = Pre(cells, a)
    BY <1>2, ConcatEmptySeq
  <2>5. QED
    BY <2>1, <2>2, <2>3, <2>4 DEF j
<1> HIDE DEF P
<1>5. Nat \subseteq P
  BY <1>3, <1>4, Induction
<1> DEFINE d == b - a
<1>6. d \in P /\ a + d = b
  BY <1>1, <1>5
<1> HIDE DEF d
<1>7. Pre(cells, a + d) = Pre(cells, a)
  BY <1>1, <1>6 DEF P
<1>8. QED
  BY <1>6, <1>7

\* Spans that are apart, within a text of n characters.
SpansApart(G, n) ==
    /\ G \in Seq(MatchRecords)
    /\ \A k \in 1 .. Len(G) : G[k].start < G[k].end /\ G[k].end <= n
    /\ \A k, l \in 1 .. Len(G) : k < l => G[k].end < G[l].start

\* Each character is left as it is, or replaced by its span's token, or dropped.
Rewrites(cells, text, G) ==
    /\ cells \in Seq(Seq(Int)) /\ Len(cells) = Len(text)
    /\ \A j \in 1 .. Len(text) :
          /\ ~Within(G, Len(G), j) => cells[j] = <<text[j]>>
          /\ \A k \in 1 .. Len(G) :
                /\ j = G[k].start + 1 => cells[j] = <<0 - G[k].pattern>>
                /\ G[k].start + 1 < j /\ j <= G[k].end => cells[j] = <<>>

\* Where span k ends.
Until(G, k) == IF k = 0 THEN 0 ELSE G[k].end

Piece(text, G, k) == Append(SubSeq(text, Until(G, k - 1) + 1, G[k].start), 0 - G[k].pattern)

LEMMA TextIsNumbers ==
    ASSUME NEW text \in Text
    PROVE  text \in Seq(Int) /\ Len(text) \in Nat /\ \A j \in 1 .. Len(text) : text[j] \in Nat /\ text[j] > 0
<1>1. text \in Seq(Letters) /\ Letters \subseteq Int
  BY DEF Text, Letters
<1>2. text \in Seq(Int)
  BY <1>1, SeqMonotonic
<1>3. QED
  BY <1>1, <1>2 DEF Letters

LEMMA RedactTextPieces ==
    ASSUME NEW text, NEW ms, NEW G \in Seq(MatchRecords), G = _merge_spans_with_tokens(ms)
    PROVE  redact_text(text, ms) =
               FlattenSeq([k \in 1 .. Len(G) |-> Piece(text, G, k)])
                   \o SubSeq(text, Until(G, Len(G)) + 1, Len(text))
<1> DEFINE cursor(k) == IF k = 1 THEN 0 ELSE G[k - 1].end
           pieces == [k \in DOMAIN G |-> Append(SubSeq(text, cursor(k) + 1, G[k].start), 0 - G[k].pattern)]
<1>1. redact_text(text, ms) = FlattenSeq(pieces) \o SubSeq(text, cursor(Len(G) + 1) + 1, Len(text))
  BY Zenon DEF redact_text
<1>2. DOMAIN G = 1 .. Len(G) /\ Len(G) \in Nat
  OBVIOUS
<1>3. \A k \in 1 .. Len(G) : cursor(k) = Until(G, k - 1)
  BY <1>2 DEF Until
<1>4. cursor(Len(G) + 1) = Until(G, Len(G))
  BY <1>2 DEF Until
<1>5. pieces = [k \in 1 .. Len(G) |-> Piece(text, G, k)]
  <2> HIDE DEF cursor
  <2> QED
    BY <1>2, <1>3 DEF Piece
<1> HIDE DEF pieces, cursor
<1>6. QED
  BY <1>1, <1>4, <1>5

LEMMA SplicedIsRewritten ==
    ASSUME NEW text \in Text, NEW ms, NEW G, G = _merge_spans_with_tokens(ms),
           SpansApart(G, Len(text)), NEW cells, Rewrites(cells, text, G)
    PROVE  redact_text(text, ms) = FlattenSeq(cells) /\ redact_text(text, ms) \in Seq(Int)
<1> DEFINE n == Len(text)
           L == Len(G)
           pieces == [k \in 1 .. L |-> Piece(text, G, k)]
           P == {k \in Nat : k <= L => Pre(pieces, k) = Pre(cells, Until(G, k))}
<1>1. /\ n \in Nat /\ L \in Nat /\ text \in Seq(Int) /\ G \in Seq(MatchRecords)
      /\ cells \in Seq(Seq(Int)) /\ Len(cells) = n
  BY TextIsNumbers DEF SpansApart, Rewrites
<1>2. \A k \in 1 .. L : /\ G[k].start \in Nat /\ G[k].end \in Nat /\ G[k].pattern \in Int
                        /\ G[k].start < G[k].end /\ G[k].end <= n
  <2>1. \A k \in 1 .. L : G[k] \in MatchRecords
    BY <1>1
  <2>2. QED
    BY <2>1 DEF SpansApart, MatchRecords
<1>3. \A k, l \in 1 .. L : k < l => G[k].end < G[l].start
  BY DEF SpansApart
<1>4. \A k \in 0 .. L : Until(G, k) \in 0 .. n
  BY <1>1, <1>2 DEF Until
<1>5. \A k \in 1 .. L : Until(G, k - 1) <= G[k].start
  <2> TAKE k \in 1 .. L
  <2>1. CASE k = 1
    BY <1>2, <2>1 DEF Until
  <2>2. CASE k # 1
    <3> DEFINE i == k - 1
    <3>1. i \in 1 .. L /\ i < k /\ i # 0
      BY <1>1, <2>2
    <3> HIDE DEF i
    <3>2. Until(G, i) = G[i].end /\ G[i].end < G[k].start
      BY <1>3, <3>1 DEF Until
    <3>3. G[i].end \in Nat /\ G[k].start \in Nat
      BY <1>2, <3>1
    <3>4. QED
      BY <3>2, <3>3 DEF i
  <2>3. QED
    BY <2>1, <2>2
<1>6. ASSUME NEW k \in 1 .. L
      PROVE  Piece(text, G, k) \in Seq(Int)
  <2> DEFINE a == Until(G, k - 1)
             s == SubSeq(text, a + 1, G[k].start)
             t == 0 - G[k].pattern
  <2>1. a \in 0 .. n /\ G[k].start \in 0 .. n /\ t \in Int
    BY <1>1, <1>2, <1>4
  <2>2. s \in Seq(Int)
    <3> HIDE DEF a, t
    <3>1. \A i \in a + 1 .. G[k].start : text[i] \in Int
      BY <1>1, <2>1
    <3>2. a + 1 \in Int /\ G[k].start \in Int
      BY <2>1
    <3>3. QED
      BY <3>1, <3>2, SubSeqProperties
  <2> HIDE DEF s, t
  <2>3. Append(s, t) \in Seq(Int)
    BY <2>1, <2>2, AppendProperties
  <2>4. QED
    BY <2>3 DEF Piece, s, t
<1>7. pieces \in Seq(Seq(Int)) /\ Len(pieces) = L
  <2> HIDE DEF L
  <2>1. pieces \in [1 .. L -> Seq(Int)]
    BY <1>6
  <2>2. QED
    BY <1>1, <2>1, LenProperties
\* Between two spans nothing changes.
<1>8. ASSUME NEW k \in 0 .. L, NEW b \in Until(G, k) .. n,
             \A l \in 1 .. L : k < l => b <= G[l].start
      PROVE  Pre(cells, b) = Pre(cells, Until(G, k)) \o SubSeq(text, Until(G, k) + 1, b)
  <2> DEFINE a == Until(G, k)
  <2>1. a \in 0 .. n /\ b \in a .. n
    BY <1>4
  <2>2. ASSUME NEW j \in a + 1 .. b
        PROVE  cells[j] = <<text[j]>>
    <3>1. j \in 1 .. n
      BY <2>1
    <3>2. ASSUME NEW l \in 1 .. L, G[l].start < j, j <= G[l].end
          PROVE  FALSE
      <4>1. CASE k < l
        BY <1>2, <1>8, <2>1, <3>2, <4>1
      <4>2. CASE ~(k < l)
        <5>1. k \in 1 .. L /\ a = G[k].end
          BY <1>1, <4>2 DEF Until
        <5>2. l = k \/ G[l].end < G[k].start
          BY <1>1, <1>3, <4>2, <5>1
        <5>3. G[l].end <= a
          BY <1>2, <5>1, <5>2
        <5> HIDE DEF a
        <5>4. QED
          BY <1>2, <2>1, <3>2, <5>3
      <4>3. QED
        BY <4>1, <4>2
    <3>3. ~Within(G, L, j)
      BY <3>2 DEF Within
    <3>4. QED
      BY <3>1, <3>3 DEF Rewrites
  <2> HIDE DEF a
  <2>3. Pre(cells, b) = Pre(cells, a) \o SubSeq(text, a + 1, b)
    BY <1>1, <2>1, <2>2, PreCopied
  <2>4. QED
    BY <2>3 DEF a
<1>9. 0 \in P
  <2>1. Pre(pieces, 0) = <<>> /\ Pre(cells, 0) = <<>>
    <3> HIDE DEF pieces
    <3> QED
      BY <1>1, <1>7, PreProperties
  <2>2. QED
    BY <2>1 DEF Until
<1>10. ASSUME NEW k \in Nat, k \in P
       PROVE  k + 1 \in P
  <2> DEFINE K == k + 1
  <2> SUFFICES ASSUME K <= L
               PROVE  Pre(pieces, K) = Pre(cells, Until(G, K))
    OBVIOUS
  <2> DEFINE a == Until(G, k)
             s == G[K].start
             e == G[K].end
             t == 0 - G[K].pattern
             mid == SubSeq(text, a + 1, s)
  <2>1. K \in 1 .. L /\ K - 1 = k /\ k \in 0 .. L /\ Until(G, K) = e /\ K \in Nat
    BY <1>1 DEF Until
  <2>2. Pre(pieces, k) = Pre(cells, a)
    BY <1>10, <2>1
  <2>3. a \in 0 .. n /\ a <= s /\ s \in Nat /\ e \in Nat /\ s < e /\ e <= n /\ t \in Int
    BY <1>2, <1>4, <1>5, <2>1
  <2>4. Pre(cells, s) = Pre(cells, a) \o mid
    <3>1. s \in a .. n
      BY <1>1, <2>3
    <3>2. \A l \in 1 .. L : k < l => s <= G[l].start
      <4> TAKE l \in 1 .. L
      <4> HAVE k < l
      <4>1. l = K \/ K < l
        BY <2>1
      <4>2. l = K \/ e < G[l].start
        BY <1>3, <2>1, <4>1
      <4>3. G[l].start \in Nat
        BY <1>2
      <4>4. QED
        BY <2>3, <4>2, <4>3
    <3> HIDE DEF s, K
    <3>3. QED
      BY <1>8, <2>1, <3>1, <3>2
  <2>5. Pre(cells, s + 1) = Pre(cells, s) \o <<t>>
    <3> DEFINE j == s + 1
    <3>1. j \in 1 .. n /\ j - 1 = s
      <4> HIDE DEF a, s, e, K
      <4> QED
        BY <1>1, <2>3
    <3>2. cells[j] = <<t>>
      BY <2>1, <3>1 DEF Rewrites
    <3> HIDE DEF j
    <3>3. Pre(cells, j) = Pre(cells, j - 1) \o cells[j]
      BY <1>1, <3>1, PreProperties
    <3>4. QED
      BY <3>1, <3>2, <3>3 DEF j
  <2>6. Pre(cells, e) = Pre(cells, s + 1)
    <3> DEFINE j == s + 1
    <3>1. j \in 0 .. Len(cells) /\ e \in j .. Len(cells)
      <4> HIDE DEF a, s, e, K
      <4> QED
        BY <1>1, <2>3
    <3>2. \A i \in j + 1 .. e : cells[i] = <<>>
      <4> TAKE i \in j + 1 .. e
      <4>1. i \in 1 .. n /\ s + 1 < i /\ i <= e
        <5> HIDE DEF a, s, e, K
        <5> QED
          BY <1>1, <2>3
      <4>2. QED
        BY <2>1, <4>1 DEF Rewrites
    <3> HIDE DEF j
    <3>3. Pre(cells, e) = Pre(cells, j)
      BY <1>1, <3>1, <3>2, PreSkipped
    <3>4. QED
      BY <3>3 DEF j
  <2>7. Pre(pieces, K) = Pre(pieces, k) \o Append(mid, t)
    <3>1. pieces[K] = Append(mid, t)
      BY <2>1 DEF Piece
    <3> HIDE DEF pieces, K
    <3>2. Pre(pieces, K) = Pre(pieces, K - 1) \o pieces[K]
      BY <1>7, <2>1, PreProperties
    <3>3. QED
      BY <2>1, <3>1, <3>2
  <2>8. Pre(cells, a) \in Seq(Int) /\ mid \in Seq(Int)
    <3>1. Pre(cells, a) \in Seq(Int)
      BY <1>1, <2>3, PreProperties
    <3>2. mid \in Seq(Int)
      <4> HIDE DEF a, s
      <4>1. \A i \in a + 1 .. s : text[i] \in Int
        BY <1>1, <2>3
      <4>2. a + 1 \in Int /\ s \in Int
        BY <2>3
      <4>3. QED
        BY <4>1, <4>2, SubSeqProperties
    <3>3. QED
      BY <3>1, <3>2
  <2> DEFINE p == Pre(cells, a)
  <2> HIDE DEF p, mid, t, s, e, K, pieces
  <2>9. p \o Append(mid, t) = Append(p \o mid, t) /\ Append(p \o mid, t) = (p \o mid) \o <<t>>
    <3>1. p \in Seq(Int) /\ p \o mid \in Seq(Int)
      BY <2>8, ConcatProperties DEF p
    <3>2. p \o Append(mid, t) = Append(p \o mid, t)
      <4>1. p \in Seq(Int) /\ mid \in Seq(Int) /\ t \in Int
        BY <2>3, <2>8, <3>1
      <4> HIDE DEF P
      <4>2. QED
        BY <4>1, ConcatAppend
    <3>3. Append(p \o mid, t) = (p \o mid) \o <<t>>
      BY <2>3, <3>1, AppendIsConcat
    <3>4. QED
      BY <3>2, <3>3
  <2>10. QED
    BY <2>1, <2>2, <2>4, <2>5, <2>6, <2>7, <2>9 DEF p
<1> HIDE DEF P
<1>11. Nat \subseteq P
  BY <1>9, <1>10, Induction
<1>12. Pre(pieces, L) = Pre(cells, Until(G, L))
  BY <1>1, <1>11 DEF P
<1>13. redact_text(text, ms) = FlattenSeq(pieces) \o SubSeq(text, Until(G, L) + 1, n)
  BY <1>1, RedactTextPieces
<1>14. FlattenSeq(pieces) = Pre(pieces, L) /\ FlattenSeq(cells) = Pre(cells, n)
  <2> HIDE DEF pieces, L
  <2> QED
    BY <1>1, <1>7, PreProperties
<1>15. Pre(cells, n) = Pre(cells, Until(G, L)) \o SubSeq(text, Until(G, L) + 1, n)
  <2>1. L \in 0 .. L /\ n \in Until(G, L) .. n /\ \A l \in 1 .. L : L < l => n <= G[l].start
    BY <1>1, <1>4
  <2> HIDE DEF n, L
  <2>2. QED
    BY <1>8, <2>1
<1>16. FlattenSeq(cells) \in Seq(Int)
  BY <1>1, FlattenType
<1> HIDE DEF pieces
<1>17. QED
  BY <1>12, <1>13, <1>14, <1>15, <1>16

(* Redaction: the spans merged are the stretches of matched characters *)

\* A match of pattern r after s characters, as the redaction sees it.
Spans(m, r, s) ==
    /\ m.start = s /\ m.end = s + Len(Words[r])
    /\ m.pattern = IF guardrail = "prompt_injection" THEN PromptToken ELSE r

\* All that is found in a text, in the order of the patterns.
MatchesOf(w, text) ==
    /\ w \in Seq(MatchRecords) /\ Related(PatternOrder, w)
    /\ \A m \in Range(w) : \E r \in Patterns, s \in Nat : Found(text, policy, r, s) /\ Spans(m, r, s)
    /\ \A r \in Patterns, s \in Nat : Found(text, policy, r, s) => \E m \in Range(w) : Spans(m, r, s)

LEMMA CoveringIsWithin ==
    ASSUME NEW text \in Text, NEW w, MatchesOf(w, text), NEW q \in Seq(MatchRecords),
           Range(q) = Range(w), NEW j \in Nat, j # 0
    PROVE  Covering(text, j) # {} <=> Within(q, Len(q), j)
<1>1. \A m : m \in Range(q) <=> \E k \in 1 .. Len(q) : m = q[k]
  BY RangeEquality
<1>2. ASSUME NEW c \in Covering(text, j)
      PROVE  Within(q, Len(q), j)
  <2>1. /\ c[1] \in Patterns /\ c[2] \in 0 .. j - 1 /\ Found(text, policy, c[1], c[2])
        /\ j <= c[2] + Len(Words[c[1]])
    BY <1>2 DEF Covering, Found
  <2>2. c[2] \in Nat /\ c[2] < j
    BY <2>1
  <2>3. PICK m \in Range(w) : Spans(m, c[1], c[2])
    BY <2>1, <2>2 DEF MatchesOf
  <2>4. PICK k \in 1 .. Len(q) : m = q[k]
    BY <1>1
  <2>5. q[k].start < j /\ j <= q[k].end
    BY <2>1, <2>2, <2>3, <2>4 DEF Spans
  <2>6. QED
    BY <2>5 DEF Within
<1>3. ASSUME NEW k \in 1 .. Len(q), q[k].start < j, j <= q[k].end
      PROVE  Covering(text, j) # {}
  <2>1. q[k] \in Range(w)
    BY <1>1
  <2>2. PICK r \in Patterns, s \in Nat : Found(text, policy, r, s) /\ Spans(q[k], r, s)
    BY <2>1 DEF MatchesOf
  <2>3. s < j /\ j <= s + Len(Words[r])
    BY <1>3, <2>2 DEF Spans
  <2>4. s \in 0 .. j - 1
    BY <2>3
  <2>5. <<r, s>> \in Covering(text, j)
    BY <2>2, <2>3, <2>4 DEF Covering, Found
  <2>6. QED
    BY <2>5
<1>4. QED
  BY <1>2, <1>3 DEF Within

\* The spans that a redaction hides.
LEMMA SpansOfMatches ==
    ASSUME NEW text \in Text, NEW w, MatchesOf(w, text)
    PROVE  /\ Sorted(w) \in Seq(MatchRecords) /\ Range(Sorted(w)) = Range(w)
           /\ Arranged(Sorted(w))
           /\ MergedTo(Sorted(w), Len(Sorted(w)), _merge_spans_with_tokens(w))
           /\ SpansApart(_merge_spans_with_tokens(w), Len(text))
<1> DEFINE q == Sorted(w)
           G == _merge_spans_with_tokens(w)
           n == Len(text)
<1>1. q \in Seq(MatchRecords) /\ Range(q) = Range(w) /\ Arranged(q)
  BY SortedProperties DEF MatchesOf
<1>2. G = FoldLeft(Merge, <<>>, q)
  BY DEF _merge_spans_with_tokens
<1>3. n \in Nat
  BY TextIsNumbers
<1> HIDE DEF q, G, n
<1>4. \A k \in 1 .. Len(q) : q[k] \in Range(w) /\ q[k] \in MatchRecords
  <2>1. \A k \in 1 .. Len(q) : q[k] \in Range(q)
    BY <1>1, RangeEquality
  <2>2. QED
    BY <1>1, <2>1
<1>5. \A k \in 1 .. Len(q) : /\ q[k].start \in Nat /\ q[k].end \in Nat
                             /\ q[k].start < q[k].end /\ q[k].end <= n
  <2> TAKE k \in 1 .. Len(q)
  <2>1. q[k].start \in Nat /\ q[k].end \in Nat
    BY <1>4 DEF MatchRecords
  <2>2. PICK r \in Patterns, s \in Nat : Found(text, policy, r, s) /\ Spans(q[k], r, s)
    BY <1>4 DEF MatchesOf
  <2>3. s + Len(Words[r]) <= n
    BY <2>2, FoundStarts DEF n
  <2>4. Len(Words[r]) \in Nat /\ Len(Words[r]) > 0
    BY WordFacts
  <2>5. QED
    BY <2>1, <2>2, <2>3, <2>4 DEF Spans
<1>6. SpanOrdered(q)
  <2>1. \A k, l \in 1 .. Len(q) : k < l =>
            q[k].start <= q[l].start /\ (q[k].start = q[l].start => q[k].end <= q[l].end)
    BY <1>1, <1>5 DEF Arranged, Before
  <2>2. QED
    BY <1>5, <2>1 DEF SpanOrdered
<1>7. MergedTo(q, Len(q), G)
  BY <1>1, <1>2, <1>6, MergedSpans
<1>8. SpansApart(G, n)
  <2>1. /\ G \in Seq(MatchRecords)
        /\ \A k \in 1 .. Len(G) : G[k].start < G[k].end
        /\ \A k, l \in 1 .. Len(G) : k < l => G[k].end < G[l].start
        /\ \A j \in Nat : Within(G, Len(G), j) <=> Within(q, Len(q), j)
    BY <1>7 DEF MergedTo
  <2>2. ASSUME NEW k \in 1 .. Len(G)
        PROVE  G[k].end <= n
    <3>1. G[k].start \in Nat /\ G[k].end \in Nat
      <4>1. G[k] \in MatchRecords
        BY <2>1
      <4>2. QED
        BY <4>1 DEF MatchRecords
    <3>2. Within(G, Len(G), G[k].end)
      BY <2>1, <3>1 DEF Within
    <3>3. PICK i \in 1 .. Len(q) : G[k].end <= q[i].end
      BY <2>1, <3>1, <3>2 DEF Within
    <3>4. QED
      BY <1>3, <1>5, <3>1, <3>3
  <2>3. QED
    BY <2>1, <2>2 DEF SpansApart
<1>9. QED
  BY <1>1, <1>7, <1>8 DEF q, G, n

\* The token of a span is that of the pattern which comes first at its start.
LEMMA TokenOfSpan ==
    ASSUME NEW text \in Text, NEW w, MatchesOf(w, text), NEW q \in Seq(MatchRecords),
           Range(q) = Range(w), Arranged(q), NEW s \in Nat, NEW f \in 1 .. Len(q), q[f].start = s,
           \A g \in 1 .. Len(q) : q[g].start = s => f <= g,
           s # 0 => ~Within(q, Len(q), s)
    PROVE  TokenOf(Covering(text, s + 1)) = 0 - q[f].pattern
<1> DEFINE cover == Covering(text, s + 1)
           best(c) == \A d \in cover :
                         \/ Len(Words[c[1]]) < Len(Words[d[1]])
                         \/ Len(Words[c[1]]) = Len(Words[d[1]]) /\ c[1] <= d[1]
<1>1. \A m : m \in Range(q) <=> \E k \in 1 .. Len(q) : m = q[k]
  BY RangeEquality
<1>2. PICK r \in Patterns, z \in Nat : Found(text, policy, r, z) /\ Spans(q[f], r, z)
  BY <1>1 DEF MatchesOf
<1>3. z = s
  BY <1>2 DEF Spans
<1>4. \A x \in Patterns : Len(Words[x]) \in Nat /\ Len(Words[x]) > 0 /\ x \in Nat
  BY WordFacts
<1>5. CASE guardrail = "prompt_injection"
  BY <1>2, <1>5 DEF Spans, TokenOf, PromptToken
<1>6. CASE guardrail # "prompt_injection"
  <2>1. <<r, s>> \in cover
    <3>1. s \in 0 .. (s + 1) - 1 /\ s + 1 <= s + Len(Words[r])
      BY <1>4
    <3>2. QED
      BY <1>2, <1>3, <3>1 DEF Covering, Found
  <2>2. ASSUME NEW d \in cover
        PROVE  \/ Len(Words[r]) < Len(Words[d[1]])
               \/ Len(Words[r]) = Len(Words[d[1]]) /\ r <= d[1]
    <3>1. /\ d[1] \in Patterns /\ d[2] \in 0 .. (s + 1) - 1 /\ Found(text, policy, d[1], d[2])
          /\ s + 1 <= d[2] + Len(Words[d[1]])
      BY <2>2 DEF Covering, Found
    <3>2. d[2] \in Nat /\ d[2] <= s
      BY <3>1
    <3>3. PICK m \in Range(w) : Spans(m, d[1], d[2])
      BY <3>1, <3>2 DEF MatchesOf
    <3>4. PICK g \in 1 .. Len(q) : m = q[g]
      BY <1>1
    <3>5. /\ q[g].start = d[2] /\ q[g].end = d[2] + Len(Words[d[1]]) /\ q[g].pattern = d[1]
      BY <1>6, <3>3, <3>4 DEF Spans
    <3>6. d[2] = s
      <4> SUFFICES ASSUME d[2] # s PROVE FALSE
        OBVIOUS
      <4>1. d[2] < s /\ s # 0 /\ s <= d[2] + Len(Words[d[1]])
        BY <1>4, <3>1, <3>2
      <4>2. Within(q, Len(q), s)
        BY <3>5, <4>1 DEF Within
      <4>3. QED
        BY <4>1, <4>2
    <3>7. f <= g
      BY <3>5, <3>6
    <3>8. /\ q[f].start = s /\ q[f].end = s + Len(Words[r]) /\ q[f].pattern = r
      BY <1>2, <1>3, <1>6 DEF Spans
    <3>9. f = g \/ f < g
      BY <3>7
    <3>10. CASE f = g
      BY <1>4, <3>1, <3>5, <3>8, <3>10
    <3>11. CASE f < g
      <4>1. \/ q[f].end < q[g].end
            \/ q[f].end = q[g].end /\ q[f].pattern <= q[g].pattern
        BY <3>5, <3>6, <3>8, <3>11 DEF Arranged, Before
      <4>2. Len(Words[r]) \in Nat /\ Len(Words[d[1]]) \in Nat
        BY <1>4, <3>1
      <4>3. QED
        BY <3>5, <3>6, <3>8, <4>1, <4>2
    <3>12. QED
      BY <3>9, <3>10, <3>11
  <2>3. best(<<r, s>>)
    BY <2>2
  <2>4. ASSUME NEW c \in cover, best(c)
        PROVE  c[1] = r
    <3>1. c[1] \in Patterns
      BY <2>4 DEF Covering
    <3>2. \/ Len(Words[c[1]]) < Len(Words[r])
          \/ Len(Words[c[1]]) = Len(Words[r]) /\ c[1] <= r
      BY <2>1, <2>4
    <3>3. \/ Len(Words[r]) < Len(Words[c[1]])
          \/ Len(Words[r]) = Len(Words[c[1]]) /\ r <= c[1]
      BY <2>2, <2>4
    <3>4. QED
      BY <1>4, <3>1, <3>2, <3>3
  <2> DEFINE first == CHOOSE c \in cover : best(c)
  <2>5. TokenOf(cover) = 0 - first[1]
    BY <1>6, Zenon DEF TokenOf
  <2>6. first \in cover /\ best(first)
    <3>1. \E c \in cover : best(c)
      BY <2>1, <2>3
    <3> HIDE DEF best, cover
    <3>2. QED
      BY <3>1
  <2> HIDE DEF first, best, cover
  <2>7. first[1] = r
    BY <2>4, <2>6
  <2>8. q[f].pattern = r
    BY <1>2, <1>6 DEF Spans
  <2>9. QED
    BY <2>5, <2>7, <2>8 DEF cover
<1>7. QED
  BY <1>5, <1>6

\* What replaces each character, by the definition of Redaction.
Cells(text) ==
    [j \in DOMAIN text |->
        IF Covering(text, j) = {} THEN <<text[j]>>
        ELSE IF j = 1 \/ Covering(text, j - 1) = {} THEN <<TokenOf(Covering(text, j))>>
        ELSE <<>>]

LEMMA RedactionCells ==
    ASSUME NEW text
    PROVE  Redaction(text) = FlattenSeq(Cells(text))
BY DEF Redaction, Cells

LEMMA CellsRewrite ==
    ASSUME NEW text \in Text, NEW w, MatchesOf(w, text)
    PROVE  Rewrites(Cells(text), text, _merge_spans_with_tokens(w))
<1> DEFINE q == Sorted(w)
           G == _merge_spans_with_tokens(w)
           n == Len(text)
           L == Len(G)
           cells == Cells(text)
<1>1. /\ q \in Seq(MatchRecords) /\ Range(q) = Range(w) /\ Arranged(q)
      /\ MergedTo(q, Len(q), G) /\ SpansApart(G, n)
  BY SpansOfMatches
<1>2. /\ n \in Nat /\ DOMAIN text = 1 .. n /\ \A j \in 1 .. n : text[j] \in Int
  BY TextIsNumbers
<1>3. cells = [j \in 1 .. n |->
                  IF Covering(text, j) = {} THEN <<text[j]>>
                  ELSE IF j = 1 \/ Covering(text, j - 1) = {} THEN <<TokenOf(Covering(text, j))>>
                  ELSE <<>>]
  BY <1>2 DEF Cells
<1> HIDE DEF q, G, n, cells
<1>4. /\ L \in Nat /\ \A k \in 1 .. L : G[k] \in MatchRecords
      /\ \A k \in 1 .. L : G[k].start < G[k].end /\ G[k].end <= n
      /\ \A k, l \in 1 .. L : k < l => G[k].end < G[l].start
      /\ \A j \in Nat : Within(G, L, j) <=> Within(q, Len(q), j)
      /\ \A k \in 1 .. L : \E f \in 1 .. Len(q) :
             /\ q[f].start = G[k].start /\ q[f].pattern = G[k].pattern
             /\ \A g \in 1 .. Len(q) : q[g].start = G[k].start => f <= g
  BY <1>1 DEF MergedTo, SpansApart
<1>5. \A k \in 1 .. L : G[k].start \in Nat /\ G[k].end \in Nat /\ G[k].pattern \in Int
  BY <1>4 DEF MatchRecords
<1>6. \A j \in Nat \ {0} : Covering(text, j) # {} <=> Within(G, L, j)
  BY <1>1, <1>4, CoveringIsWithin
<1> HIDE DEF L
\* Before a span there is a character that no match covers, or none at all.
<1>7. ASSUME NEW k \in 1 .. L
      PROVE  ~Within(G, L, G[k].start)
  <2> SUFFICES ASSUME NEW l \in 1 .. L, G[l].start < G[k].start, G[k].start <= G[l].end
               PROVE  FALSE
    BY DEF Within
  <2>1. k \in Nat /\ l \in Nat
    BY <1>4
  <2>2. /\ G[k].start \in Nat /\ G[k].end \in Nat /\ G[l].start \in Nat /\ G[l].end \in Nat
        /\ G[k].start < G[k].end
    BY <1>4, <1>5
  <2>3. k < l => G[k].end < G[l].start
    BY <1>4
  <2>4. l < k => G[l].end < G[k].start
    BY <1>4
  <2>5. k = l \/ k < l \/ l < k
    BY <2>1
  <2>6. QED
    BY <2>2, <2>3, <2>4, <2>5
<1>8. ASSUME NEW j \in 1 .. n, NEW k \in 1 .. L, j = G[k].start + 1
      PROVE  cells[j] = <<0 - G[k].pattern>>
  <2> DEFINE s == G[k].start
  <2>1. s \in Nat /\ s < G[k].end /\ j = s + 1 /\ j - 1 = s /\ j \in Nat \ {0}
    BY <1>4, <1>5, <1>8
  <2>2. j <= G[k].end
    BY <1>5, <2>1
  <2>3. Within(G, L, j)
    BY <2>1, <2>2 DEF Within
  <2>4. Covering(text, j) # {}
    BY <1>6, <2>1, <2>3
  <2>5. j = 1 \/ Covering(text, j - 1) = {}
    <3>1. CASE s = 0
      BY <2>1, <3>1
    <3>2. CASE s # 0
      <4>1. s \in Nat \ {0} /\ ~Within(G, L, s)
        BY <1>7, <2>1, <3>2
      <4>2. Covering(text, s) = {}
        BY <1>6, <4>1
      <4>3. QED
        BY <2>1, <4>2
    <3>3. QED
      BY <3>1, <3>2
  <2>6. TokenOf(Covering(text, s + 1)) = 0 - G[k].pattern
    <3>1. PICK f \in 1 .. Len(q) :
              /\ q[f].start = s /\ q[f].pattern = G[k].pattern
              /\ \A g \in 1 .. Len(q) : q[g].start = s => f <= g
      BY <1>4
    <3>2. s # 0 => ~Within(q, Len(q), s)
      BY <1>4, <1>7, <2>1
    <3> HIDE DEF s
    <3>3. TokenOf(Covering(text, s + 1)) = 0 - q[f].pattern
      BY <1>1, <2>1, <3>1, <3>2, TokenOfSpan
    <3>4. QED
      BY <3>1, <3>3
  <2> HIDE DEF s
  <2>7. TokenOf(Covering(text, j)) = 0 - G[k].pattern
    BY <2>1, <2>6
  <2>8. QED
    BY <1>3, <2>4, <2>5, <2>7
<1>9. ASSUME NEW j \in 1 .. n, NEW k \in 1 .. L, G[k].start + 1 < j, j <= G[k].end
      PROVE  cells[j] = <<>>
  <2> DEFINE i == j - 1
  <2>1. /\ i \in Nat \ {0} /\ j \in Nat \ {0} /\ j # 1
        /\ G[k].start < i /\ i <= G[k].end /\ G[k].start < j
    <3> DEFINE s == G[k].start
               e == G[k].end
    <3>1. s \in Nat /\ e \in Nat
      BY <1>5
    <3>2. s + 1 < j /\ j <= e /\ j \in Nat
      BY <1>2, <1>9
    <3> HIDE DEF s, e
    <3>3. /\ i \in Nat \ {0} /\ j \in Nat \ {0} /\ j # 1
          /\ s < i /\ i <= e /\ s < j
      BY <3>1, <3>2
    <3>4. QED
      BY <3>3 DEF s, e
  <2> HIDE DEF i
  <2>2. Covering(text, i) # {} /\ Covering(text, j) # {}
    BY <1>6, <1>9, <2>1 DEF Within
  <2>3. Covering(text, j - 1) # {}
    BY <2>2 DEF i
  <2>4. QED
    BY <1>3, <2>1, <2>2, <2>3
<1>10. ASSUME NEW j \in 1 .. n, ~Within(G, L, j)
       PROVE  cells[j] = <<text[j]>>
  <2>1. j \in Nat \ {0}
    BY <1>2
  <2>2. Covering(text, j) = {}
    BY <1>6, <1>10, <2>1
  <2>3. QED
    BY <1>3, <2>2
<1>11. ASSUME NEW j \in 1 .. n
       PROVE  cells[j] \in Seq(Int)
  <2>1. CASE ~Within(G, L, j)
    <3>1. cells[j] = <<text[j]>> /\ text[j] \in Int
      BY <1>2, <1>10, <2>1
    <3>2. QED
      BY <3>1
  <2>2. ASSUME NEW k \in 1 .. L, G[k].start < j, j <= G[k].end
        PROVE  cells[j] \in Seq(Int)
    <3>1. CASE j = G[k].start + 1
      <4> DEFINE t == 0 - G[k].pattern
      <4>1. t \in Int /\ cells[j] = <<t>>
        BY <1>5, <1>8, <3>1
      <4> HIDE DEF t
      <4>2. QED
        BY <4>1
    <3>2. CASE j # G[k].start + 1
      <4>1. G[k].start + 1 < j
        BY <1>2, <1>5, <2>2, <3>2
      <4>2. cells[j] = <<>>
        BY <1>9, <2>2, <4>1
      <4>3. QED
        BY <4>2, EmptySeq
    <3>3. QED
      BY <3>1, <3>2
  <2>3. QED
    BY <2>1, <2>2 DEF Within
<1>12. cells \in Seq(Seq(Int)) /\ Len(cells) = n
  <2>1. cells = [j \in 1 .. n |-> cells[j]]
    BY <1>3
  <2>2. cells \in [1 .. n -> Seq(Int)]
    BY <1>11, <2>1
  <2>3. QED
    BY <1>2, <2>2, LenProperties
<1>13. Rewrites(cells, text, G)
  BY <1>8, <1>9, <1>10, <1>12 DEF Rewrites, n, L
<1>14. QED
  BY <1>13 DEF cells, G

\* redact_text sorts and merges the spans of its matches and splices the text
\* from its end; that comes to what Redaction says, character by character.
THEOREM RedactTextIsRedaction ==
    ASSUME NEW text \in Text, NEW w, MatchesOf(w, text)
    PROVE  redact_text(text, w) = Redaction(text) /\ redact_text(text, w) \in Seq(Int)
<1> DEFINE G == _merge_spans_with_tokens(w)
           cells == Cells(text)
<1>1. SpansApart(G, Len(text))
  BY SpansOfMatches
<1>2. Rewrites(cells, text, G)
  BY CellsRewrite
<1>3. G = _merge_spans_with_tokens(w)
  OBVIOUS
<1> HIDE DEF G, cells
<1>4. redact_text(text, w) = FlattenSeq(cells) /\ redact_text(text, w) \in Seq(Int)
  BY <1>1, <1>2, <1>3, SplicedIsRewritten
<1>5. QED
  BY <1>4, RedactionCells DEF cells

(* The matches in one part of a message *)

InPart(p) == {m \in MatchRecords : m.call = 0 /\ m.part = p}
PartOf(ms, p) == Where(ms, LAMBDA m : m.call = 0 /\ m.part = p)
Tokens(ms) == Each(ms, LAMBDA m : [m EXCEPT !.pattern = PromptToken])

\* Of two matches in the same part, the pattern of the earlier one comes first.
PlacedOrder ==
    {mn \in MatchRecords \X MatchRecords :
        mn[1].call = 0 /\ mn[2].call = 0 /\ mn[1].part = mn[2].part => mn[1].pattern <= mn[2].pattern}

LEMMA PartIsKept ==
    ASSUME NEW ms \in Seq(MatchRecords), NEW p
    PROVE  PartOf(ms, p) = Kept(ms, InPart(p))
<1>1. \A j \in DOMAIN ms : ms[j] \in MatchRecords
  OBVIOUS
<1>2. \A j \in DOMAIN ms : ms[j] \in InPart(p) <=> ms[j].call = 0 /\ ms[j].part = p
  BY <1>1 DEF InPart
<1>3. [j \in DOMAIN ms |-> IF ms[j] \in InPart(p) THEN <<ms[j]>> ELSE <<>>]
          = [j \in DOMAIN ms |-> IF ms[j].call = 0 /\ ms[j].part = p THEN <<ms[j]>> ELSE <<>>]
  BY <1>2
<1>4. QED
  BY <1>3, Zenon DEF Kept, Where, PartOf

LEMMA RelatedMapped ==
    ASSUME NEW ms \in Seq(MatchRecords), NEW g \in [MatchRecords -> MatchRecords], NEW R, NEW Q,
           \A m, n \in MatchRecords : <<m, n>> \in R => <<g[m], g[n]>> \in Q, Related(R, ms)
    PROVE  Related(Q, [k \in DOMAIN ms |-> g[ms[k]]])
<1> DEFINE n == Len(ms)
           t == [k \in DOMAIN ms |-> g[ms[k]]]
<1>1. n \in Nat /\ DOMAIN ms = 1 .. n /\ \A k \in 1 .. n : ms[k] \in MatchRecords
  OBVIOUS
<1>2. Len(t) = n
  BY <1>1
<1>3. \A k \in 1 .. n : t[k] = g[ms[k]]
  BY <1>1
<1> HIDE DEF n, t
<1>4. Related(Q, t)
  <2> SUFFICES ASSUME NEW i \in 1 .. n, NEW j \in 1 .. n, i < j
               PROVE  <<t[i], t[j]>> \in Q
    BY <1>2 DEF Related
  <2>1. ms[i] \in MatchRecords /\ ms[j] \in MatchRecords /\ <<ms[i], ms[j]>> \in R
    BY <1>1 DEF Related, n
  <2>2. <<g[ms[i]], g[ms[j]]>> \in Q
    BY <2>1
  <2>3. QED
    BY <1>3, <2>2
<1>5. QED
  BY <1>4 DEF t

\* The calls' matches are in no part.
LEMMA CallsPlaced ==
    ASSUME NEW ms \in Seq(MatchRecords), \A m \in Range(ms) : m.call # 0
    PROVE  Related(PlacedOrder, ms)
<1>1. \A k \in 1 .. Len(ms) : ms[k] \in Range(ms) /\ ms[k] \in MatchRecords
  BY RangeEquality
<1>2. \A k, l \in 1 .. Len(ms) : <<ms[k], ms[l]>> \in PlacedOrder
  BY <1>1 DEF PlacedOrder
<1>3. QED
  BY <1>2 DEF Related

LEMMA ContentPlaced ==
    ASSUME NEW parts \in Seq(Text), NEW pol \in Policies
    PROVE  Related(PlacedOrder, scan_message_content(parts, pol))
<1> DEFINE n == Len(parts)
           scan(p) == Each(scan_text(parts[p], pol), LAMBDA m : [m EXCEPT !.part = p])
           seqs == [p \in 1 .. n |-> scan(p)]
<1>1. n \in Nat /\ DOMAIN parts = 1 .. n /\ \A p \in 1 .. n : parts[p] \in Text /\ p \in Nat
  OBVIOUS
<1> HIDE DEF n
<1>2. \A p \in 1 .. n : seqs[p] = scan(p)
  OBVIOUS
<1>3. ASSUME NEW p \in 1 .. n
      PROVE  /\ seqs[p] \in Seq(MatchRecords) /\ Range(seqs[p]) = Hits(1, p, 0, parts[p], pol)
             /\ Related(PlacedOrder, seqs[p])
  <2> DEFINE ms == scan_text(parts[p], pol)
             g == [m \in MatchRecords |-> [m EXCEPT !.part = p]]
  <2>1. parts[p] \in Text /\ p \in Nat
    BY <1>1
  <2>2. Scans(Each(scan_text(parts[p], pol), LAMBDA m : [m EXCEPT !.part = p]),
              Hits(1, p, 0, parts[p], pol))
    <3> DEFINE text == parts[p]
    <3>1. text \in Text
      BY <2>1
    <3> HIDE DEF text
    <3>2. Scans(Each(scan_text(text, pol), LAMBDA m : [m EXCEPT !.part = p]), Hits(1, p, 0, text, pol))
      BY <2>1, <3>1, ScansPart
    <3>3. QED
      BY <3>2 DEF text
  <2>3. ms \in Seq(MatchRecords) /\ Related(PatternOrder, ms)
    BY <2>1, ScanTextProperties
  <2>4. g \in [MatchRecords -> MatchRecords]
    BY <2>1 DEF MatchRecords
  <2>5. \A m, k \in MatchRecords : <<m, k>> \in PatternOrder => <<g[m], g[k]>> \in PlacedOrder
    <3> SUFFICES ASSUME NEW m \in MatchRecords, NEW k \in MatchRecords, <<m, k>> \in PatternOrder
                 PROVE  <<g[m], g[k]>> \in PlacedOrder
      OBVIOUS
    <3>1. g[m].pattern = m.pattern /\ g[k].pattern = k.pattern
      BY DEF MatchRecords
    <3>2. m.pattern <= k.pattern
      BY DEF PatternOrder
    <3>3. g[m] \in MatchRecords /\ g[k] \in MatchRecords
      BY <2>4
    <3> HIDE DEF g
    <3>4. QED
      BY <3>1, <3>2, <3>3 DEF PlacedOrder
  <2>6. \A k \in DOMAIN ms : g[ms[k]] = [ms[k] EXCEPT !.part = p]
    BY <2>3
  <2> HIDE DEF g
  <2>7. Related(PlacedOrder, [k \in DOMAIN ms |-> g[ms[k]]])
    BY <2>3, <2>4, <2>5, RelatedMapped
  <2>8. scan(p) = [k \in DOMAIN ms |-> g[ms[k]]]
    BY <2>6, Zenon DEF Each
  <2>9. Scans(scan(p), Hits(1, p, 0, parts[p], pol))
    BY <2>2
  <2> HIDE DEF scan, ms
  <2>10. QED
    BY <2>7, <2>8, <2>9 DEF Scans
<1>4. scan_message_content(parts, pol) = FlattenSeq(seqs)
  BY <1>1, Zenon DEF scan_message_content
<1>5. DOMAIN seqs = 1 .. n
  OBVIOUS
<1>6. seqs = [p \in 1 .. n |-> seqs[p]]
  OBVIOUS
<1> HIDE DEF seqs
<1>7. seqs \in Seq(Seq(MatchRecords)) /\ Len(seqs) = n
  <2>1. seqs \in [1 .. n -> Seq(MatchRecords)]
    BY <1>3, <1>6
  <2>2. QED
    BY <1>1, <2>1
<1>8. RelatedAcross(PlacedOrder, seqs)
  <2> SUFFICES ASSUME NEW k \in 1 .. n, NEW l \in 1 .. n, k < l,
                      NEW x \in Range(seqs[k]), NEW y \in Range(seqs[l])
               PROVE  <<x, y>> \in PlacedOrder
    BY <1>7 DEF RelatedAcross
  <2>1. x \in Hits(1, k, 0, parts[k], pol) /\ y \in Hits(1, l, 0, parts[l], pol)
    BY <1>3
  <2>2. x \in MatchRecords /\ y \in MatchRecords /\ x.part = k /\ y.part = l
    BY <2>1 DEF Hits, MatchAt
  <2>3. x.part # y.part
    BY <2>2
  <2>4. QED
    BY <2>2, <2>3 DEF PlacedOrder
<1>9. QED
  BY <1>3, <1>4, <1>7, <1>8, FlattenRelated

\* What is said of the matches of message 1 holds of those of message i.
LEMMA PlacedMessage ==
    ASSUME NEW ms \in Seq(MatchRecords), Related(PlacedOrder, ms), NEW i \in Nat
    PROVE  Related(PlacedOrder, Each(ms, LAMBDA m : [m EXCEPT !.message = i]))
<1> DEFINE g == [m \in MatchRecords |-> [m EXCEPT !.message = i]]
<1>1. g \in [MatchRecords -> MatchRecords]
  BY DEF MatchRecords
<1>2. \A m, k \in MatchRecords : <<m, k>> \in PlacedOrder => <<g[m], g[k]>> \in PlacedOrder
  <2> SUFFICES ASSUME NEW m \in MatchRecords, NEW k \in MatchRecords, <<m, k>> \in PlacedOrder
               PROVE  <<g[m], g[k]>> \in PlacedOrder
    OBVIOUS
  <2>1. /\ g[m].pattern = m.pattern /\ g[k].pattern = k.pattern
        /\ g[m].call = m.call /\ g[k].call = k.call
        /\ g[m].part = m.part /\ g[k].part = k.part
    BY DEF MatchRecords
  <2>2. g[m] \in MatchRecords /\ g[k] \in MatchRecords
    BY <1>1
  <2> HIDE DEF g
  <2>3. QED
    BY <2>1, <2>2 DEF PlacedOrder
<1>3. \A k \in DOMAIN ms : g[ms[k]] = [ms[k] EXCEPT !.message = i]
  OBVIOUS
<1> HIDE DEF g
<1>4. Related(PlacedOrder, [k \in DOMAIN ms |-> g[ms[k]]])
  BY <1>1, <1>2, RelatedMapped
<1>5. Each(ms, LAMBDA m : [m EXCEPT !.message = i]) = [k \in DOMAIN ms |-> g[ms[k]]]
  BY <1>3, Zenon DEF Each
<1>6. QED
  BY <1>4, <1>5

LEMMA AnswerPlaced ==
    ASSUME NEW message, IsMessage(message), NEW pol \in Policies
    PROVE  LET ms == scan_message_content(message.parts, pol) \o scan_tool_calls(message.calls, pol) IN
           ms \in Seq(MatchRecords) /\ Related(PlacedOrder, ms)
<1> DEFINE s == scan_message_content(message.parts, pol)
           t == scan_tool_calls(message.calls, pol)
<1>1. Scans(s, ContentHits(1, message.parts, pol)) /\ Related(PlacedOrder, s)
  BY ScansContent, ContentPlaced DEF IsMessage
<1>2. Scans(t, CallHits(1, message.calls, pol))
  BY ScansCalls DEF IsMessage
<1> HIDE DEF s, t
<1>3. s \in Seq(MatchRecords) /\ \A m \in Range(s) : m \in MatchRecords /\ m.call = 0
  <2>1. s \in Seq(MatchRecords) /\ \A m \in Range(s) : m.call = 0
    BY <1>1, ContentMessage DEF Scans
  <2>2. QED
    BY <2>1, RangeOfSeq
<1>4. t \in Seq(MatchRecords) /\ \A m \in Range(t) : m \in MatchRecords /\ m.call # 0
  <2>1. t \in Seq(MatchRecords) /\ \A m \in Range(t) : m.call # 0
    BY <1>2, HitsApart DEF Scans, IsMessage
  <2>2. QED
    BY <2>1, RangeOfSeq
<1>5. Related(PlacedOrder, t)
  BY <1>4, CallsPlaced
<1>6. \A x \in Range(s), y \in Range(t) : <<x, y>> \in PlacedOrder
  BY <1>3, <1>4 DEF PlacedOrder
<1>7. Related(PlacedOrder, s \o t) /\ s \o t \in Seq(MatchRecords)
  BY <1>1, <1>3, <1>4, <1>5, <1>6, RelatedConcat
<1>8. QED
  BY <1>7 DEF s, t

\* Of each message, as the results give them.
LEMMA RequestPlaced ==
    ASSUME NEW ms \in Seq(Messages), NEW pol \in Policies, NEW i \in DOMAIN ms
    PROVE  Related(PlacedOrder, scan_request(ms, pol)[i])
<1> DEFINE found == scan_message_content(ms[i].parts, pol)
<1>1. i \in Nat /\ ms[i] \in Messages
  OBVIOUS
<1>2. IsMessage(ms[i])
  BY <1>1, MessageFacts
<1>3. scan_request(ms, pol)[i] = IF pol.scope = "user_messages_only" /\ ms[i].role # "user" THEN <<>>
                                 ELSE Each(found, LAMBDA m : [m EXCEPT !.message = i])
  BY DEF scan_request
<1>4. found \in Seq(MatchRecords) /\ Related(PlacedOrder, found)
  BY <1>2, ScansContent, ContentPlaced DEF IsMessage, Scans
<1>5. Related(PlacedOrder, <<>>)
  BY EmptySeq DEF Related
<1> HIDE DEF found
<1>6. Related(PlacedOrder, Each(found, LAMBDA m : [m EXCEPT !.message = i]))
  BY <1>1, <1>4, PlacedMessage
<1>7. QED
  BY <1>3, <1>5, <1>6

LEMMA ResponsePlaced ==
    ASSUME NEW ms, NEW pol \in Policies, NEW i \in DOMAIN ms, i \in Nat, IsMessage(ms[i])
    PROVE  Related(PlacedOrder, scan_response(ms, pol)[i])
<1> DEFINE found == scan_message_content(ms[i].parts, pol) \o scan_tool_calls(ms[i].calls, pol)
<1>1. scan_response(ms, pol)[i] = Each(found, LAMBDA m : [m EXCEPT !.message = i])
  BY DEF scan_response
<1>2. found \in Seq(MatchRecords) /\ Related(PlacedOrder, found)
  BY AnswerPlaced
<1> HIDE DEF found
<1>3. Related(PlacedOrder, Each(found, LAMBDA m : [m EXCEPT !.message = i]))
  BY <1>2, PlacedMessage
<1>4. QED
  BY <1>1, <1>3

\* A message's matches in a part are all that is found in it.
LEMMA HitsInPart ==
    ASSUME NEW g, NEW i \in Nat, NEW message, IsMessage(message), NEW pol \in Policies,
           NEW p \in DOMAIN message.parts,
           ~(g = "prompt_injection" /\ pol.scope = "user_messages_only" /\ message.role # "user")
    PROVE  MessageHits(g, i, message, pol) \cap InPart(p) = Hits(i, p, 0, message.parts[p], pol)
<1> DEFINE C == ContentHits(i, message.parts, pol)
           D == CallHits(i, message.calls, pol)
           H == Hits(i, p, 0, message.parts[p], pol)
<1>1. MessageHits(g, i, message, pol) \in {C, C \cup D}
  BY DEF MessageHits
<1>2. \A m \in D : m.call # 0
  BY HitsApart DEF IsMessage
<1>3. \A m \in C : \E q \in DOMAIN message.parts : m \in Hits(i, q, 0, message.parts[q], pol)
  BY DEF ContentHits
<1>4. \A q, m : m \in Hits(i, q, 0, message.parts[q], pol) => m \in MatchRecords /\ m.part = q /\ m.call = 0
  BY DEF Hits, MatchAt
<1>5. H \subseteq C /\ H \subseteq InPart(p)
  <2>1. H \subseteq C
    BY DEF ContentHits
  <2>2. H \subseteq InPart(p)
    BY <1>4 DEF InPart
  <2>3. QED
    BY <2>1, <2>2
<1>6. \A m \in C : m \in InPart(p) => m \in H
  BY <1>3, <1>4 DEF InPart
<1>7. \A m \in D : m \notin InPart(p)
  BY <1>2 DEF InPart
<1> HIDE DEF C, D, H
<1>8. MessageHits(g, i, message, pol) \cap InPart(p) = H
  BY <1>1, <1>5, <1>6, <1>7
<1>9. QED
  BY <1>8 DEF H

LEMMA TokenFacts ==
    ASSUME NEW n \in MatchRecords
    PROVE  LET m == [n EXCEPT !.pattern = PromptToken] IN
           /\ m.pattern = PromptToken /\ m.start = n.start /\ m.end = n.end
           /\ m.part = n.part /\ m.call = n.call /\ m \in MatchRecords
<1> DEFINE t == PromptToken
<1>1. t \in Int
  BY DEF PromptToken
<1> HIDE DEF t
<1> DEFINE m == [n EXCEPT !.pattern = t]
<1>2. /\ m.pattern = t /\ m.start = n.start /\ m.end = n.end
      /\ m.part = n.part /\ m.call = n.call /\ m \in MatchRecords
  BY <1>1 DEF MatchRecords
<1>3. QED
  BY <1>2 DEF t

LEMMA PartMatches ==
    ASSUME NEW ms \in Seq(MatchRecords), Related(PlacedOrder, ms), NEW i \in Nat, NEW p \in Nat,
           NEW text, Range(ms) \cap InPart(p) = Hits(i, p, 0, text, policy), policy \in Policies
    PROVE  /\ guardrail # "prompt_injection" => MatchesOf(PartOf(ms, p), text)
           /\ guardrail = "prompt_injection" => MatchesOf(PartOf(Tokens(ms), p), text)
<1> DEFINE w == Kept(ms, InPart(p))
           H == Hits(i, p, 0, text, policy)
           u == Tokens(ms)
           v == Kept(u, InPart(p))
<1>1. PartOf(ms, p) = w
  BY PartIsKept
<1>2. w \in Seq(MatchRecords) /\ Range(w) = H /\ Related(PlacedOrder, w)
  BY KeptProperties
<1>3. \A m \in H : m \in MatchRecords /\ m.part = p /\ m.call = 0
  BY DEF Hits, MatchAt
<1>4. \A m \in H : \E r \in Patterns, s \in Nat : /\ Found(text, policy, r, s)
                                                 /\ m.start = s /\ m.end = s + Len(Words[r])
                                                 /\ m.pattern = r
  BY DEF Hits, MatchAt
<1>5. \A r \in Patterns, s \in Nat : Found(text, policy, r, s) =>
          \E m \in H : m.start = s /\ m.end = s + Len(Words[r]) /\ m.pattern = r
  <2> TAKE r \in Patterns, s \in Nat
  <2> HAVE Found(text, policy, r, s)
  <2>1. MatchAt(i, p, 0, r, s, policy) \in H
    BY MatchAtType DEF Hits
  <2> HIDE DEF H
  <2>2. QED
    BY <2>1 DEF MatchAt
<1> HIDE DEF w, H
<1>6. guardrail # "prompt_injection" => MatchesOf(w, text)
  <2>1. \A k \in 1 .. Len(w) : w[k] \in Range(w)
    BY <1>2, RangeEquality
  <2>2. Related(PatternOrder, w)
    <3> SUFFICES ASSUME NEW k \in 1 .. Len(w), NEW l \in 1 .. Len(w), k < l
                 PROVE  <<w[k], w[l]>> \in PatternOrder
      BY DEF Related
    <3>1. <<w[k], w[l]>> \in PlacedOrder
      BY <1>2 DEF Related
    <3>2. w[k] \in H /\ w[l] \in H
      BY <1>2, <2>1
    <3>3. QED
      BY <1>3, <3>1, <3>2 DEF PlacedOrder, PatternOrder
  <2>3. QED
    BY <1>2, <1>4, <1>5, <2>2 DEF MatchesOf, Spans
<1>7. \A k \in DOMAIN ms : ms[k] \in MatchRecords /\ ms[k] \in Range(ms)
  BY RangeEquality
<1>8. u = [k \in DOMAIN ms |-> [ms[k] EXCEPT !.pattern = PromptToken]]
  BY Zenon DEF Tokens, Each
<1>9. u \in Seq(MatchRecords) /\ Len(u) = Len(ms) /\ DOMAIN u = DOMAIN ms
  <2>1. \A m \in MatchRecords : [m EXCEPT !.pattern = PromptToken] \in MatchRecords
    BY TokenFacts
  <2>2. u \in [DOMAIN ms -> MatchRecords]
    BY <1>7, <1>8, <2>1
  <2> HIDE DEF u
  <2>3. QED
    BY <2>2
<1>10. PartOf(u, p) = v
  BY <1>9, PartIsKept
<1> HIDE DEF u
<1>11. v \in Seq(MatchRecords) /\ Range(v) = Range(u) \cap InPart(p)
  BY <1>9, KeptProperties
<1>12. \A m : m \in Range(u) <=> \E n \in Range(ms) : m = [n EXCEPT !.pattern = PromptToken]
  BY <1>7, <1>8, <1>9 DEF Range
<1>13. \A n \in Range(ms) : n \in MatchRecords
  BY RangeOfSeq
<1>14. \A n \in MatchRecords : LET m == [n EXCEPT !.pattern = PromptToken] IN
           /\ m.pattern = PromptToken /\ m.start = n.start /\ m.end = n.end
           /\ m.part = n.part /\ m.call = n.call /\ m \in MatchRecords
  BY TokenFacts
<1>15. \A m : m \in Range(v) <=> \E n \in H : m = [n EXCEPT !.pattern = PromptToken]
  <2> TAKE m
  <2>1. ASSUME m \in Range(v)
        PROVE  \E n \in H : m = [n EXCEPT !.pattern = PromptToken]
    <3>1. PICK n \in Range(ms) : m = [n EXCEPT !.pattern = PromptToken]
      BY <1>11, <1>12, <2>1
    <3>2. n \in MatchRecords /\ m \in InPart(p)
      BY <1>11, <1>13, <2>1
    <3>3. n.part = m.part /\ n.call = m.call
      BY <1>14, <3>1, <3>2
    <3>4. n \in InPart(p)
      BY <3>2, <3>3 DEF InPart
    <3>5. QED
      BY <3>1, <3>4 DEF H
  <2>2. ASSUME NEW n \in H, m = [n EXCEPT !.pattern = PromptToken]
        PROVE  m \in Range(v)
    <3>1. n \in Range(ms) /\ n.part = p /\ n.call = 0 /\ n \in MatchRecords
      BY <1>3 DEF H
    <3>2. m \in MatchRecords /\ m.part = p /\ m.call = 0
      BY <1>14, <2>2, <3>1
    <3>3. m \in Range(u)
      BY <1>12, <2>2, <3>1
    <3>4. QED
      BY <1>11, <3>2, <3>3 DEF InPart
  <2>3. QED
    BY <2>1, <2>2
<1>16. guardrail = "prompt_injection" => MatchesOf(v, text)
  <2> SUFFICES ASSUME guardrail = "prompt_injection" PROVE MatchesOf(v, text)
    OBVIOUS
  <2>1. \A m \in Range(v) : m \in MatchRecords /\ m.pattern = PromptToken
    <3> TAKE m \in Range(v)
    <3>1. PICK n \in H : m = [n EXCEPT !.pattern = PromptToken]
      BY <1>15
    <3>2. n \in MatchRecords
      BY <1>3
    <3>3. QED
      BY <1>14, <3>1, <3>2
  <2>2. \A k \in 1 .. Len(v) : v[k] \in Range(v)
    BY <1>11, RangeEquality
  <2>3. Related(PatternOrder, v)
    <3> SUFFICES ASSUME NEW k \in 1 .. Len(v), NEW l \in 1 .. Len(v), k < l
                 PROVE  <<v[k], v[l]>> \in PatternOrder
      BY DEF Related
    <3>1. v[k] \in MatchRecords /\ v[l] \in MatchRecords
      BY <2>1, <2>2
    <3>2. v[k].pattern = PromptToken /\ v[l].pattern = PromptToken
      BY <2>1, <2>2
    <3>3. v[k].pattern <= v[l].pattern
      BY <3>2 DEF PromptToken
    <3>4. QED
      BY <3>1, <3>3 DEF PatternOrder
  <2>4. \A m \in Range(v) : \E r \in Patterns, s \in Nat : Found(text, policy, r, s) /\ Spans(m, r, s)
    <3> TAKE m \in Range(v)
    <3>1. PICK n \in H : m = [n EXCEPT !.pattern = PromptToken]
      BY <1>15
    <3>2. m.start = n.start /\ m.end = n.end /\ m.pattern = PromptToken
      BY <1>3, <1>14, <3>1
    <3>3. PICK r \in Patterns, s \in Nat :
              Found(text, policy, r, s) /\ n.start = s /\ n.end = s + Len(Words[r])
      BY <1>4
    <3>4. Spans(m, r, s)
      BY <3>2, <3>3 DEF Spans
    <3>5. QED
      BY <3>3, <3>4
  <2>5. \A r \in Patterns, s \in Nat : Found(text, policy, r, s) => \E m \in Range(v) : Spans(m, r, s)
    <3> TAKE r \in Patterns, s \in Nat
    <3> HAVE Found(text, policy, r, s)
    <3>1. PICK n \in H : n.start = s /\ n.end = s + Len(Words[r]) /\ n.pattern = r
      BY <1>5
    <3> DEFINE m == [n EXCEPT !.pattern = PromptToken]
    <3>2. m.start = n.start /\ m.end = n.end /\ m.pattern = PromptToken
      BY <1>3, <1>14
    <3>3. m \in Range(v)
      BY <1>15
    <3> HIDE DEF m
    <3>4. Spans(m, r, s)
      BY <3>1, <3>2 DEF Spans
    <3>5. QED
      BY <3>3, <3>4
  <2>6. QED
    BY <1>11, <2>3, <2>4, <2>5 DEF MatchesOf
<1>17. QED
  BY <1>1, <1>6, <1>10, <1>16 DEF u

(* A stream ends as the JSON route would have it *)

\* What the JSON route is given, and finds.
LEMMA StreamResults ==
    ASSUME TypeOK, Turns, streaming
    PROVE  /\ guardrail = "output_leak"
           /\ Given = <<Assembled(received)>> /\ IsMessage(Assembled(received))
           /\ Matches \in Seq(MatchRecords) /\ JSONResults = <<Matches>>
           /\ resolve_overall_action(FlattenSeq(JSONResults)) = resolve_overall_action(Matches)
<1>1. guardrail = "output_leak"
  BY DEF TypeOK, Turns
<1>2. policy \in Policies /\ received \in Seq(Frames)
  BY Typing
<1>3. Given = <<Assembled(received)>>
  BY DEF Given
<1>4. IsMessage(Assembled(received))
  BY <1>2, StreamText
<1>5. Matches \in Seq(MatchRecords)
  BY MatchesScan DEF Scans
<1>6. Matches = IF ~policy.enabled THEN <<>>
                ELSE scan_text(extract_stream_delta_text(received), policy)
                         \o scan_tool_calls(Accumulated(received), policy)
  BY DEF Matches, StreamMatches
<1>7. JSONResults = <<Matches>>
  <2>1. scan_response(<<Assembled(received)>>, policy)
            = <<scan_text(extract_stream_delta_text(received), policy)
                    \o scan_tool_calls(Accumulated(received), policy)>>
    BY <1>2, StreamIsResponse
  <2>2. QED
    BY <1>3, <1>6, <2>1, Zenon DEF JSONResults
<1>8. FlattenSeq(<<Matches>>) = Matches
  BY <1>5, FlattenOne
<1>9. QED
  BY <1>1, <1>3, <1>4, <1>5, <1>7, <1>8

\* What is found in the text of a stream.
LEMMA StreamTextMatches ==
    ASSUME TypeOK, Turns, streaming, policy.enabled
    PROVE  LET text == extract_stream_delta_text(received) IN
           /\ text \in Text
           /\ ContentOf(Matches) = PartOf(Matches, 1)
           /\ MatchesOf(PartOf(Matches, 1), text)
<1> DEFINE text == extract_stream_delta_text(received)
           message == Assembled(received)
           ms == Matches
<1>1. policy \in Policies /\ received \in Seq(Frames)
  BY Typing
<1>2. /\ guardrail = "output_leak" /\ Given = <<message>> /\ IsMessage(message)
      /\ ms \in Seq(MatchRecords)
  BY StreamResults
<1>3. text \in Text /\ message.parts = <<text>>
  BY <1>1, StreamText
<1>4. Range(ms) = AllHits("output_leak", <<message>>, policy)
  BY <1>2, MatchesScan DEF Scans, GivenHits
<1>5. ms = scan_text(text, policy) \o scan_tool_calls(Accumulated(received), policy)
  BY DEF Matches, StreamMatches
<1>6. Related(PlacedOrder, ms)
  <2>1. JSONResults = <<Matches>> /\ JSONResults = scan_response(Given, policy)
    BY StreamResults DEF JSONResults
  <2>2. scan_response(Given, policy)[1] = Matches
    BY <2>1
  <2> HIDE DEF ms, message
  <2>3. DOMAIN <<message>> = {1} /\ <<message>>[1] = message
    OBVIOUS
  <2> DEFINE one == <<message>>
  <2>4. 1 \in DOMAIN one /\ IsMessage(one[1])
    BY <1>2, <2>3
  <2> HIDE DEF one
  <2>5. Related(PlacedOrder, scan_response(one, policy)[1])
    BY <1>1, <2>4, ResponsePlaced
  <2>6. QED
    BY <1>2, <2>2, <2>5 DEF one, ms
<1> HIDE DEF text, message, ms
<1>7. AllHits("output_leak", <<message>>, policy) = MessageHits("output_leak", 1, message, policy)
  <2>1. DOMAIN <<message>> = {1} /\ <<message>>[1] = message
    OBVIOUS
  <2>2. QED
    BY <2>1 DEF AllHits
<1>8. 1 \in DOMAIN message.parts /\ message.parts[1] = text /\ DOMAIN message.parts = {1}
  BY <1>3
<1>9. Range(ms) \cap InPart(1) = Hits(1, 1, 0, text, policy)
  <2>1. MessageHits("output_leak", 1, message, policy) \cap InPart(1)
            = Hits(1, 1, 0, message.parts[1], policy)
    <3> DEFINE g == "output_leak"
    <3>1. g # "prompt_injection"
      OBVIOUS
    <3> HIDE DEF g
    <3>2. \A i \in Nat : \A p \in DOMAIN message.parts :
              MessageHits(g, i, message, policy) \cap InPart(p) = Hits(i, p, 0, message.parts[p], policy)
      BY <1>1, <1>2, <3>1, HitsInPart
    <3>3. QED
      BY <1>8, <3>2 DEF g
  <2>2. QED
    BY <1>4, <1>7, <1>8, <2>1
<1>10. MatchesOf(PartOf(ms, 1), text)
  BY <1>1, <1>2, <1>6, <1>9, PartMatches
<1>11. ContentOf(ms) = PartOf(ms, 1)
  <2>1. \A m \in Range(ms) : m.part = 1
    <3>1. \A m \in ContentHits(1, message.parts, policy) : m.part = 1
      BY <1>8 DEF ContentHits, Hits, MatchAt
    <3>2. \A m \in CallHits(1, message.calls, policy) : m.part = 1
      BY CallMessage
    <3>3. QED
      BY <1>4, <1>7, <3>1, <3>2 DEF MessageHits
  <2>2. \A k \in DOMAIN ms : ms[k].part = 1
    BY <2>1 DEF Range
  <2>3. [k \in DOMAIN ms |-> IF ms[k].call = 0 THEN <<ms[k]>> ELSE <<>>]
            = [k \in DOMAIN ms |-> IF ms[k].call = 0 /\ ms[k].part = 1 THEN <<ms[k]>> ELSE <<>>]
    BY <2>2
  <2>4. QED
    BY <2>3, Zenon DEF ContentOf, PartOf, Where
<1>12. QED
  BY <1>3, <1>10, <1>11 DEF text, ms

\* What a client makes of a single chunk.
LEMMA OneChunk ==
    ASSUME NEW t \in Seq(Int), NEW calls
    PROVE  Assembled(<<Chunk(t, calls)>>).parts = <<t>>
<1> DEFINE frames == <<Chunk(t, calls)>>
<1>1. DOMAIN frames = {1} /\ frames[1].text = t
  BY DEF Chunk
<1>2. [k \in DOMAIN frames |-> frames[k].text] = <<t>>
  BY <1>1
<1> HIDE DEF frames
<1>3. FlattenSeq([k \in DOMAIN frames |-> frames[k].text]) = t
  BY <1>2, FlattenOne
<1>4. Assembled(frames).parts = <<t>>
  BY <1>3, Zenon DEF Assembled
<1>5. QED
  BY <1>4 DEF frames

\* What the JSON route would have answered.
LEMMA StreamChoice ==
    ASSUME TypeOK, Turns, streaming
    PROVE  /\ resolve_overall_action(Matches) # "redact" => JSONChoice = Assembled(received)
           /\ resolve_overall_action(Matches) = "redact" =>
                  /\ policy.enabled
                  /\ JSONChoice.parts
                         = <<redact_text(extract_stream_delta_text(received), PartOf(Matches, 1))>>
<1> DEFINE message == Assembled(received)
           overall == resolve_overall_action(FlattenSeq(JSONResults))
<1>1. /\ Given = <<message>> /\ JSONResults = <<Matches>>
      /\ overall = resolve_overall_action(Matches)
  BY StreamResults
<1> HIDE DEF message
<1>2. JSONChoice = (IF overall # "redact" THEN Given
                    ELSE [i \in DOMAIN Given |->
                             IF resolve_overall_action(JSONResults[i]) # "redact" THEN Given[i]
                             ELSE redact_message_content(Given[i], JSONResults[i])])[1]
  BY Zenon DEF JSONChoice, apply_action_to_response, ApplyAction
<1> HIDE DEF overall
<1>3. DOMAIN Given = {1} /\ Given[1] = message /\ JSONResults[1] = Matches
  BY <1>1
<1>4. resolve_overall_action(Matches) # "redact" => JSONChoice = message
  BY <1>1, <1>2, <1>3
<1>5. ASSUME resolve_overall_action(Matches) = "redact"
      PROVE  JSONChoice.parts
                 = <<redact_text(extract_stream_delta_text(received), PartOf(Matches, 1))>>
  <2> DEFINE text == extract_stream_delta_text(received)
  <2>1. JSONChoice = redact_message_content(message, Matches)
    BY <1>1, <1>2, <1>3, <1>5
  <2>2. message.parts = <<text>>
    BY Typing, StreamText DEF message
  <2> HIDE DEF text
  <2>3. redact_message_content(message, Matches)
            = [message EXCEPT !.parts = [p \in DOMAIN message.parts |->
                                            redact_text(message.parts[p], PartOf(Matches, p))]]
    BY Zenon DEF redact_message_content, PartOf
  <2>4. "parts" \in DOMAIN message
    BY DEF message, Assembled
  <2>5. [p \in DOMAIN message.parts |-> redact_text(message.parts[p], PartOf(Matches, p))]
            = <<redact_text(text, PartOf(Matches, 1))>>
    BY <2>2
  <2>6. JSONChoice.parts = <<redact_text(text, PartOf(Matches, 1))>>
    BY <2>1, <2>3, <2>4, <2>5
  <2>7. QED
    BY <2>6 DEF text
<1>6. ASSUME ~policy.enabled
      PROVE  resolve_overall_action(Matches) # "redact"
  <2>1. Matches = <<>>
    BY <1>6 DEF Matches, StreamMatches
  <2>2. <<>> \in Seq(MatchRecords) /\ Range(<<>>) = {}
    BY EmptySeq DEF Range
  <2>3. QED
    BY <2>1, <2>2, ResolveFacts DEF Has
<1>7. QED
  BY <1>4, <1>5, <1>6 DEF message

LEMMA AgreementFollows ==
    ASSUME IInv
    PROVE  StreamAgreesWithJSON
<1> SUFFICES ASSUME streaming, stage \in {"done", "refused"}
             PROVE  /\ (stage = "refused") = (resolve_overall_action(FlattenSeq(JSONResults)) = "block")
                    /\ stage = "done" => Assembled(sent).parts = JSONChoice.parts
                    /\ stage = "done" /\ action # "redact" => Assembled(sent).calls = JSONChoice.calls
  BY DEF StreamAgreesWithJSON
<1>1. TypeOK /\ Turns /\ Log /\ Sent
  BY DEF IInv
<1>2. action = resolve_overall_action(Matches)
  BY <1>1 DEF Log, Scanned
<1>3. resolve_overall_action(FlattenSeq(JSONResults)) = action
  BY <1>1, <1>2, StreamResults
<1>4. (stage = "refused") = (action = "block")
  BY <1>1 DEF Log
<1>5. ASSUME stage = "done", action # "redact"
      PROVE  Assembled(sent) = JSONChoice
  <2>1. sent = received
    BY <1>1, <1>5 DEF Sent
  <2>2. JSONChoice = Assembled(received)
    BY <1>1, <1>2, <1>5, StreamChoice
  <2>3. QED
    BY <2>1, <2>2
<1>6. ASSUME stage = "done", action = "redact"
      PROVE  Assembled(sent).parts = JSONChoice.parts
  <2> DEFINE text == extract_stream_delta_text(received)
             t == redact_text(text, PartOf(Matches, 1))
             calls == assembled_tool_calls(Accumulated(received))
  <2>1. sent = <<RedactedChunk>>
    BY <1>1, <1>6 DEF Sent
  <2>2. policy.enabled /\ JSONChoice.parts = <<t>>
    BY <1>1, <1>2, <1>6, StreamChoice
  <2>3. text \in Text /\ ContentOf(Matches) = PartOf(Matches, 1) /\ MatchesOf(PartOf(Matches, 1), text)
    BY <1>1, <2>2, StreamTextMatches
  <2>4. RedactedChunk = Chunk(t, calls)
    BY <2>3 DEF RedactedChunk
  <2>5. t \in Seq(Int)
    BY <2>3, RedactTextIsRedaction
  <2> HIDE DEF t, calls
  <2>6. Assembled(<<Chunk(t, calls)>>).parts = <<t>>
    BY <2>5, OneChunk
  <2>7. QED
    BY <2>1, <2>2, <2>4, <2>6
<1>7. QED
  BY <1>3, <1>4, <1>5, <1>6

\* However its answer is cut into chunks, a stream that has ended has told the
\* client the text, and with it the tool calls, that the JSON route would have
\* answered, or has been refused where that would have been.
THEOREM StreamIsJSON == Spec => []StreamAgreesWithJSON
<1>1. IInv => StreamAgreesWithJSON
  BY AgreementFollows
<1>2. QED
  BY <1>1, Invariant, PTL

(* What is handed on as JSON *)

\* What is found in message i of those that the guardrail is given.
FoundIn(i) == IF policy.enabled THEN MessageHits(guardrail, i, original[i], policy) ELSE {}

LEMMA ResultsFound ==
    ASSUME TypeOK, Turns, ~streaming, NEW i \in DOMAIN original
    PROVE  Scans(Results[i], FoundIn(i)) /\ Related(PlacedOrder, Results[i])
<1> DEFINE n == Len(original)
<1>1. policy \in Policies /\ original \in Seq(Messages)
  BY Typing
<1>2. n \in Nat /\ DOMAIN original = 1 .. n /\ \A k \in 1 .. n : original[k] \in Messages /\ k \in Nat
  BY <1>1
<1>3. \A k \in 1 .. n : IsMessage(original[k])
  BY <1>2, MessageFacts
<1> HIDE DEF n
<1>4. CASE ~policy.enabled
  <2>1. Results[i] = <<>> /\ FoundIn(i) = {}
    BY <1>4 DEF Results, FoundIn
  <2>2. Related(PlacedOrder, <<>>)
    BY EmptySeq DEF Related
  <2>3. QED
    BY <2>1, <2>2, ScansNothing
<1>5. CASE policy.enabled /\ guardrail = "prompt_injection"
  <2>1. /\ Results = scan_request(original, policy)
        /\ FoundIn(i) = MessageHits("prompt_injection", i, original[i], policy)
    BY <1>5 DEF Results, FoundIn
  <2>2. QED
    BY <1>1, <2>1, ScansRequest, RequestPlaced
<1>6. CASE policy.enabled /\ guardrail # "prompt_injection"
  <2>1. guardrail = "output_leak"
    BY <1>6 DEF TypeOK
  <2>2. /\ Results = scan_response(original, policy)
        /\ FoundIn(i) = MessageHits("output_leak", i, original[i], policy)
    BY <1>6, <2>1 DEF Results, FoundIn
  <2>3. Scans(scan_response(original, policy)[i], MessageHits("output_leak", i, original[i], policy))
    BY <1>1, <1>2, <1>3, ScansResponse
  <2>4. i \in Nat /\ IsMessage(original[i])
    BY <1>2, <1>3
  <2>5. Related(PlacedOrder, scan_response(original, policy)[i])
    BY <1>1, <2>4, ResponsePlaced
  <2>6. QED
    BY <2>2, <2>3, <2>5
<1>7. QED
  BY <1>4, <1>5, <1>6

LEMMA FoundOccurs ==
    ASSUME NEW text \in Text, NEW r \in Patterns, NEW pol
    PROVE  (Enabled(r, pol) /\ OccursIn(Words[r], text)) <=> \E s \in Nat : Found(text, pol, r, s)
<1>1. \A s \in 0 .. Len(text) : s \in Nat
  OBVIOUS
<1>2. \A s \in Nat : Found(text, pol, r, s) => s \in 0 .. Len(text)
  <2> TAKE s \in Nat
  <2> HAVE Found(text, pol, r, s)
  <2>1. s < Len(text) /\ Len(text) \in Nat
    BY FoundStarts
  <2>2. QED
    BY <2>1
<1>3. QED
  BY <1>1, <1>2 DEF OccursIn, Found

\* A pattern that occurs in a message in scope is found there.
LEMMA MatchedIsFound ==
    ASSUME NEW message, IsMessage(message), NEW i \in Nat, NEW r \in Patterns, policy \in Policies
    PROVE  /\ \A p \in DOMAIN message.parts :
                 Enabled(r, policy) /\ OccursIn(Words[r], message.parts[p]) =>
                     \E m \in ContentHits(i, message.parts, policy) : m.action = policy.action[r]
           /\ \A c \in DOMAIN message.calls :
                 Enabled(r, policy) /\ OccursIn(Words[r], message.calls[c].arguments) =>
                     \E m \in CallHits(i, message.calls, policy) :
                         m.action = IF policy.action[r] = "redact" THEN "block" ELSE policy.action[r]
<1>1. message.parts \in Seq(Text)
  BY DEF IsMessage
<1>2. \A p \in DOMAIN message.parts : p \in Nat /\ message.parts[p] \in Text
  BY <1>1
<1>3. \A c \in DOMAIN message.calls : c \in Nat /\ c # 0 /\ message.calls[c].arguments \in Text
  BY DEF IsMessage, IsCallTable
<1>4. ASSUME NEW p \in DOMAIN message.parts, Enabled(r, policy), OccursIn(Words[r], message.parts[p])
      PROVE  \E m \in ContentHits(i, message.parts, policy) : m.action = policy.action[r]
  <2>1. PICK s \in Nat : Found(message.parts[p], policy, r, s)
    BY <1>2, <1>4, FoundOccurs
  <2> DEFINE m == MatchAt(i, p, 0, r, s, policy)
  <2>2. m \in MatchRecords
    BY <1>2, MatchAtType
  <2>3. m \in Hits(i, p, 0, message.parts[p], policy)
    BY <2>1, <2>2 DEF Hits
  <2>4. m \in ContentHits(i, message.parts, policy)
    BY <2>3 DEF ContentHits
  <2>5. m.action = policy.action[r]
    BY DEF MatchAt
  <2>6. QED
    BY <2>4, <2>5
<1>5. ASSUME NEW c \in DOMAIN message.calls, Enabled(r, policy),
             OccursIn(Words[r], message.calls[c].arguments)
      PROVE  \E m \in CallHits(i, message.calls, policy) :
                 m.action = IF policy.action[r] = "redact" THEN "block" ELSE policy.action[r]
  <2>1. PICK s \in Nat : Found(message.calls[c].arguments, policy, r, s)
    BY <1>3, <1>5, FoundOccurs
  <2> DEFINE m == MatchAt(i, 1, c, r, s, policy)
  <2>2. m \in MatchRecords
    BY <1>3, MatchAtType
  <2>3. m \in Hits(i, 1, c, message.calls[c].arguments, policy)
    BY <2>1, <2>2 DEF Hits
  <2>4. m \in CallHits(i, message.calls, policy)
    BY <2>3 DEF CallHits
  <2>5. m.action = IF policy.action[r] = "redact" THEN "block" ELSE policy.action[r]
    BY <1>3 DEF MatchAt
  <2>6. QED
    BY <2>4, <2>5
<1>6. QED
  BY <1>4, <1>5

\* A match to be redacted is in the text of a message in scope.
LEMMA RedactedIsMatched ==
    ASSUME NEW message, IsMessage(message), NEW i \in Nat,
           NEW m \in MessageHits(guardrail, i, message, policy), m.action = "redact",
           guardrail \in {"prompt_injection", "output_leak"}, policy \in Policies
    PROVE  InScope(message) /\ \E r \in Matched(message) : policy.action[r] = "redact"
<1>1. InScope(message)
  BY DEF InScope, MessageHits, Policies
<1>2. m \notin CallHits(i, message.calls, policy)
  <2> SUFFICES ASSUME m \in CallHits(i, message.calls, policy) PROVE FALSE
    OBVIOUS
  <2>1. PICK c \in DOMAIN message.calls : m \in Hits(i, 1, c, message.calls[c].arguments, policy)
    BY DEF CallHits
  <2>2. c # 0
    BY DEF IsMessage, IsCallTable
  <2>3. QED
    BY <2>1, <2>2 DEF Hits, MatchAt
<1>3. m \in ContentHits(i, message.parts, policy)
  BY <1>2 DEF MessageHits
<1>4. PICK p \in DOMAIN message.parts : m \in Hits(i, p, 0, message.parts[p], policy)
  BY <1>3 DEF ContentHits
<1>5. PICK r \in Patterns, s \in Nat :
          Found(message.parts[p], policy, r, s) /\ m = MatchAt(i, p, 0, r, s, policy)
  BY <1>4 DEF Hits
<1>6. policy.action[r] = "redact"
  BY <1>5 DEF MatchAt
<1>7. message.parts[p] \in Text
  BY DEF IsMessage
<1>8. Enabled(r, policy) /\ OccursIn(Words[r], message.parts[p])
  BY <1>5, <1>7, FoundOccurs
<1>9. r \in Matched(message)
  BY <1>8 DEF Matched
<1>10. QED
  BY <1>1, <1>6, <1>9

\* The rewriting of a message.
LEMMA MessageRedacted ==
    ASSUME NEW message, IsMessage(message), NEW i \in Nat, NEW ms,
           Scans(ms, MessageHits(guardrail, i, message, policy)), Related(PlacedOrder, ms),
           InScope(message), policy \in Policies,
           guardrail \in {"prompt_injection", "output_leak"}, NEW p \in DOMAIN message.parts
    PROVE  redact_text(message.parts[p],
                       PartOf(IF guardrail = "prompt_injection" THEN Tokens(ms) ELSE ms, p))
               = Redaction(message.parts[p])
<1> DEFINE text == message.parts[p]
<1>1. message.parts \in Seq(Text)
  BY DEF IsMessage
<1>2. text \in Text /\ p \in Nat
  BY <1>1
<1>3. ms \in Seq(MatchRecords) /\ Range(ms) = MessageHits(guardrail, i, message, policy)
  BY DEF Scans
<1>4. ~(guardrail = "prompt_injection" /\ policy.scope = "user_messages_only" /\ message.role # "user")
  BY DEF InScope
<1>5. MessageHits(guardrail, i, message, policy) \cap InPart(p) = Hits(i, p, 0, message.parts[p], policy)
  <2> DEFINE g == guardrail
  <2>1. ~(g = "prompt_injection" /\ policy.scope = "user_messages_only" /\ message.role # "user")
    BY <1>4
  <2> HIDE DEF g
  <2>2. MessageHits(g, i, message, policy) \cap InPart(p) = Hits(i, p, 0, message.parts[p], policy)
    BY <2>1, HitsInPart
  <2>3. QED
    BY <2>2 DEF g
<1>6. Range(ms) \cap InPart(p) = Hits(i, p, 0, text, policy)
  BY <1>3, <1>5
<1> HIDE DEF text
<1> DEFINE w == PartOf(IF guardrail = "prompt_injection" THEN Tokens(ms) ELSE ms, p)
<1>7. MatchesOf(w, text)
  BY <1>2, <1>3, <1>6, PartMatches
<1> HIDE DEF w
<1>8. redact_text(text, w) = Redaction(text)
  BY <1>2, <1>7, RedactTextIsRedaction
<1>9. QED
  BY <1>8 DEF text, w

\* What HandOn hands on, message by message.
LEMMA HandedOnEach ==
    ASSUME NEW i \in DOMAIN original
    PROVE  HandedOn[i] =
               IF resolve_overall_action(FlattenSeq(Results)) # "redact" THEN original[i]
               ELSE IF resolve_overall_action(Results[i]) # "redact" THEN original[i]
               ELSE IF guardrail = "prompt_injection" THEN _redact_message(original[i], Results[i])
               ELSE redact_message_content(original[i], Results[i])
<1> DEFINE r == resolve_overall_action(FlattenSeq(Results))
<1>1. apply_action_to_request(original, Results) =
          IF r # "redact" THEN original
          ELSE [k \in DOMAIN original |-> IF resolve_overall_action(Results[k]) # "redact" THEN original[k]
                                          ELSE _redact_message(original[k], Results[k])]
  BY Zenon DEF apply_action_to_request, ApplyAction
<1>2. apply_action_to_response(original, Results) =
          IF r # "redact" THEN original
          ELSE [k \in DOMAIN original |-> IF resolve_overall_action(Results[k]) # "redact" THEN original[k]
                                          ELSE redact_message_content(original[k], Results[k])]
  BY Zenon DEF apply_action_to_response, ApplyAction
<1> HIDE DEF r
<1>3. CASE guardrail = "prompt_injection"
  BY <1>1, <1>3 DEF HandedOn, r
<1>4. CASE guardrail # "prompt_injection"
  BY <1>2, <1>4 DEF HandedOn, r
<1>5. QED
  BY <1>3, <1>4

\* Which messages are redacted, when nothing is blocked.
LEMMA RedactedMessages ==
    ASSUME TypeOK, Turns, ~streaming, resolve_overall_action(FlattenSeq(Results)) # "block",
           NEW i \in DOMAIN original
    PROVE  /\ ToRedact(original[i]) <=> resolve_overall_action(Results[i]) = "redact"
           /\ ToRedact(original[i]) => resolve_overall_action(FlattenSeq(Results)) = "redact"
<1> DEFINE message == original[i]
           all == FlattenSeq(Results)
           mine == Results[i]
<1>1. policy \in Policies /\ original \in Seq(Messages) /\ guardrail \in {"prompt_injection", "output_leak"}
  BY Typing DEF TypeOK
<1>2. i \in Nat /\ message \in Messages
  BY <1>1
<1>3. IsMessage(message)
  BY <1>2, MessageFacts
<1>4. Scans(mine, FoundIn(i))
  BY ResultsFound
<1>5. Scans(all, GivenHits)
  BY MatchesScan DEF Matches
<1>6. FoundIn(i) \subseteq GivenHits
  BY DEF FoundIn, GivenHits, AllHits, Given
<1> HIDE DEF message, all, mine
<1>7. mine \in Seq(MatchRecords) /\ all \in Seq(MatchRecords)
  BY <1>4, <1>5 DEF Scans
<1>8. \A a : Has(mine, a) <=> \E m \in FoundIn(i) : m.action = a
  BY <1>4 DEF Has, Scans
<1>9. \A a : Has(mine, a) => Has(all, a)
  BY <1>4, <1>5, <1>6 DEF Has, Scans
<1>10. ~Has(all, "block")
  BY <1>7, ResolveFacts DEF all
<1>11. resolve_overall_action(mine) = "redact" <=> Has(mine, "redact")
  BY <1>7, <1>9, <1>10, ResolveFacts
<1>12. Has(mine, "redact") => resolve_overall_action(all) = "redact"
  BY <1>7, <1>9, <1>10, ResolveFacts
<1>13. ASSUME Has(mine, "redact")
       PROVE  ToRedact(message)
  <2>1. PICK m \in FoundIn(i) : m.action = "redact"
    BY <1>8, <1>13
  <2>2. policy.enabled /\ m \in MessageHits(guardrail, i, message, policy)
    BY <2>1 DEF FoundIn, message
  <2>3. InScope(message) /\ \E r \in Matched(message) : policy.action[r] = "redact"
    BY <1>1, <1>2, <1>3, <2>1, <2>2, RedactedIsMatched
  <2>4. QED
    BY <2>2, <2>3 DEF ToRedact
<1>14. ASSUME ToRedact(message)
       PROVE  Has(mine, "redact")
  <2>1. policy.enabled /\ InScope(message)
    BY <1>14 DEF ToRedact
  <2>2. PICK r \in Matched(message) : policy.action[r] = "redact"
    BY <1>14 DEF ToRedact
  <2>3. r \in Patterns /\ Enabled(r, policy)
    BY <2>2 DEF Matched
  <2>4. FoundIn(i) = MessageHits(guardrail, i, message, policy)
    BY <2>1 DEF FoundIn, message
  <2>5. ~(guardrail = "prompt_injection" /\ policy.scope = "user_messages_only" /\ message.role # "user")
    BY <2>1 DEF InScope
  <2>6. ContentHits(i, message.parts, policy) \subseteq FoundIn(i)
    BY <2>4, <2>5 DEF MessageHits
  <2>7. guardrail = "output_leak" => CallHits(i, message.calls, policy) \subseteq FoundIn(i)
    BY <2>4 DEF MessageHits
  <2>8. CASE \E p \in DOMAIN message.parts : OccursIn(Words[r], message.parts[p])
    <3>1. \E m \in ContentHits(i, message.parts, policy) : m.action = policy.action[r]
      BY <1>1, <1>2, <1>3, <2>3, <2>8, MatchedIsFound
    <3>2. QED
      BY <1>8, <2>2, <2>6, <3>1
  <2>9. CASE guardrail = "output_leak"
             /\ \E c \in DOMAIN message.calls : OccursIn(Words[r], message.calls[c].arguments)
    <3>1. \E m \in CallHits(i, message.calls, policy) :
              m.action = IF policy.action[r] = "redact" THEN "block" ELSE policy.action[r]
      BY <1>1, <1>2, <1>3, <2>3, <2>9, MatchedIsFound
    <3>2. \E m \in CallHits(i, message.calls, policy) : m.action = "block"
      BY <2>2, <3>1
    <3>3. Has(mine, "block")
      BY <1>8, <2>7, <2>9, <3>2
    <3>4. QED
      BY <1>9, <1>10, <3>3
  <2>10. QED
    BY <2>2, <2>8, <2>9 DEF Matched
<1>15. QED
  BY <1>11, <1>12, <1>13, <1>14 DEF message, all, mine

\* What becomes of a message to be redacted.
LEMMA RedactedAs ==
    ASSUME TypeOK, Turns, ~streaming, NEW i \in DOMAIN original, ToRedact(original[i])
    PROVE  (IF guardrail = "prompt_injection" THEN _redact_message(original[i], Results[i])
            ELSE redact_message_content(original[i], Results[i]))
               = [original[i] EXCEPT !.parts = [p \in DOMAIN @ |-> Redaction(@[p])]]
<1> DEFINE message == original[i]
           ms == Results[i]
           u == IF guardrail = "prompt_injection" THEN Tokens(ms) ELSE ms
<1>1. policy \in Policies /\ original \in Seq(Messages) /\ guardrail \in {"prompt_injection", "output_leak"}
  BY Typing DEF TypeOK
<1>2. i \in Nat /\ message \in Messages
  BY <1>1
<1>3. IsMessage(message)
  BY <1>2, MessageFacts
<1>4. policy.enabled /\ InScope(message)
  BY DEF ToRedact
<1>5. Scans(ms, MessageHits(guardrail, i, message, policy)) /\ Related(PlacedOrder, ms)
  BY <1>4, ResultsFound DEF FoundIn
<1>6. (IF guardrail = "prompt_injection" THEN _redact_message(message, ms)
       ELSE redact_message_content(message, ms)) = redact_message_content(message, u)
  BY Zenon DEF _redact_message, Tokens
<1> HIDE DEF message, ms
<1>7. \A p \in DOMAIN message.parts : redact_text(message.parts[p], PartOf(u, p)) = Redaction(message.parts[p])
  BY <1>1, <1>2, <1>3, <1>4, <1>5, MessageRedacted
<1> HIDE DEF u
<1>8. redact_message_content(message, u)
          = [message EXCEPT !.parts = [p \in DOMAIN message.parts |-> redact_text(message.parts[p], PartOf(u, p))]]
  BY Zenon DEF redact_message_content, PartOf
<1>9. [p \in DOMAIN message.parts |-> redact_text(message.parts[p], PartOf(u, p))]
          = [p \in DOMAIN message.parts |-> Redaction(message.parts[p])]
  BY <1>7
<1>10. redact_message_content(message, u)
           = [message EXCEPT !.parts = [p \in DOMAIN message.parts |-> Redaction(message.parts[p])]]
  BY <1>8, <1>9, Zenon
<1>11. QED
  BY <1>6, <1>10 DEF message, ms

LEMMA ExactnessFollows ==
    ASSUME IInv
    PROVE  RedactionExact
<1> SUFFICES ASSUME stage = "done", ~streaming, NEW i \in DOMAIN original
             PROVE  messages[i] = IF ToRedact(original[i])
                                  THEN [original[i] EXCEPT !.parts = [p \in DOMAIN @ |-> Redaction(@[p])]]
                                  ELSE original[i]
  BY DEF RedactionExact
<1> DEFINE overall == resolve_overall_action(FlattenSeq(Results))
           rewritten == IF guardrail = "prompt_injection" THEN _redact_message(original[i], Results[i])
                        ELSE redact_message_content(original[i], Results[i])
           redacted == [original[i] EXCEPT !.parts = [p \in DOMAIN @ |-> Redaction(@[p])]]
<1>1. TypeOK /\ Turns /\ Log /\ Content
  BY DEF IInv
<1>2. action = resolve_overall_action(Matches) /\ action # "block"
  BY <1>1 DEF Log, Scanned
<1>3. overall # "block"
  BY <1>2 DEF Matches
<1>4. messages[i] = HandedOn[i]
  BY <1>1 DEF Content, Scanned
<1>5. messages[i] = IF overall # "redact" THEN original[i]
                    ELSE IF resolve_overall_action(Results[i]) # "redact" THEN original[i]
                    ELSE rewritten
  BY <1>4, HandedOnEach, Zenon
<1>6. /\ ToRedact(original[i]) <=> resolve_overall_action(Results[i]) = "redact"
      /\ ToRedact(original[i]) => overall = "redact"
  BY <1>1, <1>3, RedactedMessages
<1>7. ToRedact(original[i]) => rewritten = redacted
  BY <1>1, RedactedAs
<1> HIDE DEF overall, rewritten, redacted
<1>8. messages[i] = IF ToRedact(original[i]) THEN redacted ELSE original[i]
  BY <1>5, <1>6, <1>7
<1>9. QED
  BY <1>8 DEF redacted

\* Redaction hides exactly what was matched, in the messages that contain
\* something to redact and are in scope: not the characters around it, not the
\* other messages, not the tool calls.
THEOREM ExactlyRedacted == Spec => []RedactionExact
<1>1. IInv => RedactionExact
  BY ExactnessFollows
<1>2. QED
  BY <1>1, Invariant, PTL

(* No pattern occurs in a redacted text *)

\* What replaces a stretch is no letter.
LEMMA TokenIsNoLetter ==
    ASSUME NEW text \in Text, NEW j \in Nat, Covering(text, j) # {}
    PROVE  TokenOf(Covering(text, j)) \in Int /\ TokenOf(Covering(text, j)) <= 0
<1> DEFINE cover == Covering(text, j)
           size(c) == Len(Words[c[1]])
           best(c) == \A d \in cover :
                         \/ Len(Words[c[1]]) < Len(Words[d[1]])
                         \/ Len(Words[c[1]]) = Len(Words[d[1]]) /\ c[1] <= d[1]
           first == CHOOSE c \in cover : best(c)
<1>1. \A c \in cover : c[1] \in Nat /\ size(c) \in Nat
  BY WordFacts DEF Covering
<1>2. guardrail # "prompt_injection" => TokenOf(cover) = 0 - first[1]
  BY Zenon DEF TokenOf
<1>3. cover # {}
  OBVIOUS
<1> HIDE DEF cover
<1>4. \E c \in cover : best(c)
  <2> DEFINE sizes == {size(c) : c \in cover}
  <2>1. sizes \in SUBSET Nat /\ sizes # {}
    BY <1>1, <1>3
  <2>2. PICK l \in sizes : \A k \in sizes : l <= k
    BY <2>1, Minimum
  <2> DEFINE those == {c[1] : c \in {c \in cover : size(c) = l}}
  <2>3. those \in SUBSET Nat /\ those # {}
    BY <1>1, <2>2
  <2>4. PICK r \in those : \A q \in those : r <= q
    BY <2>3, Minimum
  <2>5. PICK c \in cover : size(c) = l /\ c[1] = r
    BY <2>4
  <2>6. ASSUME NEW d \in cover
        PROVE  \/ size(c) < size(d)
               \/ size(c) = size(d) /\ c[1] <= d[1]
    <3>1. l <= size(d) /\ size(d) \in Nat /\ l \in Nat
      BY <1>1, <2>1, <2>2
    <3>2. size(d) = l => r <= d[1]
      BY <2>4
    <3> HIDE DEF size
    <3>3. QED
      BY <2>5, <3>1, <3>2
  <2>7. QED
    BY <2>6
<1>5. first \in cover
  <2> HIDE DEF best
  <2>1. QED
    BY <1>4
<1> HIDE DEF first
<1>6. 0 - first[1] \in Int /\ 0 - first[1] <= 0
  BY <1>1, <1>5
<1>7. CASE guardrail = "prompt_injection"
  <2>1. TokenOf(cover) = 0
    BY <1>7 DEF TokenOf, PromptToken
  <2>2. QED
    BY <2>1 DEF cover
<1>8. CASE guardrail # "prompt_injection"
  BY <1>2, <1>6, <1>8 DEF cover
<1>9. QED
  BY <1>7, <1>8

\* A character that is matched has become a token, or nothing after one.
Replaces(c, text, j) ==
    \/ Covering(text, j) = {} /\ c = <<text[j]>>
    \/ Covering(text, j) # {} /\ \E t \in Int : t <= 0 /\ c = <<t>>
    \/ Covering(text, j) # {} /\ j # 1 /\ Covering(text, j - 1) # {} /\ c = <<>>

LEMMA CellFacts ==
    ASSUME NEW text \in Text
    PROVE  /\ Cells(text) \in Seq(Seq(Int)) /\ Len(Cells(text)) = Len(text)
           /\ \A j \in 1 .. Len(text) : Replaces(Cells(text)[j], text, j)
<1> DEFINE n == Len(text)
           cells == Cells(text)
<1>1. n \in Nat /\ DOMAIN text = 1 .. n /\ \A j \in 1 .. n : text[j] \in Int
  BY TextIsNumbers
<1>2. \A j \in 1 .. n : cells[j] = IF Covering(text, j) = {} THEN <<text[j]>>
                                   ELSE IF j = 1 \/ Covering(text, j - 1) = {}
                                   THEN <<TokenOf(Covering(text, j))>> ELSE <<>>
  BY <1>1 DEF Cells
<1>3. DOMAIN cells = 1 .. n /\ cells = [j \in 1 .. n |-> cells[j]]
  BY <1>1 DEF Cells
<1> HIDE DEF n, cells
<1>4. ASSUME NEW j \in 1 .. n
      PROVE  Replaces(cells[j], text, j)
  <2>1. CASE Covering(text, j) = {}
    BY <1>2, <2>1 DEF Replaces
  <2>2. CASE Covering(text, j) # {} /\ (j = 1 \/ Covering(text, j - 1) = {})
    <3> DEFINE t == TokenOf(Covering(text, j))
    <3>1. t \in Int /\ t <= 0
      BY <1>1, <2>2, TokenIsNoLetter
    <3>2. cells[j] = <<t>>
      BY <1>2, <2>2
    <3> HIDE DEF t
    <3>3. QED
      BY <2>2, <3>1, <3>2 DEF Replaces
  <2>3. CASE Covering(text, j) # {} /\ j # 1 /\ Covering(text, j - 1) # {}
    BY <1>2, <2>3 DEF Replaces
  <2>4. QED
    BY <2>1, <2>2, <2>3
<1>5. \A j \in 1 .. n : cells[j] \in Seq(Int)
  <2> SUFFICES ASSUME NEW j \in 1 .. n PROVE cells[j] \in Seq(Int)
    OBVIOUS
  <2>1. \/ cells[j] = <<text[j]>>
        \/ \E t \in Int : cells[j] = <<t>>
        \/ cells[j] = <<>>
    BY <1>4 DEF Replaces
  <2>2. text[j] \in Int
    BY <1>1
  <2>3. \A t \in Int : <<t>> \in Seq(Int)
    OBVIOUS
  <2>4. <<>> \in Seq(Int)
    OBVIOUS
  <2>5. QED
    BY <2>1, <2>2, <2>3, <2>4
<1>6. cells \in Seq(Seq(Int)) /\ Len(cells) = n
  <2>1. cells \in [1 .. n -> Seq(Int)]
    BY <1>3, <1>5
  <2>2. QED
    BY <1>1, <2>1
<1>7. QED
  BY <1>4, <1>6 DEF n, cells

\* A stretch of letters in what the first j characters have become is one of
\* the text, of which no character is matched.
IsCopy(text, x, a, b, d) == \A k \in 1 .. b - a : x[a + k] = text[d + k] /\ Covering(text, d + k) = {}

Traced(text, x, j) ==
    \A a, b \in Nat : a < b /\ b <= Len(x) /\ (\A k \in a + 1 .. b : x[k] > 0) =>
        \E d \in Nat : /\ d + (b - a) <= j
                       /\ b = Len(x) => d + (b - a) = j
                       /\ IsCopy(text, x, a, b, d)

Ended(text, x, j) == j # 0 /\ Covering(text, j) # {} => Len(x) # 0 /\ x[Len(x)] <= 0

LEMMA TracedStep ==
    ASSUME NEW text \in Text, NEW x \in Seq(Int), NEW i \in Nat, NEW j \in Nat, j = i + 1,
           Traced(text, x, i), Ended(text, x, i), text[j] \in Int, NEW c, Replaces(c, text, j)
    PROVE  Traced(text, x \o c, j) /\ Ended(text, x \o c, j)
<1> DEFINE y == x \o c
           l == Len(x)
           m == Len(x) + 1
<1>1. l \in Nat /\ m \in Nat /\ m = l + 1
  OBVIOUS
<1>2. ASSUME NEW t \in Int, c = <<t>>
      PROVE  Len(y) = m /\ y[m] = t /\ \A k \in 1 .. l : y[k] = x[k]
  BY <1>2
<1> HIDE DEF y, m
\* A stretch that the new character is no part of.
<1>3. ASSUME NEW a \in Nat, NEW b \in Nat, a < b, b <= l, \A k \in a + 1 .. b : y[k] > 0,
             \A k \in 1 .. l : y[k] = x[k]
      PROVE  \E d \in Nat : /\ d + (b - a) <= i
                            /\ b = l => d + (b - a) = i
                            /\ IsCopy(text, y, a, b, d)
  <2>1. \A k \in a + 1 .. b : x[k] > 0
    BY <1>1, <1>3
  <2>2. PICK d \in Nat : /\ d + (b - a) <= i
                         /\ b = Len(x) => d + (b - a) = i
                         /\ IsCopy(text, x, a, b, d)
    BY <1>3, <2>1 DEF Traced, l
  <2>3. \A k \in 1 .. b - a : y[a + k] = x[a + k]
    BY <1>1, <1>3
  <2>4. IsCopy(text, y, a, b, d)
    BY <2>2, <2>3 DEF IsCopy
  <2>5. QED
    BY <2>2, <2>4 DEF l
<1> HIDE DEF l
<1>4. CASE Covering(text, j) = {} /\ c = <<text[j]>>
  <2>1. Len(y) = m /\ y[m] = text[j] /\ \A k \in 1 .. l : y[k] = x[k]
    BY <1>2, <1>4
  <2>2. ASSUME NEW a \in Nat, NEW b \in Nat, a < b, b <= m, \A k \in a + 1 .. b : y[k] > 0
        PROVE  \E d \in Nat : /\ d + (b - a) <= j
                              /\ b = m => d + (b - a) = j
                              /\ IsCopy(text, y, a, b, d)
    <3>1. CASE b <= l
      <4>1. PICK d \in Nat : d + (b - a) <= i /\ IsCopy(text, y, a, b, d)
        BY <1>3, <2>1, <2>2, <3>1
      <4>2. d + (b - a) <= j /\ b # m
        BY <1>1, <2>2, <3>1, <4>1
      <4>3. QED
        BY <4>1, <4>2
    <3>2. CASE b = m /\ a = l
      <4>1. b - a = 1
        BY <1>1, <3>2
      <4>2. IsCopy(text, y, a, b, i)
        <5> SUFFICES ASSUME NEW k \in 1 .. b - a
                     PROVE  y[a + k] = text[i + k] /\ Covering(text, i + k) = {}
          BY DEF IsCopy
        <5>1. k = 1
          BY <4>1
        <5>2. a + k = m /\ i + k = j
          BY <1>1, <3>2, <5>1
        <5>3. QED
          BY <1>4, <2>1, <5>2
      <4>3. i + (b - a) <= j /\ i + (b - a) = j
        BY <4>1
      <4>4. QED
        BY <4>2, <4>3
    <3>3. CASE b = m /\ a < l
      <4>1. \A k \in a + 1 .. l : y[k] > 0
        BY <1>1, <2>2, <3>3
      <4>2. PICK d \in Nat : d + (l - a) = i /\ IsCopy(text, y, a, l, d)
        <5>1. l <= l
          BY <1>1
        <5>2. \E d \in Nat : /\ d + (l - a) <= i
                             /\ l = l => d + (l - a) = i
                             /\ IsCopy(text, y, a, l, d)
          BY <1>1, <1>3, <2>1, <3>3, <4>1, <5>1
        <5>3. QED
          BY <5>2
      <4>3. d + (b - a) = j
        BY <1>1, <3>3, <4>2
      <4>4. IsCopy(text, y, a, b, d)
        <5> SUFFICES ASSUME NEW k \in 1 .. b - a
                     PROVE  y[a + k] = text[d + k] /\ Covering(text, d + k) = {}
          BY DEF IsCopy
        <5>1. CASE k \in 1 .. l - a
          BY <4>2, <5>1 DEF IsCopy
        <5>2. CASE k \notin 1 .. l - a
          <6>1. a + k = m /\ d + k = j
            BY <1>1, <3>3, <4>3, <5>2
          <6>2. QED
            BY <1>4, <2>1, <6>1
        <5>3. QED
          BY <5>1, <5>2
      <4>5. d + (b - a) <= j
        BY <4>3
      <4>6. QED
        BY <4>3, <4>4, <4>5
    <3>4. QED
      BY <1>1, <2>2, <3>1, <3>2, <3>3
  <2>3. Traced(text, y, j)
    BY <2>1, <2>2 DEF Traced
  <2>4. Ended(text, y, j)
    BY <1>4 DEF Ended
  <2>5. QED
    BY <2>3, <2>4 DEF y
<1>5. CASE Covering(text, j) # {} /\ \E t \in Int : t <= 0 /\ c = <<t>>
  <2>1. PICK t \in Int : t <= 0 /\ c = <<t>>
    BY <1>5
  <2>2. Len(y) = m /\ y[m] = t /\ \A k \in 1 .. l : y[k] = x[k]
    BY <1>2, <2>1
  <2>3. ASSUME NEW a \in Nat, NEW b \in Nat, a < b, b <= m, \A k \in a + 1 .. b : y[k] > 0
        PROVE  \E d \in Nat : /\ d + (b - a) <= j
                              /\ b = m => d + (b - a) = j
                              /\ IsCopy(text, y, a, b, d)
    <3>1. y[b] > 0
      BY <2>3
    <3>2. b # m
      BY <2>1, <2>2, <3>1
    <3>3. b <= l
      BY <1>1, <2>3, <3>2
    <3>4. PICK d \in Nat : d + (b - a) <= i /\ IsCopy(text, y, a, b, d)
      BY <1>3, <2>2, <2>3, <3>3
    <3>5. d + (b - a) <= j
      BY <3>4
    <3>6. QED
      BY <3>2, <3>4, <3>5
  <2>4. Traced(text, y, j)
    BY <2>2, <2>3 DEF Traced
  <2>5. Ended(text, y, j)
    BY <1>1, <2>1, <2>2 DEF Ended
  <2>6. QED
    BY <2>4, <2>5 DEF y
<1>6. CASE Covering(text, j) # {} /\ j # 1 /\ Covering(text, j - 1) # {} /\ c = <<>>
  <2>1. y = x
    BY <1>6, ConcatEmptySeq DEF y
  <2>2. j - 1 = i /\ i # 0
    BY <1>6
  <2>3. Len(x) # 0 /\ x[Len(x)] <= 0
    BY <1>6, <2>2 DEF Ended
  <2>4. Ended(text, x, j)
    BY <2>3 DEF Ended
  <2>5. ASSUME NEW a \in Nat, NEW b \in Nat, a < b, b <= Len(x), \A k \in a + 1 .. b : x[k] > 0
        PROVE  \E d \in Nat : /\ d + (b - a) <= j
                              /\ b = Len(x) => d + (b - a) = j
                              /\ IsCopy(text, x, a, b, d)
    <3>1. x[b] > 0
      BY <2>5
    <3>2. x[b] \in Int /\ x[Len(x)] \in Int
      BY <2>3, <2>5
    <3>3. b # Len(x)
      BY <2>3, <3>1, <3>2
    <3>4. PICK d \in Nat : d + (b - a) <= i /\ IsCopy(text, x, a, b, d)
      BY <2>5 DEF Traced
    <3>5. d + (b - a) <= j
      BY <3>4
    <3>6. QED
      BY <3>3, <3>4, <3>5
  <2>6. Traced(text, x, j)
    BY <2>5 DEF Traced
  <2>7. QED
    BY <2>1, <2>4, <2>6 DEF y
<1>7. QED
  BY <1>4, <1>5, <1>6 DEF Replaces

LEMMA RedactionTraced ==
    ASSUME NEW text \in Text
    PROVE  Redaction(text) \in Seq(Int) /\ Traced(text, Redaction(text), Len(text))
<1> DEFINE n == Len(text)
           cells == Cells(text)
           P == {j \in Nat : j <= n => Traced(text, Pre(cells, j), j) /\ Ended(text, Pre(cells, j), j)}
<1>1. n \in Nat /\ \A j \in 1 .. n : text[j] \in Int
  BY TextIsNumbers
<1>2. /\ cells \in Seq(Seq(Int)) /\ Len(cells) = n
      /\ \A j \in 1 .. n : Replaces(cells[j], text, j)
  BY CellFacts
<1>3. Redaction(text) = FlattenSeq(cells)
  BY RedactionCells
<1> HIDE DEF n, cells
<1>4. /\ \A j \in 0 .. n : Pre(cells, j) \in Seq(Int)
      /\ Pre(cells, 0) = <<>> /\ Pre(cells, n) = FlattenSeq(cells)
      /\ \A j \in 1 .. n : Pre(cells, j) = Pre(cells, j - 1) \o cells[j]
  BY <1>2, PreProperties
<1>5. 0 \in P
  <2>1. Len(<<>>) = 0
    BY EmptySeq
  <2>2. Traced(text, <<>>, 0)
    BY <2>1 DEF Traced
  <2>3. Ended(text, <<>>, 0)
    BY DEF Ended
  <2>4. QED
    BY <1>4, <2>2, <2>3
<1>6. ASSUME NEW i \in Nat, i \in P
      PROVE  i + 1 \in P
  <2> DEFINE j == i + 1
             x == Pre(cells, i)
             c == cells[j]
  <2>1. SUFFICES ASSUME j <= n PROVE Traced(text, Pre(cells, j), j) /\ Ended(text, Pre(cells, j), j)
    BY <1>6
  <2>2. Traced(text, x, i) /\ Ended(text, x, i)
    BY <1>1, <1>6, <2>1
  <2> HIDE DEF P
  <2>3. j \in Nat /\ j \in 1 .. n /\ j - 1 = i /\ i \in 0 .. n /\ j = i + 1
    BY <1>1, <2>1
  <2> HIDE DEF j
  <2>4. x \in Seq(Int) /\ Pre(cells, j) = x \o c
    BY <1>4, <2>3
  <2>5. text[j] \in Int /\ Replaces(c, text, j)
    BY <1>1, <1>2, <2>3
  <2> HIDE DEF x, c
  <2>6. Traced(text, x \o c, j) /\ Ended(text, x \o c, j)
    BY <2>2, <2>3, <2>4, <2>5, TracedStep
  <2>7. QED
    BY <2>4, <2>6
<1>7. Nat \subseteq P
  <2> HIDE DEF P
  <2> QED
    BY <1>5, <1>6, Induction
<1>8. n \in P
  BY <1>1, <1>7
<1>9. Traced(text, Pre(cells, n), n)
  BY <1>1, <1>8
<1>10. QED
  BY <1>1, <1>3, <1>4, <1>9 DEF n

\* The m elements after the first s.
LEMMA Window ==
    ASSUME NEW S, NEW x \in Seq(S), NEW s \in Nat, NEW m \in Nat, s + m <= Len(x)
    PROVE  /\ SubSeq(x, s + 1, s + m) \in Seq(S) /\ Len(SubSeq(x, s + 1, s + m)) = m
           /\ \A k \in 1 .. m : SubSeq(x, s + 1, s + m)[k] = x[s + k]
<1> DEFINE a == s + 1
           b == s + m
<1>1. a \in Int /\ b \in Int /\ b - a + 1 = m /\ (a <= b <=> m # 0)
  OBVIOUS
<1>2. \A i \in a .. b : x[i] \in S
  <2>1. \A i \in a .. b : i \in 1 .. Len(x)
    OBVIOUS
  <2> HIDE DEF a, b
  <2>2. QED
    BY <2>1
<1>3. \A k \in 1 .. m : a + k - 1 = s + k
  OBVIOUS
<1> HIDE DEF a, b
<1>4. /\ SubSeq(x, a, b) \in Seq(S)
      /\ Len(SubSeq(x, a, b)) = IF a <= b THEN b - a + 1 ELSE 0
      /\ \A i \in 1 .. b - a + 1 : SubSeq(x, a, b)[i] = x[a + i - 1]
  BY <1>1, <1>2, SubSeqProperties
<1>5. QED
  BY <1>1, <1>3, <1>4 DEF a, b

\* In a redacted text no pattern occurs, not even one made of what is left.
THEOREM RedactionHides ==
    ASSUME NEW text \in Text, NEW r \in Patterns, Enabled(r, policy)
    PROVE  ~OccursIn(Words[r], Redaction(text))
<1> DEFINE x == Redaction(text)
           w == Words[r]
           m == Len(w)
           n == Len(text)
<1> SUFFICES ASSUME OccursIn(w, x) PROVE FALSE
  OBVIOUS
<1>1. x \in Seq(Int) /\ Traced(text, x, n)
  BY RedactionTraced
<1>2. w \in Text /\ m \in Nat /\ m > 0
  BY WordFacts
<1>3. w \in Seq(Int) /\ \A k \in 1 .. m : w[k] > 0
  BY <1>2, TextIsNumbers
<1>4. text \in Seq(Int) /\ n \in Nat
  BY TextIsNumbers
<1>5. PICK s \in 0 .. Len(x) : OccursAt(w, x, s)
  BY DEF OccursIn
<1> HIDE DEF x, w, m, n
<1>6. s \in Nat /\ s + m \in Nat /\ s < s + m /\ s + m <= Len(x) /\ SubSeq(x, s + 1, s + m) = w
  BY <1>1, <1>2, <1>5 DEF OccursAt, m
<1>7. \A k \in 1 .. m : x[s + k] = w[k]
  <2>1. \A k \in 1 .. m : SubSeq(x, s + 1, s + m)[k] = x[s + k]
    BY <1>1, <1>2, <1>6, Window
  <2>2. QED
    BY <1>6, <2>1
<1>8. \A k \in s + 1 .. s + m : x[k] > 0
  <2> TAKE k \in s + 1 .. s + m
  <2>1. k - s \in 1 .. m /\ s + (k - s) = k
    BY <1>2, <1>6
  <2>2. x[k] = w[k - s]
    BY <1>7, <2>1
  <2>3. QED
    BY <1>3, <2>1, <2>2
<1> DEFINE b == s + m
<1>9. b \in Nat /\ s < b /\ b <= Len(x) /\ b - s = m /\ \A k \in s + 1 .. b : x[k] > 0
  BY <1>2, <1>6, <1>8
<1> HIDE DEF b
<1>10. PICK d \in Nat : d + (b - s) <= n /\ IsCopy(text, x, s, b, d)
  BY <1>1, <1>6, <1>9 DEF Traced
<1>11. d + m <= n /\ \A k \in 1 .. m : text[d + k] = w[k] /\ Covering(text, d + k) = {}
  BY <1>7, <1>9, <1>10 DEF IsCopy
<1>12. SubSeq(text, d + 1, d + m) = w
  <2> DEFINE u == SubSeq(text, d + 1, d + m)
  <2>1. u \in Seq(Int) /\ Len(u) = m /\ \A k \in 1 .. m : u[k] = text[d + k]
    BY <1>2, <1>4, <1>11, Window DEF n
  <2>2. \A k \in 1 .. m : u[k] = w[k]
    BY <1>11, <2>1
  <2> HIDE DEF u
  <2>3. u = w
    BY <1>2, <1>3, <2>1, <2>2, SeqEqual DEF m
  <2>4. QED
    BY <2>3 DEF u
<1>13. OccursAt(w, text, d)
  BY <1>11, <1>12 DEF OccursAt, m, n
<1> DEFINE e == d + 1
<1>14. d \in 0 .. e - 1 /\ e <= d + m
  BY <1>2
<1>15. Covering(text, e) = {}
  BY <1>2, <1>11
<1> HIDE DEF e
<1>16. <<r, d>> \in Covering(text, e)
  BY <1>13, <1>14 DEF Covering, w, m
<1>17. QED
  BY <1>15, <1>16

(* What a prefix of a stream tells is a prefix of what the stream tells *)

Mapped(g, u) == [k \in DOMAIN u |-> g[u[k]]]
Maps(S, T) == [S -> T]

LEMMA MappedConcat ==
    ASSUME NEW S, NEW T, NEW g \in Maps(S, T), NEW s \in Seq(S), NEW t \in Seq(S)
    PROVE  /\ Mapped(g, s \o t) = Mapped(g, s) \o Mapped(g, t)
           /\ Mapped(g, s) \in Seq(T) /\ Mapped(g, t) \in Seq(T)
<1> DEFINE u == s \o t
           a == Len(s)
           b == Len(t)
<1>1. /\ u \in Seq(S) /\ Len(u) = a + b /\ a \in Nat /\ b \in Nat
      /\ \A i \in 1 .. a + b : u[i] = IF i <= a THEN s[i] ELSE t[i - a]
  BY ConcatProperties
<1>2. ASSUME NEW v \in Seq(S)
      PROVE  /\ Mapped(g, v) \in Seq(T) /\ Len(Mapped(g, v)) = Len(v)
             /\ \A k \in 1 .. Len(v) : Mapped(g, v)[k] = g[v[k]]
  <2> DEFINE n == Len(v)
  <2>1. n \in Nat /\ DOMAIN v = 1 .. n /\ \A k \in 1 .. n : v[k] \in S
    OBVIOUS
  <2> HIDE DEF n
  <2>2. Mapped(g, v) \in [1 .. n -> T] /\ \A k \in 1 .. n : Mapped(g, v)[k] = g[v[k]]
    BY <2>1 DEF Mapped, Maps
  <2>3. Mapped(g, v) \in Seq(T) /\ Len(Mapped(g, v)) = n
    BY <2>1, <2>2
  <2>4. QED
    BY <2>2, <2>3 DEF n
<1> HIDE DEF u, a, b
<1> DEFINE x == Mapped(g, s)
           y == Mapped(g, t)
           z == Mapped(g, u)
<1>3. /\ x \in Seq(T) /\ Len(x) = a /\ \A k \in 1 .. a : x[k] = g[s[k]]
      /\ y \in Seq(T) /\ Len(y) = b /\ \A k \in 1 .. b : y[k] = g[t[k]]
  BY <1>2 DEF a, b
<1>4. z \in Seq(T) /\ Len(z) = a + b /\ \A k \in 1 .. a + b : z[k] = g[u[k]]
  BY <1>1, <1>2
<1> HIDE DEF x, y, z
<1>5. /\ x \o y \in Seq(T) /\ Len(x \o y) = a + b
      /\ \A i \in 1 .. a + b : (x \o y)[i] = IF i <= a THEN x[i] ELSE y[i - a]
  <2>1. x \in Seq(T) /\ y \in Seq(T)
    BY <1>3
  <2>2. /\ x \o y \in Seq(T) /\ Len(x \o y) = Len(x) + Len(y)
        /\ \A i \in 1 .. Len(x) + Len(y) :
              (x \o y)[i] = IF i <= Len(x) THEN x[i] ELSE y[i - Len(x)]
    BY <2>1, ConcatProperties
  <2>3. Len(x) = a /\ Len(y) = b
    BY <1>3
  <2>4. QED
    BY <2>2, <2>3
<1>0. a \in Nat /\ b \in Nat
  BY <1>1
<1>6. \A k \in 1 .. a + b : z[k] = (x \o y)[k]
  <2> TAKE k \in 1 .. a + b
  <2>1. CASE k <= a
    <3>1. k \in 1 .. a
      BY <1>1, <2>1
    <3>2. u[k] = s[k] /\ (x \o y)[k] = x[k]
      BY <1>1, <1>5, <2>1
    <3>3. x[k] = g[s[k]]
      BY <1>3, <3>1
    <3>4. QED
      BY <1>4, <3>2, <3>3
  <2>2. CASE k > a
    <3> DEFINE l == k - a
    <3>1. l \in 1 .. b /\ ~(k <= a)
      BY <1>0, <2>2
    <3>2. u[k] = t[l] /\ (x \o y)[k] = y[l]
      BY <1>1, <1>5, <3>1
    <3> HIDE DEF l
    <3>3. y[l] = g[t[l]]
      BY <1>3, <3>1
    <3>4. QED
      BY <1>4, <3>2, <3>3
  <2>3. k <= a \/ k > a
    BY <1>0
  <2>4. QED
    BY <2>1, <2>2, <2>3
<1> DEFINE v == x \o y
<1>7. v \in Seq(T) /\ Len(v) = Len(z) /\ \A k \in 1 .. Len(z) : z[k] = v[k]
  BY <1>4, <1>5, <1>6
<1> HIDE DEF v
<1>8. z = v
  BY <1>4, <1>7, SeqEqual
<1>9. QED
  BY <1>3, <1>8 DEF u, v, x, y, z

LEMMA OccursPrefix ==
    ASSUME NEW w, Len(w) \in Nat, NEW x \in Text, NEW y \in Text, OccursIn(w, x)
    PROVE  OccursIn(w, x \o y)
<1> DEFINE u == x \o y
           m == Len(w)
           a == Len(x)
<1>1. x \in Seq(Letters) /\ y \in Seq(Letters)
  BY DEF Text
<1>2. /\ u \in Seq(Letters) /\ Len(u) = a + Len(y) /\ a \in Nat /\ Len(y) \in Nat
      /\ \A i \in 1 .. a + Len(y) : u[i] = IF i <= a THEN x[i] ELSE y[i - a]
  BY <1>1, ConcatProperties
<1>3. PICK s \in 0 .. a : OccursAt(w, x, s)
  BY DEF OccursIn
<1> HIDE DEF u
<1>4. s \in Nat /\ m \in Nat /\ s + m <= a /\ SubSeq(x, s + 1, s + m) = w /\ s + m <= Len(u)
  BY <1>2, <1>3 DEF OccursAt
<1> DEFINE v == SubSeq(x, s + 1, s + m)
           z == SubSeq(u, s + 1, s + m)
<1>5. v \in Seq(Letters) /\ Len(v) = m /\ \A k \in 1 .. m : v[k] = x[s + k]
  BY <1>1, <1>4, Window
<1>6. z \in Seq(Letters) /\ Len(z) = m /\ \A k \in 1 .. m : z[k] = u[s + k]
  <2>1. m \in Nat
    BY <1>4
  <2> HIDE DEF m, a, v
  <2> DEFINE lo == s + 1
             hi == s + m
  <2>2. /\ lo \in Int /\ hi \in Int /\ hi - lo + 1 = m /\ (lo <= hi <=> m # 0)
        /\ \A k \in 1 .. m : lo + k - 1 = s + k
    BY <1>4, <2>1
  <2>3. \A i \in lo .. hi : u[i] \in Letters
    <3>1. \A i \in lo .. hi : i \in 1 .. Len(u)
      BY <1>4, <2>1
    <3> HIDE DEF lo, hi
    <3>2. QED
      BY <1>2, <3>1
  <2> HIDE DEF lo, hi, z
  <2>4. /\ SubSeq(u, lo, hi) \in Seq(Letters)
        /\ Len(SubSeq(u, lo, hi)) = IF lo <= hi THEN hi - lo + 1 ELSE 0
        /\ \A i \in 1 .. hi - lo + 1 : SubSeq(u, lo, hi)[i] = u[lo + i - 1]
    BY <2>2, <2>3, SubSeqProperties
  <2>5. z = SubSeq(u, lo, hi)
    BY DEF z, lo, hi
  <2>6. QED
    BY <2>1, <2>2, <2>4, <2>5
<1>7. \A k \in 1 .. m : u[s + k] = x[s + k]
  <2> TAKE k \in 1 .. m
  <2>1. s + k \in 1 .. a + Len(y) /\ s + k <= a
    BY <1>2, <1>4
  <2>2. QED
    BY <1>2, <2>1
<1>8. v = w
  BY <1>4
<1> HIDE DEF v, z, m, a
<1>9. \A k \in 1 .. m : z[k] = v[k]
  BY <1>5, <1>6, <1>7
<1>10. z = v
  BY <1>5, <1>6, <1>9, SeqEqual
<1>11. OccursAt(w, u, s)
  BY <1>4, <1>8, <1>10 DEF OccursAt, z, m
<1>12. s \in 0 .. Len(u)
  BY <1>2, <1>3
<1>13. QED
  BY <1>11, <1>12 DEF OccursIn, u

\* The arguments of call c that a sequence of fragments tells.
Arguments(frags, c) == CallOf(Kept(frags, Those(c))).arguments

LEMMA ArgumentsConcat ==
    ASSUME NEW s \in Seq(FragmentRecords), NEW t \in Seq(FragmentRecords), NEW c
    PROVE  /\ Arguments(s \o t, c) = Arguments(s, c) \o Arguments(t, c)
           /\ Arguments(s, c) \in Text /\ Arguments(t, c) \in Text
<1> DEFINE g == [f \in FragmentRecords |-> f.arguments]
           T == Those(c)
           a == Kept(s, T)
           b == Kept(t, T)
<1>1. g \in [FragmentRecords -> Seq(Letters)]
  BY DEF FragmentRecords, Text
<1>2. a \in Seq(FragmentRecords) /\ b \in Seq(FragmentRecords)
  BY KeptProperties
<1>3. Kept(s \o t, T) = a \o b
  BY KeptConcat
<1> HIDE DEF a, b, T
<1>4. \A u \in Seq(FragmentRecords) : CallOf(u).arguments = FlattenSeq(Mapped(g, u))
  <2> TAKE u \in Seq(FragmentRecords)
  <2>1. \A k \in DOMAIN u : u[k].arguments = g[u[k]]
    OBVIOUS
  <2> HIDE DEF g
  <2>2. [k \in DOMAIN u |-> u[k].arguments] = Mapped(g, u)
    BY <2>1 DEF Mapped
  <2>3. CallOf(u).arguments = FlattenSeq([k \in DOMAIN u |-> u[k].arguments])
    BY Zenon DEF CallOf
  <2>4. QED
    BY <2>2, <2>3
<1> HIDE DEF g
<1>5. /\ Mapped(g, a \o b) = Mapped(g, a) \o Mapped(g, b)
      /\ Mapped(g, a) \in Seq(Seq(Letters)) /\ Mapped(g, b) \in Seq(Seq(Letters))
  <2> DEFINE S == FragmentRecords
             V == Seq(Letters)
  <2>1. g \in Maps(S, V) /\ a \in Seq(S) /\ b \in Seq(S)
    BY <1>1, <1>2 DEF Maps
  <2> HIDE DEF S, V
  <2>2. Mapped(g, a \o b) = Mapped(g, a) \o Mapped(g, b) /\ Mapped(g, a) \in Seq(V) /\ Mapped(g, b) \in Seq(V)
    BY <2>1, MappedConcat
  <2>3. QED
    BY <2>2 DEF V
<1>6. a \o b \in Seq(FragmentRecords)
  BY <1>2, ConcatProperties
<1>7. FlattenSeq(Mapped(g, a) \o Mapped(g, b)) = FlattenSeq(Mapped(g, a)) \o FlattenSeq(Mapped(g, b))
  BY <1>5, FlattenConcat
<1>8. FlattenSeq(Mapped(g, a)) \in Seq(Letters) /\ FlattenSeq(Mapped(g, b)) \in Seq(Letters)
  BY <1>5, FlattenType
<1>9. /\ Arguments(s \o t, c) = FlattenSeq(Mapped(g, a \o b))
      /\ Arguments(s, c) = FlattenSeq(Mapped(g, a)) /\ Arguments(t, c) = FlattenSeq(Mapped(g, b))
  BY <1>2, <1>3, <1>4, <1>6 DEF Arguments, a, b, T
<1>10. QED
  BY <1>5, <1>7, <1>8, <1>9 DEF Text

LEMMA AssembledPrefix ==
    ASSUME NEW s \in Seq(Frames), NEW t \in Seq(Frames), NEW w, Len(w) \in Nat
    PROVE  /\ OccursIn(w, extract_stream_delta_text(s)) => OccursIn(w, extract_stream_delta_text(s \o t))
           /\ \A c \in DOMAIN Assembled(s).calls :
                 /\ c \in DOMAIN Assembled(s \o t).calls
                 /\ OccursIn(w, Assembled(s).calls[c].arguments) =>
                        OccursIn(w, Assembled(s \o t).calls[c].arguments)
<1> DEFINE u == s \o t
           e == [f \in Frames |-> f.text]
           h == [f \in Frames |-> f.calls]
<1>1. u \in Seq(Frames)
  BY ConcatProperties
<1>2. \A f \in Frames : f.text \in Seq(Letters) /\ f.calls \in Seq(FragmentRecords)
  BY FrameCalls DEF Text
<1>3. e \in [Frames -> Seq(Letters)] /\ h \in [Frames -> Seq(FragmentRecords)]
  BY <1>2
<1>4. \A v \in Seq(Frames) : /\ extract_stream_delta_text(v) = FlattenSeq(Mapped(e, v))
                             /\ CallsOf(v) = Mapped(h, v)
  <2> TAKE v \in Seq(Frames)
  <2>1. DOMAIN v = 1 .. Len(v) /\ \A k \in DOMAIN v : v[k].text = e[v[k]] /\ v[k].calls = h[v[k]]
    OBVIOUS
  <2> HIDE DEF e, h
  <2>2. [k \in DOMAIN v |-> v[k].text] = Mapped(e, v)
    BY <2>1 DEF Mapped
  <2>3. CallsOf(v) = Mapped(h, v)
    BY <2>1 DEF Mapped, CallsOf
  <2>4. extract_stream_delta_text(v) = FlattenSeq([k \in DOMAIN v |-> v[k].text])
    BY Zenon DEF extract_stream_delta_text
  <2>5. QED
    BY <2>2, <2>3, <2>4
<1> HIDE DEF e, h
<1>5. /\ Mapped(e, u) = Mapped(e, s) \o Mapped(e, t)
      /\ Mapped(e, s) \in Seq(Seq(Letters)) /\ Mapped(e, t) \in Seq(Seq(Letters))
  <2> DEFINE S == Frames
             V == Seq(Letters)
  <2>1. e \in Maps(S, V) /\ s \in Seq(S) /\ t \in Seq(S)
    BY <1>3 DEF Maps
  <2> HIDE DEF S, V, u
  <2>2. /\ Mapped(e, s \o t) = Mapped(e, s) \o Mapped(e, t)
        /\ Mapped(e, s) \in Seq(V) /\ Mapped(e, t) \in Seq(V)
    BY <2>1, MappedConcat
  <2>3. QED
    BY <2>2 DEF V, u
<1>6. /\ Mapped(h, u) = Mapped(h, s) \o Mapped(h, t)
      /\ Mapped(h, s) \in Seq(Seq(FragmentRecords)) /\ Mapped(h, t) \in Seq(Seq(FragmentRecords))
  <2> DEFINE S == Frames
             V == Seq(FragmentRecords)
  <2>1. h \in Maps(S, V) /\ s \in Seq(S) /\ t \in Seq(S)
    BY <1>3 DEF Maps
  <2> HIDE DEF S, V, u
  <2>2. /\ Mapped(h, s \o t) = Mapped(h, s) \o Mapped(h, t)
        /\ Mapped(h, s) \in Seq(V) /\ Mapped(h, t) \in Seq(V)
    BY <2>1, MappedConcat
  <2>3. QED
    BY <2>2 DEF V, u
<1>7. extract_stream_delta_text(u) = extract_stream_delta_text(s) \o extract_stream_delta_text(t)
  <2>1. FlattenSeq(Mapped(e, s) \o Mapped(e, t)) = FlattenSeq(Mapped(e, s)) \o FlattenSeq(Mapped(e, t))
    BY <1>5, FlattenConcat
  <2>2. QED
    BY <1>1, <1>4, <1>5, <2>1
<1>8. extract_stream_delta_text(s) \in Text /\ extract_stream_delta_text(t) \in Text
  BY StreamText
<1>9. OccursIn(w, extract_stream_delta_text(s)) => OccursIn(w, extract_stream_delta_text(u))
  BY <1>7, <1>8, OccursPrefix
<1> DEFINE a == FlattenSeq(CallsOf(s))
           b == FlattenSeq(CallsOf(t))
<1>10. a \in Seq(FragmentRecords) /\ b \in Seq(FragmentRecords) /\ FlattenSeq(CallsOf(u)) = a \o b
  <2>1. FlattenSeq(Mapped(h, s) \o Mapped(h, t)) = FlattenSeq(Mapped(h, s)) \o FlattenSeq(Mapped(h, t))
    BY <1>6, FlattenConcat
  <2>2. FlattenSeq(Mapped(h, s)) \in Seq(FragmentRecords) /\ FlattenSeq(Mapped(h, t)) \in Seq(FragmentRecords)
    BY <1>6, FlattenType
  <2>3. QED
    BY <1>1, <1>4, <1>6, <2>1, <2>2
<1>11. \A v \in Seq(Frames) : Assembled(v).calls = Table(FlattenSeq(CallsOf(v)))
  BY AccumulatedIsAssembled, AccumulatedTable
<1>12. Assembled(s).calls = Table(a) /\ Assembled(u).calls = Table(a \o b)
  BY <1>1, <1>10, <1>11
<1> HIDE DEF a, b
<1>13. \A v, c : c \in IndicesOf(v) => c \in DOMAIN Table(v) /\ Table(v)[c].arguments = Arguments(v, c)
  BY DEF Table, Arguments
<1>14. \A v, c : c \in DOMAIN Table(v) => c \in IndicesOf(v)
  BY DEF Table
<1>15. ASSUME NEW c \in DOMAIN Table(a)
       PROVE  /\ c \in DOMAIN Table(a \o b)
              /\ OccursIn(w, Table(a)[c].arguments) => OccursIn(w, Table(a \o b)[c].arguments)
  <2>1. c \in IndicesOf(a)
    BY <1>14
  <2>2. Range(a \o b) = Range(a) \cup Range(b)
    BY <1>10, RangeConcatenation
  <2>3. c \in IndicesOf(a \o b)
    BY <2>1, <2>2 DEF IndicesOf
  <2>4. c \in DOMAIN Table(a \o b) /\ Table(a \o b)[c].arguments = Arguments(a \o b, c)
    BY <1>13, <2>3
  <2>5. Table(a)[c].arguments = Arguments(a, c)
    BY <1>13, <2>1
  <2>6. /\ Arguments(a \o b, c) = Arguments(a, c) \o Arguments(b, c)
        /\ Arguments(a, c) \in Text /\ Arguments(b, c) \in Text
    BY <1>10, ArgumentsConcat
  <2>7. OccursIn(w, Arguments(a, c)) => OccursIn(w, Arguments(a \o b, c))
    BY <2>6, OccursPrefix
  <2>8. QED
    BY <2>4, <2>5, <2>7
<1>16. QED
  BY <1>9, <1>12, <1>15 DEF u

(* Nothing that is to be hidden reaches the one who is guarded *)

HiddenIn(r, message) ==
    \/ \E p \in DOMAIN message.parts : OccursIn(Words[r], message.parts[p])
    \/ guardrail = "output_leak"
       /\ \E c \in DOMAIN message.calls : OccursIn(Words[r], message.calls[c].arguments)

\* What is hidden, and is not only to be redacted, blocks.
LEMMA BlockedIsFound ==
    ASSUME NEW message, IsMessage(message), NEW i \in Nat, InScope(message), policy \in Policies,
           NEW r \in Patterns, Hidden(r), guardrail \in {"prompt_injection", "output_leak"}
    PROVE  /\ HiddenIn(r, message) =>
                  \E m \in MessageHits(guardrail, i, message, policy) : m.action \in {"redact", "block"}
           /\ policy.action[r] = "block" /\ HiddenIn(r, message) =>
                  \E m \in MessageHits(guardrail, i, message, policy) : m.action = "block"
           /\ guardrail = "output_leak"
                  /\ (\E c \in DOMAIN message.calls : OccursIn(Words[r], message.calls[c].arguments)) =>
                  \E m \in MessageHits(guardrail, i, message, policy) : m.action = "block"
<1> DEFINE H == MessageHits(guardrail, i, message, policy)
<1>1. Enabled(r, policy) /\ policy.action[r] \in {"redact", "block"}
  BY DEF Hidden
<1>2. ~(guardrail = "prompt_injection" /\ policy.scope = "user_messages_only" /\ message.role # "user")
  BY DEF InScope
<1>3. ContentHits(i, message.parts, policy) \subseteq H
  BY <1>2 DEF MessageHits
<1>4. guardrail = "output_leak" => CallHits(i, message.calls, policy) \subseteq H
  BY DEF MessageHits
<1> HIDE DEF H
<1>5. ASSUME NEW p \in DOMAIN message.parts, OccursIn(Words[r], message.parts[p])
      PROVE  \E m \in H : m.action = policy.action[r]
  BY <1>1, <1>3, <1>5, MatchedIsFound
<1>6. ASSUME guardrail = "output_leak", NEW c \in DOMAIN message.calls,
             OccursIn(Words[r], message.calls[c].arguments)
      PROVE  \E m \in H : m.action = "block"
  <2>1. PICK m \in CallHits(i, message.calls, policy) :
            m.action = IF policy.action[r] = "redact" THEN "block" ELSE policy.action[r]
    BY <1>1, <1>6, MatchedIsFound
  <2>2. m.action = "block"
    BY <1>1, <2>1
  <2>3. QED
    BY <1>4, <1>6, <2>2
<1>7. QED
  BY <1>1, <1>5, <1>6 DEF HiddenIn, H

\* What is handed on as JSON hides it.
LEMMA HandedOnHides ==
    ASSUME IInv, stage = "done", ~streaming, policy.enabled, NEW i \in DOMAIN original,
           InScope(original[i]), NEW r \in Patterns, Hidden(r)
    PROVE  ~HiddenIn(r, messages[i])
<1> DEFINE message == original[i]
           all == FlattenSeq(Results)
           H == MessageHits(guardrail, i, message, policy)
<1>1. TypeOK /\ Turns /\ Log /\ RedactionExact
  BY ExactnessFollows DEF IInv
<1>2. /\ policy \in Policies /\ original \in Seq(Messages)
      /\ guardrail \in {"prompt_injection", "output_leak"}
  BY <1>1, Typing DEF TypeOK
<1>3. i \in Nat /\ message \in Messages
  BY <1>2
<1>4. IsMessage(message)
  BY <1>3, MessageFacts
<1>5. resolve_overall_action(all) # "block"
  <2>1. action = resolve_overall_action(Matches) /\ action # "block"
    BY <1>1 DEF Log, Scanned
  <2>2. QED
    BY <2>1 DEF Matches
<1>6. Scans(all, GivenHits)
  BY <1>1, MatchesScan DEF Matches
<1>7. H \subseteq GivenHits
  BY DEF GivenHits, AllHits, Given
<1>8. messages[i] = IF ToRedact(original[i])
                    THEN [original[i] EXCEPT !.parts = [p \in DOMAIN @ |-> Redaction(@[p])]]
                    ELSE original[i]
  BY <1>1 DEF RedactionExact
<1>9. messages[i] = IF ToRedact(message)
                    THEN [message EXCEPT !.parts = [p \in DOMAIN message.parts |-> Redaction(message.parts[p])]]
                    ELSE message
  BY <1>8
<1> HIDE DEF message, all, H
<1>10. \A m \in H : m.action # "block"
  <2>1. all \in Seq(MatchRecords) /\ Range(all) = GivenHits
    BY <1>6 DEF Scans
  <2>2. ~Has(all, "block")
    BY <1>5, <2>1, ResolveFacts
  <2>3. QED
    BY <1>7, <2>1, <2>2 DEF Has
<1>11. InScope(message)
  BY DEF message
<1>12. ~(guardrail = "output_leak"
           /\ \E c \in DOMAIN message.calls : OccursIn(Words[r], message.calls[c].arguments))
  BY <1>2, <1>3, <1>4, <1>10, <1>11, BlockedIsFound DEF H
<1>13. policy.action[r] = "block" => ~HiddenIn(r, message)
  BY <1>2, <1>3, <1>4, <1>10, <1>11, BlockedIsFound DEF H
<1>14. CASE ToRedact(message)
  <2> DEFINE redacted == [message EXCEPT !.parts = [p \in DOMAIN message.parts |-> Redaction(message.parts[p])]]
  <2>1. message \in [role : STRING, parts : Seq(Text), calls : Seq(Calls)]
    BY <1>3 DEF Messages
  <2>2. /\ redacted.calls = message.calls
        /\ redacted.parts = [p \in DOMAIN message.parts |-> Redaction(message.parts[p])]
    BY <2>1
  <2>3. messages[i] = redacted
    BY <1>9, <1>14
  <2> HIDE DEF redacted
  <2>4. ASSUME NEW p \in DOMAIN redacted.parts
        PROVE  ~OccursIn(Words[r], redacted.parts[p])
    <3>1. p \in DOMAIN message.parts /\ redacted.parts[p] = Redaction(message.parts[p])
      BY <2>2
    <3>2. message.parts[p] \in Text
      <4>1. message.parts \in Seq(Text)
        BY <1>4 DEF IsMessage
      <4>2. QED
        BY <3>1, <4>1
    <3>3. Enabled(r, policy)
      BY DEF Hidden
    <3>4. QED
      BY <3>1, <3>2, <3>3, RedactionHides
  <2>5. QED
    BY <1>12, <2>2, <2>3, <2>4 DEF HiddenIn
<1>15. CASE ~ToRedact(message)
  <2>1. messages[i] = message
    BY <1>9, <1>15
  <2>2. SUFFICES ASSUME HiddenIn(r, message) PROVE FALSE
    BY <2>1
  <2>3. Enabled(r, policy) /\ policy.action[r] \in {"redact", "block"}
    BY DEF Hidden
  <2>4. policy.action[r] = "redact"
    BY <1>13, <2>2, <2>3
  <2>5. r \in Matched(message)
    BY <2>2, <2>3 DEF Matched, HiddenIn
  <2>6. QED
    BY <1>11, <1>15, <2>4, <2>5 DEF ToRedact
<1>16. QED
  BY <1>14, <1>15

LEMMA NothingTold ==
    ASSUME NEW message, message.parts = << <<>> >>, DOMAIN message.calls = {}, NEW r \in Patterns
    PROVE  ~HiddenIn(r, message)
<1>1. Len(Words[r]) \in Nat /\ Len(Words[r]) > 0
  BY WordFacts
<1>2. ~OccursIn(Words[r], <<>>)
  <2>1. Len(<<>>) = 0
    BY EmptySeq
  <2>2. QED
    BY <1>1, <2>1 DEF OccursIn, OccursAt
<1>3. DOMAIN message.parts = {1} /\ message.parts[1] = <<>>
  OBVIOUS
<1>4. QED
  BY <1>2, <1>3 DEF HiddenIn

LEMMA EmptyStreams ==
    /\ Assembled(<<>>).parts = << <<>> >> /\ DOMAIN Assembled(<<>>).calls = {}
    /\ Assembled(<<ErrorFrame>>).parts = << <<>> >> /\ DOMAIN Assembled(<<ErrorFrame>>).calls = {}
<1>1. \A frames : /\ Assembled(frames).parts = <<FlattenSeq([k \in DOMAIN frames |-> frames[k].text])>>
                  /\ DOMAIN Assembled(frames).calls = CallIndices(frames) \ {NoIndex}
  BY DEF Assembled
<1> DEFINE none == <<>>
<1>2. DOMAIN none = {} /\ [k \in DOMAIN none |-> none[k].text] = <<>>
  OBVIOUS
<1> HIDE DEF none
<1>3. CallIndices(none) = {}
  BY <1>2 DEF CallIndices
<1> DEFINE frames == <<ErrorFrame>>
<1>4. DOMAIN frames = {1} /\ frames[1].text = <<>> /\ frames[1].calls = <<>>
  BY DEF ErrorFrame
<1> HIDE DEF frames
<1>5. [k \in DOMAIN frames |-> frames[k].text] = << <<>> >>
  BY <1>4
<1>6. FlattenSeq(<< <<>> >>) = <<>>
  <2>1. <<>> \in Seq(Letters)
    BY EmptySeq
  <2>2. QED
    BY <2>1, FlattenOne
<1>7. CallIndices(frames) = {}
  <2>1. Range(<<>>) = {}
    BY DEF Range
  <2>2. QED
    BY <1>4, <2>1 DEF CallIndices
<1>8. Assembled(none).parts = << <<>> >> /\ DOMAIN Assembled(none).calls = {}
  BY <1>1, <1>2, <1>3, FlattenEmpty
<1>9. Assembled(frames).parts = << <<>> >> /\ DOMAIN Assembled(frames).calls = {}
  BY <1>1, <1>5, <1>6, <1>7
<1>10. QED
  BY <1>8, <1>9 DEF frames, none

\* The entries of a redacted chunk's calls have no index, and no client puts
\* them together.
LEMMA NoCallsTold ==
    ASSUME NEW t, NEW acc
    PROVE  DOMAIN Assembled(<<Chunk(t, assembled_tool_calls(acc))>>).calls = {}
<1> DEFINE calls == assembled_tool_calls(acc)
           frames == <<Chunk(t, calls)>>
<1>1. \A f \in Range(calls) : f.index = NoIndex
  BY DEF assembled_tool_calls, Range
<1> HIDE DEF calls
<1>2. DOMAIN frames = {1} /\ frames[1].calls = calls
  BY DEF Chunk
<1> HIDE DEF frames
<1>3. CallIndices(frames) \subseteq {NoIndex}
  BY <1>1, <1>2 DEF CallIndices
<1>4. DOMAIN Assembled(frames).calls = CallIndices(frames) \ {NoIndex}
  BY DEF Assembled
<1>5. QED
  BY <1>3, <1>4 DEF frames, calls

\* When nothing is to be hidden, there is nothing to be hidden.
LEMMA ReceivedHides ==
    ASSUME TypeOK, Turns, streaming, policy.enabled, NEW r \in Patterns, Hidden(r),
           resolve_overall_action(Matches) \notin {"redact", "block"}
    PROVE  ~HiddenIn(r, Assembled(received))
<1> DEFINE message == Assembled(received)
           H == MessageHits(guardrail, 1, message, policy)
<1>1. policy \in Policies
  BY Typing
<1>2. /\ guardrail = "output_leak" /\ Given = <<message>> /\ IsMessage(message)
      /\ Matches \in Seq(MatchRecords)
  BY StreamResults
<1>3. Range(Matches) = AllHits(guardrail, <<message>>, policy)
  BY <1>2, MatchesScan DEF Scans, GivenHits
<1> HIDE DEF message
<1>4. AllHits(guardrail, <<message>>, policy) = H
  <2>1. DOMAIN <<message>> = {1} /\ <<message>>[1] = message
    OBVIOUS
  <2>2. QED
    BY <2>1 DEF AllHits
<1>5. \A m \in H : m.action \notin {"redact", "block"}
  BY <1>2, <1>3, <1>4, ResolveFacts DEF Has
<1>6. InScope(message)
  BY <1>2 DEF InScope
<1>7. 1 \in Nat
  OBVIOUS
<1> HIDE DEF H
<1>8. HiddenIn(r, message) => \E m \in H : m.action \in {"redact", "block"}
  <2>1. \A i \in Nat : HiddenIn(r, message) =>
            \E m \in MessageHits(guardrail, i, message, policy) : m.action \in {"redact", "block"}
    BY <1>1, <1>2, <1>6, BlockedIsFound
  <2>2. QED
    BY <1>7, <2>1 DEF H
<1>9. QED
  BY <1>5, <1>8 DEF message

LEMMA PrefixHides ==
    ASSUME NEW s \in Seq(Frames), NEW t \in Seq(Frames), NEW r \in Patterns,
           ~HiddenIn(r, Assembled(s \o t))
    PROVE  ~HiddenIn(r, Assembled(s))
<1> DEFINE u == s \o t
           x == extract_stream_delta_text(s)
           z == extract_stream_delta_text(u)
<1>1. u \in Seq(Frames)
  BY ConcatProperties
<1>2. Len(Words[r]) \in Nat
  BY WordFacts
<1>3. /\ OccursIn(Words[r], x) => OccursIn(Words[r], z)
      /\ \A c \in DOMAIN Assembled(s).calls :
            /\ c \in DOMAIN Assembled(u).calls
            /\ OccursIn(Words[r], Assembled(s).calls[c].arguments) =>
                   OccursIn(Words[r], Assembled(u).calls[c].arguments)
  BY <1>2, AssembledPrefix
<1> HIDE DEF u
<1>4. Assembled(s).parts = <<x>> /\ Assembled(u).parts = <<z>>
  BY <1>1, StreamText
<1> HIDE DEF x, z
<1>5. DOMAIN <<x>> = {1} /\ <<x>>[1] = x /\ DOMAIN <<z>> = {1} /\ <<z>>[1] = z
  OBVIOUS
<1>6. HiddenIn(r, Assembled(s)) => HiddenIn(r, Assembled(u))
  BY <1>3, <1>4, <1>5 DEF HiddenIn
<1>7. QED
  BY <1>6 DEF u

\* What a client has been sent of a stream.
LEMMA SentHides ==
    ASSUME IInv, streaming, policy.enabled, NEW r \in Patterns, Hidden(r)
    PROVE  ~HiddenIn(r, Assembled(sent))
<1>1. TypeOK /\ Turns /\ Log /\ Sent
  BY DEF IInv
<1>2. received \in Seq(Frames)
  BY <1>1, Typing
<1>3. ~Live
  <2>1. policy.action[r] \in {"redact", "block"}
    BY DEF Hidden
  <2>2. r \in Patterns \ Custom \/ r \in Custom
    OBVIOUS
  <2>3. QED
    BY <2>1, <2>2 DEF Live, requires_buffering
<1>4. Scanned => action = resolve_overall_action(Matches)
  BY <1>1 DEF Log
<1>5. CASE sent = <<>>
  BY <1>5, EmptyStreams, NothingTold
<1>6. CASE sent = <<ErrorFrame>>
  BY <1>6, EmptyStreams, NothingTold
<1>7. CASE ~Scanned
  BY <1>1, <1>3, <1>5, <1>7 DEF Sent
<1>8. CASE stage = "refused"
  BY <1>1, <1>3, <1>6, <1>8 DEF Sent
<1>9. CASE stage = "done" /\ action # "redact"
  <2>1. sent = received
    BY <1>1, <1>3, <1>9 DEF Sent
  <2>2. action \notin {"redact", "block"}
    BY <1>1, <1>9 DEF Log
  <2>3. QED
    BY <1>1, <1>4, <1>9, <2>1, <2>2, ReceivedHides DEF Scanned
<1>10. CASE stage = "done" /\ action = "redact"
  <2> DEFINE text == extract_stream_delta_text(received)
             t == redact_text(text, PartOf(Matches, 1))
             acc == Accumulated(received)
             chunk == Chunk(t, assembled_tool_calls(acc))
  <2>1. sent = <<RedactedChunk>>
    BY <1>1, <1>3, <1>10 DEF Sent
  <2>2. text \in Text /\ ContentOf(Matches) = PartOf(Matches, 1) /\ MatchesOf(PartOf(Matches, 1), text)
    BY <1>1, StreamTextMatches
  <2>3. RedactedChunk = chunk
    BY <2>2 DEF RedactedChunk
  <2>4. t \in Seq(Int) /\ t = Redaction(text)
    BY <2>2, RedactTextIsRedaction
  <2> HIDE DEF t, acc, text
  <2>5. Assembled(<<chunk>>).parts = <<t>> /\ DOMAIN Assembled(<<chunk>>).calls = {}
    BY <2>4, OneChunk, NoCallsTold
  <2> HIDE DEF chunk
  <2>6. DOMAIN <<t>> = {1} /\ <<t>>[1] = t
    OBVIOUS
  <2>7. ~OccursIn(Words[r], t)
    BY <2>2, <2>4, RedactionHides DEF Hidden
  <2>8. ~HiddenIn(r, Assembled(<<chunk>>))
    BY <2>5, <2>6, <2>7 DEF HiddenIn
  <2>9. QED
    BY <2>1, <2>3, <2>8
<1>11. CASE stage \in {"record", "failed"} /\ sent # <<>>
  <2>1. /\ Len(sent) \in 0 .. Len(received) /\ sent = SubSeq(received, 1, Len(sent))
        /\ action \in {"disabled", "flag"}
    BY <1>1, <1>3, <1>11 DEF Sent
  <2>2. ~HiddenIn(r, Assembled(received))
    BY <1>1, <1>4, <1>11, <2>1, ReceivedHides DEF Scanned
  <2> DEFINE l == Len(sent)
             n == Len(received)
             rest == SubSeq(received, l + 1, n)
  <2>3. n \in Nat /\ l \in 0 .. n
    BY <1>2, <2>1
  <2> HIDE DEF l
  <2>4. /\ SubSeq(received, 1, l) \in Seq(Frames) /\ rest \in Seq(Frames)
        /\ SubSeq(received, 1, l) \o rest = received
    <3>1. SubSeq(received, 1, l) \in Seq(Frames)
      BY <1>2, <2>3, SubSeqProperties
    <3>2. rest \in Seq(Frames)
      BY <1>2, <2>3, SubSeqProperties
    <3>3. SubSeq(received, 1, n) = received
      BY <1>2, SubSeqFull
    <3>4. SubSeq(received, 1, l) \o rest = SubSeq(received, 1, n)
      <4>1. \A m \in 1 .. Len(received) + 1 : \A k \in m - 1 .. Len(received) :
              \A o \in k .. Len(received) :
                SubSeq(received, m, k) \o SubSeq(received, k + 1, o) = SubSeq(received, m, o)
        BY <1>2, ConcatAdjacentSubSeq
      <4>2. /\ 1 \in 1 .. Len(received) + 1 /\ l \in 1 - 1 .. Len(received)
            /\ n \in l .. Len(received)
        BY <2>3
      <4> HIDE DEF n
      <4>3. QED
        BY <4>1, <4>2
    <3>5. QED
      BY <3>1, <3>2, <3>3, <3>4
  <2>5. QED
    BY <2>1, <2>2, <2>4, PrefixHides DEF l
<1>12. QED
  BY <1>1, <1>5, <1>7, <1>8, <1>9, <1>10, <1>11 DEF Scanned

\* What is told beside the content and the calls in one frame.
LEMMA LooseOfOne ==
    ASSUME NEW frame, NEW T, frame.aside = <<>>,
           \A f \in Range(frame.calls) : f.arguments \in T
    PROVE  Loose(<<frame>>) \subseteq T \cup {<<>>}
<1>1. DOMAIN <<frame>> = {1} /\ <<frame>>[1] = frame
  OBVIOUS
<1>2. QED
  BY <1>1 DEF Loose

\* Arguments that are to be hidden refuse the stream, so that those of a
\* redacted one have nothing to hide.
LEMMA RedactedCallsHide ==
    ASSUME TypeOK, Turns, streaming, policy.enabled, NEW r \in Patterns, Hidden(r),
           resolve_overall_action(Matches) # "block",
           NEW c \in DOMAIN Assembled(received).calls
    PROVE  ~OccursIn(Words[r], Assembled(received).calls[c].arguments)
<1> DEFINE message == Assembled(received)
           H == MessageHits(guardrail, 1, message, policy)
<1>1. policy \in Policies
  BY Typing
<1>2. /\ guardrail = "output_leak" /\ Given = <<message>> /\ IsMessage(message)
      /\ Matches \in Seq(MatchRecords)
  BY StreamResults
<1>3. Range(Matches) = AllHits(guardrail, <<message>>, policy)
  BY <1>2, MatchesScan DEF Scans, GivenHits
<1>4. c \in DOMAIN message.calls
  OBVIOUS
<1> HIDE DEF message
<1>5. AllHits(guardrail, <<message>>, policy) = H
  <2>1. DOMAIN <<message>> = {1} /\ <<message>>[1] = message
    OBVIOUS
  <2>2. QED
    BY <2>1 DEF AllHits
<1>6. \A m \in H : m.action # "block"
  BY <1>2, <1>3, <1>5, ResolveFacts DEF Has
<1>7. InScope(message)
  BY <1>2 DEF InScope
<1>8. \A i \in Nat : (\E k \in DOMAIN message.calls : OccursIn(Words[r], message.calls[k].arguments)) =>
          \E m \in MessageHits(guardrail, i, message, policy) : m.action = "block"
  BY <1>1, <1>2, <1>7, BlockedIsFound
<1>9. 1 \in Nat
  OBVIOUS
<1>10. ~(\E k \in DOMAIN message.calls : OccursIn(Words[r], message.calls[k].arguments))
  BY <1>6, <1>8, <1>9
<1>11. QED
  BY <1>4, <1>10 DEF message

\* Where the scan has found something to hide, nothing that it has not read
\* gets out beside it.
LEMMA LooseHides ==
    ASSUME IInv, policy.enabled, streaming, action \in {"redact", "block"},
           NEW r \in Patterns, Hidden(r), NEW text \in Loose(sent)
    PROVE  ~OccursIn(Words[r], text)
<1>1. TypeOK /\ Turns /\ Log /\ Sent
  BY DEF IInv
<1>2. ~OccursIn(Words[r], <<>>)
  <2>1. Len(Words[r]) \in Nat /\ Len(Words[r]) > 0 /\ Len(<<>>) = 0
    BY WordFacts, EmptySeq
  <2>2. QED
    BY <2>1 DEF OccursIn, OccursAt
<1>3. ~Live
  <2>1. policy.action[r] \in {"redact", "block"}
    BY DEF Hidden
  <2>2. r \in Patterns \ Custom \/ r \in Custom
    OBVIOUS
  <2>3. QED
    BY <2>1, <2>2 DEF Live, requires_buffering
<1>4. Scanned => action = resolve_overall_action(Matches)
  BY <1>1 DEF Log
<1>5. CASE sent = <<>>
  <2> DEFINE none == <<>>
  <2>1. DOMAIN none = {}
    OBVIOUS
  <2> HIDE DEF none
  <2>2. Loose(none) = {}
    BY <2>1 DEF Loose
  <2>3. QED
    BY <1>5, <2>2 DEF none
<1>6. CASE sent = <<ErrorFrame>>
  <2>1. ErrorFrame.aside = <<>> /\ ErrorFrame.calls = <<>> /\ Range(<<>>) = {}
    BY DEF ErrorFrame, Range
  <2>2. Loose(<<ErrorFrame>>) \subseteq {} \cup {<<>>}
    BY <2>1, LooseOfOne
  <2>3. QED
    BY <1>2, <1>6, <2>2
<1>7. CASE stage = "done" /\ action = "redact"
  <2> DEFINE acc == Accumulated(received)
             calls == assembled_tool_calls(acc)
             T == {acc[c].arguments : c \in DOMAIN acc}
  <2>1. sent = <<RedactedChunk>>
    BY <1>1, <1>3, <1>7 DEF Sent
  <2>2. RedactedChunk.aside = <<>> /\ RedactedChunk.calls = calls
    BY DEF RedactedChunk, Chunk
  <2>3. /\ received \in Seq(Frames)
        /\ acc = Assembled(received).calls /\ IsMessage(Assembled(received))
    BY <1>1, Typing, StreamResults, AccumulatedIsAssembled
  <2>4. \A c \in DOMAIN acc : ~OccursIn(Words[r], acc[c].arguments)
    <3>1. \A c \in DOMAIN Assembled(received).calls :
              ~OccursIn(Words[r], Assembled(received).calls[c].arguments)
      BY <1>1, <1>4, <1>7, RedactedCallsHide DEF Scanned
    <3>2. QED
      BY <2>3, <3>1
  <2> HIDE DEF acc
  <2>5. \A f \in Range(calls) : f.arguments \in T
    <3>1. IsCallTable(acc)
      BY <2>3 DEF IsMessage
    <3>2. /\ Indices(acc) \in Seq(DOMAIN acc)
          /\ \A k \in DOMAIN Indices(acc) : Indices(acc)[k] \in DOMAIN acc
      BY <3>1, IndicesProperties
    <3>3. QED
      BY <3>2 DEF assembled_tool_calls, Range
  <2> HIDE DEF calls, T
  <2>6. Loose(<<RedactedChunk>>) \subseteq T \cup {<<>>}
    BY <2>2, <2>5, LooseOfOne
  <2>7. \A t \in T : ~OccursIn(Words[r], t)
    BY <2>4 DEF T
  <2>8. QED
    BY <1>2, <2>1, <2>6, <2>7
<1>8. CASE ~Scanned \/ stage = "refused"
  BY <1>1, <1>3, <1>5, <1>6, <1>8 DEF Sent
<1>9. CASE stage = "done" /\ action = "block"
  BY <1>1, <1>9 DEF Log
<1>10. CASE stage \in {"record", "failed"}
  BY <1>1, <1>3, <1>5, <1>10 DEF Sent
<1>11. QED
  BY <1>7, <1>8, <1>9, <1>10 DEF Scanned

LEMMA HidingFollows ==
    ASSUME IInv
    PROVE  NothingLeaks
<1>0. policy.enabled /\ streaming /\ action \in {"redact", "block"} =>
          \A r \in Patterns : Hidden(r) => \A text \in Loose(sent) : ~OccursIn(Words[r], text)
  BY LooseHides
<1> SUFFICES ASSUME policy.enabled, NEW i \in DOMAIN Delivered, InScope(Delivered[i]),
                    NEW r \in Patterns, Hidden(r)
             PROVE  ~HiddenIn(r, Delivered[i])
  BY <1>0 DEF NothingLeaks, HiddenIn
<1>1. CASE streaming
  <2>1. Delivered = <<Assembled(sent)>>
    BY <1>1 DEF Delivered
  <2>2. DOMAIN <<Assembled(sent)>> = {1} /\ <<Assembled(sent)>>[1] = Assembled(sent)
    OBVIOUS
  <2>3. Delivered[i] = Assembled(sent)
    BY <2>1, <2>2
  <2>4. QED
    BY <1>1, <2>3, SentHides
<1>2. CASE ~streaming
  <2>1. stage = "done" /\ Delivered = messages
    BY <1>2 DEF Delivered
  <2>2. i \in DOMAIN original
    BY <2>1 DEF IInv, TypeOK
  <2>3. InScope(original[i])
    <3>1. messages[i] = IF ToRedact(original[i])
                        THEN [original[i] EXCEPT !.parts = [p \in DOMAIN @ |-> Redaction(@[p])]]
                        ELSE original[i]
      BY <1>2, <2>1, <2>2, ExactnessFollows DEF RedactionExact
    <3>2. original[i].role = messages[i].role
      BY <3>1
    <3>3. QED
      BY <2>1, <3>2 DEF InScope
  <2>4. QED
    BY <1>2, <2>1, <2>2, <2>3, HandedOnHides
<1>3. QED
  BY <1>1, <1>2

\* Nothing that the guardrails have read and are to hide reaches the model or
\* the client; and where they have found such a thing in a stream, nothing of
\* it that they have not read does.
THEOREM NothingHiddenGetsOut == Spec => []NothingLeaks
<1>1. IInv => NothingLeaks
  BY HidingFollows
<1>2. QED
  BY <1>1, Invariant, PTL

=============================================================================
