--------------------------- MODULE SequenceFacts ---------------------------
(***************************************************************************)
(* What the proofs about sequences of steps rest on.  Induction over the   *)
(* naturals by sets: the library's induction theorems take an operator,    *)
(* which no prover here instantiates; a set they can.  With it, what       *)
(* FlattenSeq, a recursive function, makes of sequences.  Split: a         *)
(* sequence with a landmark, and what lies before and behind it.  Fed: a   *)
(* sequence where what is needed was brought, and not taken away since.    *)
(***************************************************************************)
EXTENDS Naturals, Sequences, SequencesExt, SequenceTheorems, WellFoundedInduction, TLAPS

\* A set of naturals that is not empty has a least element.
LEMMA Least ==
    ASSUME NEW S, S \subseteq Nat, S # {}
    PROVE  \E m \in S : \A k \in S : m <= k
<1>1. \A k, m \in Nat : <<k, m>> \in OpToRel(<, Nat) <=> k < m
  BY DEF OpToRel
<1>2. \E m \in S : \A k \in S : ~ (<<k, m>> \in OpToRel(<, Nat))
  BY NatLessThanWellFounded, WFMin, Zenon
<1>3. PICK m \in S : \A k \in S : ~ (<<k, m>> \in OpToRel(<, Nat))
  BY <1>2
<1>4. \A k \in S : ~(k < m)
  BY <1>1, <1>3, Zenon
<1>5. QED BY <1>4

\* A set that holds 0 and the successor of each of its naturals holds them all.
LEMMA Induct ==
    ASSUME NEW S, 0 \in S, \A n \in Nat : n \in S => n + 1 \in S
    PROVE  Nat \subseteq S
<1>1. SUFFICES ASSUME Nat \ S # {}
               PROVE  FALSE
  OBVIOUS
<1>2. PICK m \in Nat \ S : \A k \in Nat \ S : m <= k
  BY <1>1, Least
<1>3. m - 1 \in Nat /\ m - 1 \notin Nat \ S
  BY <1>2
<1>4. QED BY <1>2, <1>3

\* f concatenates the first sequences of s, as FlattenSeq does.
Flattens(f, s, n) == f = [i \in 1..n |-> IF i = 1 THEN s[i] ELSE f[i - 1] \o s[i]]

\* There is such a function for any number of them.
LEMMA FlattenExists ==
    ASSUME NEW s, NEW n \in Nat
    PROVE  \E f : Flattens(f, s, n)
<1> DEFINE P == {k \in Nat : \E f : Flattens(f, s, k)}
<1>1. 0 \in P
  <2>1. Flattens([i \in 1..0 |-> 0], s, 0)
    BY DEF Flattens
  <2>2. QED BY <2>1
<1>2. ASSUME NEW k \in Nat, k \in P
      PROVE  k + 1 \in P
  <2>1. PICK f : Flattens(f, s, k)
    BY <1>2
  <2> DEFINE next == IF k = 0 THEN s[1] ELSE f[k] \o s[k + 1]
             g == [i \in 1..(k + 1) |-> IF i = k + 1 THEN next ELSE f[i]]
  <2>2. \A i \in 1..k : f[i] = IF i = 1 THEN s[i] ELSE f[i - 1] \o s[i]
    BY <2>1 DEF Flattens
  <2>3. \A i \in 1..(k + 1) : g[i] = IF i = 1 THEN s[i] ELSE g[i - 1] \o s[i]
    <3>1. TAKE i \in 1..(k + 1)
    <3>2. CASE i = k + 1
      <4>1. i # 1 => g[i - 1] = f[k] /\ k # 0
        BY <3>2
      <4>2. QED BY <3>2, <4>1
    <3>3. CASE i \in 1..k
      <4>1. i # 1 => g[i - 1] = f[i - 1]
        BY <3>3
      <4>2. g[i] = f[i]
        BY <3>3
      <4>3. QED BY <2>2, <3>3, <4>1, <4>2
    <3>4. QED BY <3>2, <3>3
  <2>4. Flattens(g, s, k + 1)
    BY <2>3 DEF Flattens
  <2>5. QED BY <2>4
<1> HIDE DEF P
<1>3. n \in P
  BY <1>1, <1>2, Induct
<1>4. QED BY <1>3 DEF P

\* The concatenation of sequences over T is a sequence over T.
LEMMA FlattenTypes ==
    ASSUME NEW T, NEW s \in Seq(Seq(T))
    PROVE  FlattenSeq(s) \in Seq(T)
<1>1. CASE Len(s) = 0
  BY <1>1 DEF FlattenSeq
<1>2. CASE Len(s) # 0
  <2> DEFINE fl == CHOOSE f :
                       f = [i \in 1..Len(s) |-> IF i = 1 THEN s[i] ELSE f[i - 1] \o s[i]]
  <2>1. Flattens(fl, s, Len(s))
    <3>1. Len(s) \in Nat
      OBVIOUS
    <3>2. \E f : Flattens(f, s, Len(s))
      BY <3>1, FlattenExists
    <3>3. QED BY <3>2, Zenon DEF Flattens
  <2>2. FlattenSeq(s) = fl[Len(s)]
    BY <1>2 DEF FlattenSeq
  <2> HIDE DEF fl
  <2>3. \A i \in 1..Len(s) : fl[i] = IF i = 1 THEN s[i] ELSE fl[i - 1] \o s[i]
    BY <2>1 DEF Flattens
  <2> DEFINE P == {k \in Nat : k \in 1..Len(s) => fl[k] \in Seq(T)}
  <2>4. 0 \in P
    OBVIOUS
  <2>5. ASSUME NEW k \in Nat, k \in P
        PROVE  k + 1 \in P
    <3>1. SUFFICES ASSUME k + 1 \in 1..Len(s)
                   PROVE  fl[k + 1] \in Seq(T)
      OBVIOUS
    <3>2. s[k + 1] \in Seq(T)
      BY <3>1
    <3>3. CASE k = 0
      BY <2>3, <3>1, <3>2, <3>3
    <3>4. CASE k # 0
      <4>1. fl[k] \in Seq(T)
        BY <2>5, <3>1, <3>4
      <4>2. fl[k + 1] = fl[k] \o s[k + 1]
        <5>1. k + 1 # 1 /\ (k + 1) - 1 = k
          BY <3>4
        <5>2. fl[k + 1] = IF k + 1 = 1 THEN s[k + 1] ELSE fl[(k + 1) - 1] \o s[k + 1]
          BY <2>3, <3>1
        <5>3. QED BY <5>1, <5>2
      <4>3. QED BY <3>2, <4>1, <4>2
    <3>5. QED BY <3>3, <3>4
  <2> HIDE DEF P
  <2>6. Len(s) \in P
    BY <2>4, <2>5, Induct
  <2>7. QED BY <1>2, <2>2, <2>6 DEF P
<1>3. QED BY <1>1, <1>2

-----------------------------------------------------------------------------
(* Sequences with a landmark. *)

\* A sequence of elements of B, whatever else they are, is a sequence over B.
LEMMA Retype ==
    ASSUME NEW U, NEW B, NEW s \in Seq(U), \A j \in 1..Len(s) : s[j] \in B
    PROVE  s \in Seq(B)
<1>1. Len(s) \in Nat /\ s \in [1..Len(s) -> U]
  BY LenProperties
<1>2. s \in [1..Len(s) -> B]
  BY <1>1
<1>3. QED BY <1>1, <1>2, SeqDef

\* Somewhere in s stands an element of Q, after elements of A and before elements of B.
Split(s, A, Q, B) ==
    \E i \in 1..Len(s) :
        /\ s[i] \in Q
        /\ \A j \in 1..Len(s) : (j < i => s[j] \in A) /\ (i < j => s[j] \in B)

\* What may precede the landmark may be put before.
LEMMA SplitRight ==
    ASSUME NEW U, NEW A, NEW Q, NEW B, NEW s \in Seq(U), NEW t \in Seq(U),
           s \in Seq(A), Split(t, A, Q, B)
    PROVE  Split(s \o t, A, Q, B)
<1>1. PICK i \in 1..Len(t) :
          /\ t[i] \in Q
          /\ \A j \in 1..Len(t) : (j < i => t[j] \in A) /\ (i < j => t[j] \in B)
  BY DEF Split
<1>2. /\ Len(s \o t) = Len(s) + Len(t)
      /\ \A j \in 1..(Len(s) + Len(t)) : (s \o t)[j] = IF j <= Len(s) THEN s[j] ELSE t[j - Len(s)]
  OBVIOUS
<1>3. Len(s) + i \in 1..Len(s \o t) /\ (s \o t)[Len(s) + i] \in Q
  BY <1>1, <1>2
<1>4. ASSUME NEW j \in 1..Len(s \o t)
      PROVE  (j < Len(s) + i => (s \o t)[j] \in A) /\ (Len(s) + i < j => (s \o t)[j] \in B)
  <2>1. CASE j <= Len(s)
    BY <1>1, <1>2, <2>1
  <2>2. CASE j > Len(s)
    <3>1. j - Len(s) \in 1..Len(t) /\ (s \o t)[j] = t[j - Len(s)]
      BY <1>2, <2>2
    <3>2. QED BY <1>1, <3>1
  <2>3. QED BY <2>1, <2>2
<1>5. QED BY <1>3, <1>4 DEF Split

\* What may follow it may be appended.
LEMMA SplitLeft ==
    ASSUME NEW U, NEW A, NEW Q, NEW B, NEW s \in Seq(U), NEW t \in Seq(U),
           Split(s, A, Q, B), t \in Seq(B)
    PROVE  Split(s \o t, A, Q, B)
<1>1. PICK i \in 1..Len(s) :
          /\ s[i] \in Q
          /\ \A j \in 1..Len(s) : (j < i => s[j] \in A) /\ (i < j => s[j] \in B)
  BY DEF Split
<1>2. /\ Len(s \o t) = Len(s) + Len(t)
      /\ \A j \in 1..(Len(s) + Len(t)) : (s \o t)[j] = IF j <= Len(s) THEN s[j] ELSE t[j - Len(s)]
  OBVIOUS
<1>3. i \in 1..Len(s \o t) /\ (s \o t)[i] \in Q
  BY <1>1, <1>2
<1>4. ASSUME NEW j \in 1..Len(s \o t)
      PROVE  (j < i => (s \o t)[j] \in A) /\ (i < j => (s \o t)[j] \in B)
  <2>1. CASE j <= Len(s)
    BY <1>1, <1>2, <2>1
  <2>2. CASE j > Len(s)
    <3>1. j - Len(s) \in 1..Len(t) /\ (s \o t)[j] = t[j - Len(s)]
      BY <1>2, <2>2
    <3>2. QED BY <1>1, <3>1, <2>2
  <2>3. QED BY <2>1, <2>2
<1>5. QED BY <1>3, <1>4 DEF Split

\* Dropping the head leaves the landmark ahead, or it was the head.
LEMMA SplitHead ==
    ASSUME NEW U, NEW A, NEW Q, NEW B, NEW s \in Seq(U), Split(s, A, Q, B)
    PROVE  /\ s # <<>> /\ Head(s) \in U /\ Tail(s) \in Seq(U)
           /\ \/ Head(s) \in A /\ Split(Tail(s), A, Q, B)
              \/ Head(s) \in Q /\ Tail(s) \in Seq(B)
<1>1. PICK i \in 1..Len(s) :
          /\ s[i] \in Q
          /\ \A j \in 1..Len(s) : (j < i => s[j] \in A) /\ (i < j => s[j] \in B)
  BY DEF Split
<1>2. /\ s # <<>> /\ Head(s) = s[1] /\ Head(s) \in U /\ Tail(s) \in Seq(U)
      /\ Len(Tail(s)) = Len(s) - 1
      /\ \A j \in 1..(Len(s) - 1) : Tail(s)[j] = s[j + 1]
  BY <1>1
<1>3. CASE i = 1
  <2>1. \A j \in 1..Len(Tail(s)) : Tail(s)[j] \in B
    <3>1. TAKE j \in 1..Len(Tail(s))
    <3>2. j + 1 \in 1..Len(s) /\ i < j + 1 /\ Tail(s)[j] = s[j + 1]
      BY <1>2, <1>3
    <3>3. QED BY <1>1, <3>2
  <2>2. Tail(s) \in Seq(B)
    BY <1>2, <2>1, Retype
  <2>3. QED BY <1>1, <1>2, <1>3, <2>2
<1>4. CASE i # 1
  <2>1. s[1] \in A
    BY <1>1, <1>4
  <2>2. i - 1 \in 1..Len(Tail(s)) /\ Tail(s)[i - 1] \in Q
    <3>1. i - 1 \in 1..(Len(s) - 1) /\ (i - 1) + 1 = i
      BY <1>4
    <3>2. QED BY <1>1, <1>2, <3>1
  <2>3. \A j \in 1..Len(Tail(s)) :
            (j < i - 1 => Tail(s)[j] \in A) /\ (i - 1 < j => Tail(s)[j] \in B)
    <3>1. TAKE j \in 1..Len(Tail(s))
    <3>2. /\ j + 1 \in 1..Len(s) /\ Tail(s)[j] = s[j + 1]
          /\ (j < i - 1 => j + 1 < i) /\ (i - 1 < j => i < j + 1)
      BY <1>2, <1>4
    <3>3. QED BY <1>1, <3>2
  <2>4. Split(Tail(s), A, Q, B)
    BY <2>2, <2>3 DEF Split
  <2>5. QED BY <1>2, <2>1, <2>4
<1>5. QED BY <1>3, <1>4

\* A short sequence, one element at a time.
LEMMA Pair == ASSUME NEW x, NEW y PROVE <<x, y>> = <<x>> \o <<y>>
<1> DEFINE T == {x, y}
<1>1. <<x>> \in Seq(T) /\ <<y>> \in Seq(T) /\ <<x, y>> \in Seq(T)
  OBVIOUS
<1> HIDE DEF T
<1>2. /\ <<x>> \o <<y>> \in Seq(T) /\ Len(<<x>> \o <<y>>) = 2
      /\ (<<x>> \o <<y>>)[1] = x /\ (<<x>> \o <<y>>)[2] = y
  BY <1>1
<1>3. Len(<<x, y>>) = 2 /\ <<x, y>>[1] = x /\ <<x, y>>[2] = y
  OBVIOUS
<1>4. \A i \in 1..2 : i = 1 \/ i = 2
  OBVIOUS
<1>5. QED BY <1>1, <1>2, <1>3, <1>4, SeqEqual

LEMMA Triple == ASSUME NEW x, NEW y, NEW z PROVE <<x, y, z>> = (<<x>> \o <<y>>) \o <<z>>
<1>1. <<x, y, z>> = <<x, y>> \o <<z>>
  OBVIOUS
<1>2. QED BY <1>1, Pair

\* A landmark by itself.
LEMMA SplitOne ==
    ASSUME NEW A, NEW Q, NEW B, NEW q \in Q
    PROVE  Split(<<q>>, A, Q, B)
<1>1. Len(<<q>>) = 1 /\ <<q>>[1] = q /\ 1 \in 1..1
  OBVIOUS
<1>2. \A j \in 1..1 : ~(j < 1) /\ ~(1 < j)
  OBVIOUS
<1>3. QED BY <1>1, <1>2 DEF Split

\* A landmark among others, with wider sets before and behind it.
LEMMA SplitWiden ==
    ASSUME NEW A, NEW Q, NEW B, NEW s, Split(s, A, Q, B),
           NEW C, A \subseteq C, NEW R, Q \subseteq R, NEW D, B \subseteq D
    PROVE  Split(s, C, R, D)
  BY DEF Split

\* There is no landmark where none of its kind is.
LEMMA SplitNone ==
    ASSUME NEW A, NEW Q, NEW B, NEW N, NEW s \in Seq(N), Q \cap N = {}
    PROVE  ~Split(s, A, Q, B)
  BY DEF Split

-----------------------------------------------------------------------------
(* The elements of a sequence that are in a set, in their order. *)

Kept(s, Q) == FlattenSeq([k \in 1..Len(s) |-> IF s[k] \in Q THEN <<s[k]>> ELSE <<>>])

\* FlattenSeq, one sequence at a time.
LEMMA FlattenPrefixes ==
    ASSUME NEW T, NEW s \in Seq(Seq(T))
    PROVE  \E f : /\ f[0] = <<>> /\ f[Len(s)] = FlattenSeq(s)
                  /\ \A k \in 1..Len(s) : f[k] = f[k - 1] \o s[k]
                  /\ \A k \in 0..Len(s) : f[k] \in Seq(T)
<1>1. Len(s) \in Nat /\ \A k \in 1..Len(s) : s[k] \in Seq(T)
  OBVIOUS
<1>2. PICK f : Flattens(f, s, Len(s)) /\ (Len(s) # 0 => f[Len(s)] = FlattenSeq(s))
  <2>1. CASE Len(s) = 0
    BY <1>1, <2>1, FlattenExists
  <2>2. CASE Len(s) # 0
    <3> DEFINE fl == CHOOSE f :
                         f = [i \in 1..Len(s) |-> IF i = 1 THEN s[i] ELSE f[i - 1] \o s[i]]
    <3>1. \E f : Flattens(f, s, Len(s))
      BY <1>1, FlattenExists
    <3>2. Flattens(fl, s, Len(s))
      BY <3>1, Zenon DEF Flattens
    <3>3. FlattenSeq(s) = fl[Len(s)]
      BY <2>2 DEF FlattenSeq
    <3> HIDE DEF fl
    <3>4. QED BY <3>2, <3>3
  <2>3. QED BY <2>1, <2>2
<1>3. \A i \in 1..Len(s) : f[i] = IF i = 1 THEN s[i] ELSE f[i - 1] \o s[i]
  BY <1>2 DEF Flattens
<1> DEFINE g == [k \in 0..Len(s) |-> IF k = 0 THEN <<>> ELSE f[k]]
<1>4. g[0] = <<>> /\ \A k \in 1..Len(s) : g[k] = f[k]
  BY <1>1
<1> HIDE DEF g
<1>5. ASSUME NEW k \in 1..Len(s)
      PROVE  g[k] = g[k - 1] \o s[k]
  <2>1. CASE k = 1
    <3>1. g[k] = s[k] /\ k - 1 = 0
      BY <1>3, <1>4, <2>1
    <3>2. s[k] = <<>> \o s[k]
      BY <1>1
    <3>3. QED BY <1>4, <3>1, <3>2
  <2>2. CASE k # 1
    <3>1. k - 1 \in 1..Len(s)
      BY <1>1, <2>2
    <3>2. QED BY <1>3, <1>4, <2>2, <3>1
  <2>3. QED BY <2>1, <2>2
<1> DEFINE P == {k \in Nat : k \in 0..Len(s) => g[k] \in Seq(T)}
<1>6. 0 \in P
  <2>1. g[0] \in Seq(T)
    <3>1. <<>> \in Seq(T)
      OBVIOUS
    <3>2. QED BY <1>4, <3>1
  <2>2. QED BY <2>1
<1>7. ASSUME NEW k \in Nat, k \in P
      PROVE  k + 1 \in P
  <2>1. SUFFICES ASSUME k + 1 \in 0..Len(s)
                 PROVE  g[k + 1] \in Seq(T)
    OBVIOUS
  <2>2. k \in 0..Len(s) /\ k + 1 \in 1..Len(s) /\ (k + 1) - 1 = k
    BY <1>1, <2>1
  <2>3. g[k] \in Seq(T) /\ s[k + 1] \in Seq(T)
    BY <1>1, <1>7, <2>2
  <2>4. g[k + 1] = g[k] \o s[k + 1]
    BY <1>5, <2>2
  <2>5. QED BY <2>3, <2>4
<1> HIDE DEF P
<1>8. \A k \in 0..Len(s) : g[k] \in Seq(T)
  <2>1. Nat \subseteq P
    BY <1>6, <1>7, Induct
  <2>2. QED BY <1>1, <2>1 DEF P
<1>9. g[Len(s)] = FlattenSeq(s)
  <2>1. CASE Len(s) = 0
    <3>1. FlattenSeq(s) = s /\ s = <<>>
      BY <2>1 DEF FlattenSeq
    <3>2. QED BY <1>4, <2>1, <3>1
  <2>2. CASE Len(s) # 0
    BY <1>1, <1>2, <1>4, <2>2
  <2>3. QED BY <2>1, <2>2
<1>10. QED BY <1>4, <1>5, <1>8, <1>9

\* f keeps one element of s after the other.
Keeps(f, s, Q) ==
    /\ f[0] = <<>>
    /\ \A k \in 1..Len(s) : f[k] = IF s[k] \in Q THEN Append(f[k - 1], s[k]) ELSE f[k - 1]

LEMMA KeptPrefixes ==
    ASSUME NEW T, NEW Q, NEW s \in Seq(T)
    PROVE  \E f : /\ Keeps(f, s, Q) /\ f[Len(s)] = Kept(s, Q)
                  /\ \A k \in 0..Len(s) : f[k] \in Seq(T)
<1> DEFINE w == [k \in 1..Len(s) |-> IF s[k] \in Q THEN <<s[k]>> ELSE <<>>]
<1>1. Len(s) \in Nat /\ \A k \in 1..Len(s) : s[k] \in T
  OBVIOUS
<1>2. \A k \in 1..Len(s) : w[k] \in Seq(T)
  <2>1. \A x \in T : <<x>> \in Seq(T)
    OBVIOUS
  <2>2. QED BY <1>1, <2>1
<1>3. w \in Seq(Seq(T)) /\ Len(w) = Len(s)
  <2>1. w \in [1..Len(s) -> Seq(T)]
    BY <1>2
  <2> HIDE DEF w
  <2>2. w \in Seq(Seq(T))
    BY <1>1, <2>1, SeqDef
  <2>3. QED BY <1>1, <2>1, <2>2, LenProperties
<1>4. Kept(s, Q) = FlattenSeq(w)
  BY DEF Kept
<1>5. \A k \in 1..Len(s) : w[k] = IF s[k] \in Q THEN <<s[k]>> ELSE <<>>
  OBVIOUS
<1> HIDE DEF w
<1>6. PICK f : /\ f[0] = <<>> /\ f[Len(w)] = FlattenSeq(w)
               /\ \A k \in 1..Len(w) : f[k] = f[k - 1] \o w[k]
               /\ \A k \in 0..Len(w) : f[k] \in Seq(T)
  BY <1>3, FlattenPrefixes
<1>7. ASSUME NEW k \in 1..Len(s)
      PROVE  f[k] = IF s[k] \in Q THEN Append(f[k - 1], s[k]) ELSE f[k - 1]
  <2>1. k - 1 \in 0..Len(s)
    BY <1>1
  <2>2. f[k] = f[k - 1] \o w[k] /\ f[k - 1] \in Seq(T)
    BY <1>3, <1>6, <2>1
  <2>3. CASE s[k] \in Q
    <3>1. w[k] = <<s[k]>> /\ s[k] \in T
      BY <1>1, <1>5, <2>3
    <3>2. f[k - 1] \o <<s[k]>> = Append(f[k - 1], s[k])
      BY <2>2, <3>1
    <3>3. QED BY <2>2, <2>3, <3>1, <3>2
  <2>4. CASE s[k] \notin Q
    <3>1. w[k] = <<>>
      BY <1>5, <2>4
    <3>2. f[k - 1] \o <<>> = f[k - 1]
      BY <2>2, ConcatEmptySeq
    <3>3. QED BY <2>2, <2>4, <3>1, <3>2
  <2>5. QED BY <2>3, <2>4
<1>8. QED BY <1>3, <1>4, <1>6, <1>7 DEF Keeps

\* There is only one way to keep them.
LEMMA KeptIs ==
    ASSUME NEW T, NEW Q, NEW s \in Seq(T), NEW f, Keeps(f, s, Q)
    PROVE  f[Len(s)] = Kept(s, Q)
<1>1. Len(s) \in Nat
  OBVIOUS
<1>2. PICK g : Keeps(g, s, Q) /\ g[Len(s)] = Kept(s, Q)
  BY KeptPrefixes
<1> DEFINE P == {k \in Nat : k \in 0..Len(s) => f[k] = g[k]}
<1>3. 0 \in P
  BY <1>2 DEF Keeps
<1>4. ASSUME NEW k \in Nat, k \in P
      PROVE  k + 1 \in P
  <2>1. SUFFICES ASSUME k + 1 \in 0..Len(s)
                 PROVE  f[k + 1] = g[k + 1]
    OBVIOUS
  <2>2. k \in 0..Len(s) /\ k + 1 \in 1..Len(s) /\ (k + 1) - 1 = k
    BY <1>1, <2>1
  <2>3. QED BY <1>2, <1>4, <2>2 DEF Keeps
<1> HIDE DEF P
<1>5. Nat \subseteq P
  BY <1>3, <1>4, Induct
<1>6. f[Len(s)] = g[Len(s)]
  BY <1>1, <1>5 DEF P
<1>7. QED BY <1>2, <1>6

\* Every element is kept, or none.
LEMMA KeptAll ==
    ASSUME NEW Q, NEW s \in Seq(Q)
    PROVE  Kept(s, Q) = s
<1>1. Len(s) \in Nat /\ \A k \in 1..Len(s) : s[k] \in Q
  OBVIOUS
<1> DEFINE f == [k \in 0..Len(s) |-> SubSeq(s, 1, k)]
<1>2. f[0] = <<>> /\ \A k \in 0..Len(s) : f[k] = SubSeq(s, 1, k)
  BY <1>1
<1> HIDE DEF f
<1>3. ASSUME NEW k \in 1..Len(s)
      PROVE  f[k] = Append(f[k - 1], s[k])
  <2>1. k - 1 \in 0..Len(s) /\ k \in 0..Len(s) /\ (k - 1) + 1 = k
    BY <1>1
  <2>2. f[k] = SubSeq(s, 1, k) /\ f[k - 1] = SubSeq(s, 1, k - 1)
    BY <1>2, <2>1
  <2>3. /\ f[k] \in Seq(Q) /\ Len(f[k]) = k
        /\ f[k - 1] \in Seq(Q) /\ Len(f[k - 1]) = k - 1
        /\ \A j \in 1..k : f[k][j] = s[j]
        /\ \A j \in 1..(k - 1) : f[k - 1][j] = s[j]
    BY <1>1, <2>1, <2>2
  <2>4. s[k] \in Q
    BY <1>1
  <2>5. /\ Append(f[k - 1], s[k]) \in Seq(Q) /\ Len(Append(f[k - 1], s[k])) = k
        /\ \A j \in 1..k : Append(f[k - 1], s[k])[j] = s[j]
    BY <2>1, <2>3, <2>4
  <2>6. QED BY <2>3, <2>5, SeqEqual
<1>4. Keeps(f, s, Q)
  BY <1>1, <1>2, <1>3 DEF Keeps
<1>5. f[Len(s)] = Kept(s, Q)
  BY <1>4, KeptIs
<1>6. f[Len(s)] = s
  <2>1. Len(s) \in 0..Len(s)
    BY <1>1
  <2>2. SubSeq(s, 1, Len(s)) = s
    BY <1>1
  <2>3. QED BY <1>2, <2>1, <2>2
<1>7. QED BY <1>5, <1>6

LEMMA KeptNone ==
    ASSUME NEW T, NEW Q, NEW s \in Seq(T), \A k \in 1..Len(s) : s[k] \notin Q
    PROVE  Kept(s, Q) = <<>>
<1>1. Len(s) \in Nat
  OBVIOUS
<1> DEFINE f == [k \in 0..Len(s) |-> <<>>]
<1>2. Keeps(f, s, Q)
  <2>1. f[0] = <<>> /\ \A k \in 1..Len(s) : f[k] = <<>> /\ f[k - 1] = <<>>
    BY <1>1
  <2> HIDE DEF f
  <2>2. QED BY <2>1 DEF Keeps
<1>3. f[Len(s)] = Kept(s, Q)
  BY <1>2, KeptIs
<1>4. QED BY <1>1, <1>3

\* What is kept of two sequences, one behind the other.
LEMMA KeptConcat ==
    ASSUME NEW T, NEW Q, NEW s \in Seq(T), NEW t \in Seq(T)
    PROVE  Kept(s \o t, Q) = Kept(s, Q) \o Kept(t, Q)
<1>1. /\ Len(s) \in Nat /\ Len(t) \in Nat /\ s \o t \in Seq(T) /\ Len(s \o t) = Len(s) + Len(t)
      /\ \A k \in 1..Len(s) : (s \o t)[k] = s[k]
      /\ \A k \in 1..Len(t) : (s \o t)[Len(s) + k] = t[k] /\ t[k] \in T
  OBVIOUS
<1>2. PICK f : /\ Keeps(f, s, Q) /\ f[Len(s)] = Kept(s, Q)
               /\ \A k \in 0..Len(s) : f[k] \in Seq(T)
  BY KeptPrefixes
<1>3. PICK g : /\ Keeps(g, t, Q) /\ g[Len(t)] = Kept(t, Q)
               /\ \A k \in 0..Len(t) : g[k] \in Seq(T)
  BY KeptPrefixes
<1> DEFINE n == Len(s)
           u == s \o t
           h == [k \in 0..(n + Len(t)) |-> IF k <= n THEN f[k] ELSE f[n] \o g[k - n]]
<1>4. /\ \A k \in 0..n : h[k] = f[k]
      /\ \A k \in 1..Len(t) : h[n + k] = f[n] \o g[k]
  <2>1. \A k \in 0..n : k \in 0..(n + Len(t)) /\ k <= n
    BY <1>1
  <2>2. \A k \in 1..Len(t) : n + k \in 0..(n + Len(t)) /\ ~(n + k <= n) /\ (n + k) - n = k
    BY <1>1
  <2>3. QED BY <2>1, <2>2
<1>5. h[n] = f[n] \o g[0]
  <2>1. f[n] \in Seq(T) /\ g[0] = <<>> /\ n \in 0..n
    BY <1>1, <1>2, <1>3 DEF Keeps
  <2> HIDE DEF h, n
  <2>2. f[n] \o <<>> = f[n]
    BY <2>1
  <2>3. QED BY <1>4, <2>1, <2>2
<1>6. \A k \in 0..Len(t) : h[n + k] = f[n] \o g[k]
  <2>1. \A k \in 0..Len(t) : k = 0 \/ k \in 1..Len(t)
    BY <1>1
  <2>2. n + 0 = n
    BY <1>1
  <2> HIDE DEF h, n
  <2>3. QED BY <1>4, <1>5, <2>1, <2>2
<1>7. h[0] = <<>>
  <2>1. 0 \in 0..n
    BY <1>1
  <2> HIDE DEF h, n
  <2>2. QED BY <1>2, <1>4, <2>1 DEF Keeps
<1> HIDE DEF h
<1>8. ASSUME NEW k \in 1..Len(u)
      PROVE  h[k] = IF u[k] \in Q THEN Append(h[k - 1], u[k]) ELSE h[k - 1]
  <2>1. CASE k \in 1..n
    <3>1. k \in 0..n /\ k - 1 \in 0..n
      BY <1>1, <2>1
    <3>2. h[k] = f[k] /\ h[k - 1] = f[k - 1] /\ u[k] = s[k]
      BY <1>1, <1>4, <2>1, <3>1
    <3>3. QED BY <1>2, <2>1, <3>2 DEF Keeps
  <2>2. CASE k \notin 1..n
    <3>1. PICK j \in 1..Len(t) : k = n + j
      <4>1. k - n \in 1..Len(t) /\ k = n + (k - n)
        BY <1>1, <2>2
      <4>2. QED BY <4>1
    <3>2. j \in 0..Len(t) /\ j - 1 \in 0..Len(t) /\ k - 1 = n + (j - 1)
      BY <1>1, <3>1
    <3>3. h[k] = f[n] \o g[j] /\ h[k - 1] = f[n] \o g[j - 1] /\ u[k] = t[j]
      <4>1. h[n + j] = f[n] \o g[j] /\ h[n + (j - 1)] = f[n] \o g[j - 1]
        BY <1>6, <3>2
      <4>2. u[n + j] = t[j]
        BY <1>1
      <4>3. QED BY <3>1, <3>2, <4>1, <4>2
    <3>4. g[j] = IF t[j] \in Q THEN Append(g[j - 1], t[j]) ELSE g[j - 1]
      BY <1>3 DEF Keeps
    <3>5. f[n] \in Seq(T) /\ g[j - 1] \in Seq(T) /\ t[j] \in T
      <4>1. n \in 0..n
        BY <1>1
      <4>2. QED BY <1>1, <1>2, <1>3, <3>2, <4>1
    <3>6. f[n] \o Append(g[j - 1], t[j]) = Append(f[n] \o g[j - 1], t[j])
      <4>1. <<t[j]>> \in Seq(T) /\ f[n] \o g[j - 1] \in Seq(T)
        BY <3>5
      <4>2. /\ Append(g[j - 1], t[j]) = g[j - 1] \o <<t[j]>>
            /\ Append(f[n] \o g[j - 1], t[j]) = (f[n] \o g[j - 1]) \o <<t[j]>>
        BY <3>5, <4>1, AppendIsConcat
      <4>3. (f[n] \o g[j - 1]) \o <<t[j]>> = f[n] \o (g[j - 1] \o <<t[j]>>)
        <5> HIDE DEF n
        <5>1. \A a, b, c \in Seq(T) : (a \o b) \o c = a \o (b \o c)
          OBVIOUS
        <5>2. QED BY <3>5, <4>1, <5>1
      <4>4. QED BY <4>2, <4>3
    <3>7. QED BY <3>3, <3>4, <3>6
  <2>3. QED BY <1>1, <2>1, <2>2
<1>9. Keeps(h, u, Q)
  BY <1>7, <1>8 DEF Keeps
<1>10. h[Len(u)] = Kept(u, Q)
  <2>1. u \in Seq(T)
    BY <1>1
  <2> HIDE DEF u
  <2>2. QED BY <1>9, <2>1, KeptIs
<1>11. h[n + Len(t)] = f[n] \o g[Len(t)] /\ Len(u) = n + Len(t)
  <2>1. Len(t) \in 0..Len(t)
    BY <1>1
  <2>2. QED BY <1>1, <1>6, <2>1
<1>12. QED BY <1>2, <1>3, <1>10, <1>11

\* What is kept of an image is the image of what is kept.
IsImage(m, s, t) == Len(t) = Len(s) /\ \A j \in 1..Len(s) : t[j] = m[s[j]]

LEMMA KeptImage ==
    ASSUME NEW T, NEW U, NEW m, \A x \in T : m[x] \in U,
           NEW Q, NEW R, \A x \in T : x \in Q <=> m[x] \in R,
           NEW s \in Seq(T), NEW t \in Seq(U), IsImage(m, s, t)
    PROVE  IsImage(m, Kept(s, Q), Kept(t, R))
<1>1. /\ Len(s) \in Nat /\ Len(t) = Len(s)
      /\ \A k \in 1..Len(s) : s[k] \in T /\ t[k] \in U /\ t[k] = m[s[k]]
  BY DEF IsImage
<1>2. PICK f : /\ Keeps(f, s, Q) /\ f[Len(s)] = Kept(s, Q)
               /\ \A k \in 0..Len(s) : f[k] \in Seq(T)
  BY KeptPrefixes
<1>3. PICK g : /\ Keeps(g, t, R) /\ g[Len(t)] = Kept(t, R)
               /\ \A k \in 0..Len(t) : g[k] \in Seq(U)
  BY KeptPrefixes
<1> DEFINE Maps(a, b) == Len(b) = Len(a) /\ \A j \in 1..Len(a) : b[j] = m[a[j]]
           P == {k \in Nat : k \in 0..Len(s) => Maps(f[k], g[k])}
<1>4. 0 \in P
  BY <1>2, <1>3 DEF Keeps
<1>5. ASSUME NEW k \in Nat, k \in P
      PROVE  k + 1 \in P
  <2>1. SUFFICES ASSUME k + 1 \in 0..Len(s)
                 PROVE  Maps(f[k + 1], g[k + 1])
    OBVIOUS
  <2>2. k \in 0..Len(s) /\ k + 1 \in 1..Len(s) /\ (k + 1) - 1 = k
    BY <1>1, <2>1
  <2>3. f[k] \in Seq(T) /\ g[k] \in Seq(U) /\ Maps(f[k], g[k])
    BY <1>1, <1>2, <1>3, <1>5, <2>2
  <2>4. /\ f[k + 1] = IF s[k + 1] \in Q THEN Append(f[k], s[k + 1]) ELSE f[k]
        /\ g[k + 1] = IF t[k + 1] \in R THEN Append(g[k], t[k + 1]) ELSE g[k]
    <3>1. k + 1 \in 1..Len(t)
      BY <1>1, <2>2
    <3>2. f[k + 1] = IF s[k + 1] \in Q THEN Append(f[(k + 1) - 1], s[k + 1]) ELSE f[(k + 1) - 1]
      BY <1>2, <2>2 DEF Keeps
    <3>3. g[k + 1] = IF t[k + 1] \in R THEN Append(g[(k + 1) - 1], t[k + 1]) ELSE g[(k + 1) - 1]
      BY <1>3, <3>1 DEF Keeps
    <3>4. QED BY <2>2, <3>2, <3>3
  <2>5. s[k + 1] \in T /\ t[k + 1] \in U /\ t[k + 1] = m[s[k + 1]]
    BY <1>1, <2>2
  <2>6. CASE s[k + 1] \in Q
    <3>1. f[k + 1] = Append(f[k], s[k + 1]) /\ g[k + 1] = Append(g[k], t[k + 1])
      BY <2>4, <2>5, <2>6
    <3>2. /\ Len(f[k + 1]) = Len(f[k]) + 1 /\ Len(g[k + 1]) = Len(g[k]) + 1 /\ Len(f[k]) \in Nat
          /\ \A j \in 1..Len(f[k]) : f[k + 1][j] = f[k][j] /\ g[k + 1][j] = g[k][j]
          /\ f[k + 1][Len(f[k]) + 1] = s[k + 1] /\ g[k + 1][Len(f[k]) + 1] = t[k + 1]
      BY <2>3, <2>5, <3>1
    <3>3. ASSUME NEW j \in 1..Len(f[k + 1])
          PROVE  g[k + 1][j] = m[f[k + 1][j]]
      <4>1. CASE j = Len(f[k]) + 1
        BY <2>5, <3>2, <4>1
      <4>2. CASE j # Len(f[k]) + 1
        <5>1. j \in 1..Len(f[k])
          BY <3>2, <4>2
        <5>2. QED BY <2>3, <3>2, <5>1
      <4>3. QED BY <4>1, <4>2
    <3>4. Len(g[k + 1]) = Len(f[k + 1])
      BY <2>3, <3>2
    <3>5. QED BY <3>3, <3>4
  <2>7. CASE s[k + 1] \notin Q
    BY <2>3, <2>4, <2>5, <2>7
  <2>8. QED BY <2>6, <2>7
<1> HIDE DEF P
<1>6. Nat \subseteq P
  BY <1>4, <1>5, Induct
<1>7. Maps(f[Len(s)], g[Len(s)])
  BY <1>1, <1>6 DEF P
<1>8. QED BY <1>1, <1>2, <1>3, <1>7 DEF IsImage

\* What is kept was there.
LEMMA KeptWasThere ==
    ASSUME NEW T, NEW Q, NEW s \in Seq(T)
    PROVE  /\ Kept(s, Q) \in Seq(T)
           /\ \A j \in 1..Len(Kept(s, Q)) : \E k \in 1..Len(s) : Kept(s, Q)[j] = s[k] /\ s[k] \in Q
<1>1. Len(s) \in Nat /\ \A k \in 1..Len(s) : s[k] \in T
  OBVIOUS
<1>2. PICK f : /\ Keeps(f, s, Q) /\ f[Len(s)] = Kept(s, Q)
               /\ \A k \in 0..Len(s) : f[k] \in Seq(T)
  BY KeptPrefixes
<1> DEFINE In(x) == \E i \in 1..Len(s) : x = s[i] /\ s[i] \in Q
           P == {k \in Nat : k \in 0..Len(s) => \A j \in 1..Len(f[k]) : In(f[k][j])}
<1>3. 0 \in P
  BY <1>2 DEF Keeps
<1>4. ASSUME NEW k \in Nat, k \in P
      PROVE  k + 1 \in P
  <2>1. SUFFICES ASSUME k + 1 \in 0..Len(s)
                 PROVE  \A j \in 1..Len(f[k + 1]) : In(f[k + 1][j])
    OBVIOUS
  <2>2. k \in 0..Len(s) /\ k + 1 \in 1..Len(s) /\ (k + 1) - 1 = k
    BY <1>1, <2>1
  <2>3. f[k] \in Seq(T) /\ \A j \in 1..Len(f[k]) : In(f[k][j])
    BY <1>2, <1>4, <2>2
  <2>4. f[k + 1] = IF s[k + 1] \in Q THEN Append(f[k], s[k + 1]) ELSE f[k]
    BY <1>2, <2>2 DEF Keeps
  <2>5. s[k + 1] \in T
    BY <1>1, <2>2
  <2>6. CASE s[k + 1] \in Q
    <3>1. In(s[k + 1])
      BY <2>2, <2>6
    <3> HIDE DEF In
    <3>2. f[k + 1] = Append(f[k], s[k + 1])
      BY <2>4, <2>6
    <3>3. /\ Len(f[k + 1]) = Len(f[k]) + 1 /\ Len(f[k]) \in Nat
          /\ \A j \in 1..Len(f[k]) : f[k + 1][j] = f[k][j]
          /\ f[k + 1][Len(f[k]) + 1] = s[k + 1]
      BY <2>3, <2>5, <3>2
    <3>4. ASSUME NEW j \in 1..Len(f[k + 1])
          PROVE  In(f[k + 1][j])
      <4>1. CASE j = Len(f[k]) + 1
        BY <3>1, <3>3, <4>1
      <4>2. CASE j # Len(f[k]) + 1
        <5>1. j \in 1..Len(f[k])
          BY <3>3, <4>2
        <5>2. QED BY <2>3, <3>3, <5>1
      <4>3. QED BY <4>1, <4>2
    <3>5. QED BY <3>4
  <2>7. CASE s[k + 1] \notin Q
    BY <2>3, <2>4, <2>7
  <2>8. QED BY <2>6, <2>7
<1> HIDE DEF P
<1>5. Nat \subseteq P
  BY <1>3, <1>4, Induct
<1>6. \A j \in 1..Len(f[Len(s)]) : In(f[Len(s)][j])
  BY <1>1, <1>5 DEF P
<1>7. QED BY <1>1, <1>2, <1>6

-----------------------------------------------------------------------------
(* Needs and what they are fed by: an element of U needs one of Q before it, with none of *)
(* C between.                                                                             *)

\* s has an element of Q; s has none of Q.
Has(s, Q) == \E j \in 1..Len(s) : s[j] \in Q
Lacks(s, Q) == \A j \in 1..Len(s) : s[j] \notin Q

\* None of C stands between the places i and j of s.
Clear(s, C, i, j) == \A k \in 1..Len(s) : i < k /\ k < j => s[k] \notin C

\* What the element at j needs stands before it.
FedAt(s, Q, C, j) == \E i \in 1..Len(s) : i < j /\ s[i] \in Q /\ Clear(s, C, i, j)

\* Every need is fed by s itself, or would be if an element of Q stood before s.
Fed(s, U, Q, C) == \A j \in 1..Len(s) : s[j] \in U => FedAt(s, Q, C, j)
Primed(s, U, Q, C) ==
    \A j \in 1..Len(s) : s[j] \in U => Clear(s, C, 0, j) \/ FedAt(s, Q, C, j)

\* What a set lacks, a sequence over the set lacks.
LEMMA LacksOf ==
    ASSUME NEW B, NEW s \in Seq(B), NEW Q, B \cap Q = {}
    PROVE  Lacks(s, Q)
  BY DEF Lacks

\* A concatenation lacks what both of its parts lack, and has what either has.
LEMMA LacksConcat ==
    ASSUME NEW T, NEW s \in Seq(T), NEW t \in Seq(T), NEW Q
    PROVE  /\ Lacks(s, Q) /\ Lacks(t, Q) => Lacks(s \o t, Q)
           /\ Has(s, Q) \/ Has(t, Q) => Has(s \o t, Q)
<1>1. /\ Len(s \o t) = Len(s) + Len(t) /\ Len(s) \in Nat /\ Len(t) \in Nat
      /\ \A j \in 1..(Len(s) + Len(t)) : (s \o t)[j] = IF j <= Len(s) THEN s[j] ELSE t[j - Len(s)]
  OBVIOUS
<1>2. ASSUME Lacks(s, Q), Lacks(t, Q)
      PROVE  Lacks(s \o t, Q)
  <2>1. SUFFICES ASSUME NEW j \in 1..Len(s \o t)
                 PROVE  (s \o t)[j] \notin Q
    BY DEF Lacks
  <2>2. CASE j <= Len(s)
    BY <1>1, <1>2, <2>2 DEF Lacks
  <2>3. CASE j > Len(s)
    <3>1. j - Len(s) \in 1..Len(t) /\ (s \o t)[j] = t[j - Len(s)]
      BY <1>1, <2>3
    <3>2. QED BY <1>2, <3>1 DEF Lacks
  <2>4. QED BY <1>1, <2>2, <2>3
<1>3. ASSUME Has(s, Q)
      PROVE  Has(s \o t, Q)
  <2>1. PICK j \in 1..Len(s) : s[j] \in Q
    BY <1>3 DEF Has
  <2>2. j \in 1..Len(s \o t) /\ (s \o t)[j] \in Q
    BY <1>1, <2>1
  <2>3. QED BY <2>2 DEF Has
<1>4. ASSUME Has(t, Q)
      PROVE  Has(s \o t, Q)
  <2>1. PICK j \in 1..Len(t) : t[j] \in Q
    BY <1>4 DEF Has
  <2>2. Len(s) + j \in 1..Len(s \o t) /\ (s \o t)[Len(s) + j] \in Q
    <3>1. Len(s) + j \in 1..(Len(s) + Len(t)) /\ ~(Len(s) + j <= Len(s))
              /\ (Len(s) + j) - Len(s) = j
      BY <1>1
    <3>2. QED BY <1>1, <2>1, <3>1
  <2>3. QED BY <2>2 DEF Has
<1>5. QED BY <1>2, <1>3, <1>4

\* A need in the second of two parts is fed as it was there.
LEMMA FedShift ==
    ASSUME NEW T, NEW s \in Seq(T), NEW t \in Seq(T), NEW Q, NEW C, NEW j \in 1..Len(t)
    PROVE  /\ FedAt(t, Q, C, j) => FedAt(s \o t, Q, C, Len(s) + j)
           /\ Lacks(s, C) /\ Clear(t, C, 0, j) => Clear(s \o t, C, 0, Len(s) + j)
           /\ Lacks(s, C) /\ Has(s, Q) /\ Clear(t, C, 0, j) => FedAt(s \o t, Q, C, Len(s) + j)
<1>1. /\ Len(s \o t) = Len(s) + Len(t) /\ Len(s) \in Nat /\ Len(t) \in Nat
      /\ \A k \in 1..(Len(s) + Len(t)) : (s \o t)[k] = IF k <= Len(s) THEN s[k] ELSE t[k - Len(s)]
  OBVIOUS
<1>2. \A k \in 1..Len(s \o t) : k > Len(s) =>
          k - Len(s) \in 1..Len(t) /\ (s \o t)[k] = t[k - Len(s)]
  BY <1>1
<1>3. \A k \in 1..Len(t) : Len(s) + k \in 1..Len(s \o t) /\ (s \o t)[Len(s) + k] = t[k]
  <2>1. TAKE k \in 1..Len(t)
  <2>2. Len(s) + k \in 1..(Len(s) + Len(t)) /\ ~(Len(s) + k <= Len(s)) /\ (Len(s) + k) - Len(s) = k
    BY <1>1
  <2>3. QED BY <1>1, <2>2
<1>4. ASSUME NEW i \in 0..Len(t), Clear(t, C, i, j)
      PROVE  Clear(s \o t, C, Len(s) + i, Len(s) + j)
  <2>1. SUFFICES ASSUME NEW k \in 1..Len(s \o t), Len(s) + i < k, k < Len(s) + j
                 PROVE  (s \o t)[k] \notin C
    BY DEF Clear
  <2>2. k > Len(s) /\ i < k - Len(s) /\ k - Len(s) < j
    BY <1>1, <2>1
  <2>3. QED BY <1>2, <1>4, <2>2 DEF Clear
<1>5. ASSUME FedAt(t, Q, C, j)
      PROVE  FedAt(s \o t, Q, C, Len(s) + j)
  <2>1. PICK i \in 1..Len(t) : i < j /\ t[i] \in Q /\ Clear(t, C, i, j)
    BY <1>5 DEF FedAt
  <2>2. Clear(s \o t, C, Len(s) + i, Len(s) + j)
    BY <1>4, <2>1
  <2>3. Len(s) + i \in 1..Len(s \o t) /\ Len(s) + i < Len(s) + j /\ (s \o t)[Len(s) + i] \in Q
    BY <1>1, <1>3, <2>1
  <2>4. QED BY <2>2, <2>3 DEF FedAt
<1>6. ASSUME Lacks(s, C), Clear(t, C, 0, j), NEW i \in Nat
      PROVE  Clear(s \o t, C, i, Len(s) + j)
  <2>1. Clear(s \o t, C, Len(s), Len(s) + j)
    <3>1. 0 \in 0..Len(t) /\ Len(s) + 0 = Len(s)
      BY <1>1
    <3>2. Clear(s \o t, C, Len(s) + 0, Len(s) + j)
      BY <1>4, <1>6, <3>1
    <3>3. QED BY <3>1, <3>2
  <2>2. SUFFICES ASSUME NEW k \in 1..Len(s \o t), k < Len(s) + j
                 PROVE  (s \o t)[k] \notin C
    BY DEF Clear
  <2>3. CASE k <= Len(s)
    BY <1>1, <1>6, <2>3 DEF Lacks
  <2>4. CASE Len(s) < k
    BY <2>1, <2>2, <2>4 DEF Clear
  <2>5. QED BY <1>1, <2>3, <2>4
<1>7. ASSUME Lacks(s, C), Has(s, Q), Clear(t, C, 0, j)
      PROVE  FedAt(s \o t, Q, C, Len(s) + j)
  <2>1. PICK i \in 1..Len(s) : s[i] \in Q
    BY <1>7 DEF Has
  <2>2. Clear(s \o t, C, i, Len(s) + j)
    BY <1>6, <1>7
  <2>3. i \in 1..Len(s \o t) /\ i < Len(s) + j /\ (s \o t)[i] \in Q
    BY <1>1, <2>1
  <2>4. QED BY <2>2, <2>3 DEF FedAt
<1>8. Lacks(s, C) /\ Clear(t, C, 0, j) => Clear(s \o t, C, 0, Len(s) + j)
  BY <1>6
<1>9. QED BY <1>5, <1>7, <1>8

\* The needs of two parts in a row.
LEMMA FedConcat ==
    ASSUME NEW T, NEW s \in Seq(T), NEW t \in Seq(T), NEW U, NEW Q, NEW C
    PROVE  /\ Lacks(s, U) /\ Fed(t, U, Q, C) => Fed(s \o t, U, Q, C)
           /\ Lacks(s, U) /\ Lacks(s, C) /\ Has(s, Q) /\ Primed(t, U, Q, C)
                  => Fed(s \o t, U, Q, C)
           /\ Lacks(s, C) /\ Primed(t, U, Q, C) => Primed(s \o t, U, Q, C)
<1>1. /\ Len(s \o t) = Len(s) + Len(t) /\ Len(s) \in Nat /\ Len(t) \in Nat
      /\ \A k \in 1..(Len(s) + Len(t)) : (s \o t)[k] = IF k <= Len(s) THEN s[k] ELSE t[k - Len(s)]
  OBVIOUS
<1>2. \A j \in 1..Len(s \o t) : j > Len(s) =>
          /\ j - Len(s) \in 1..Len(t) /\ (s \o t)[j] = t[j - Len(s)]
          /\ Len(s) + (j - Len(s)) = j
  BY <1>1
<1>3. \A j \in 1..Len(s \o t) : ~(j > Len(s)) =>
          j \in 1..Len(s) /\ (s \o t)[j] = s[j]
  BY <1>1
<1>4. ASSUME Lacks(s, U), Fed(t, U, Q, C)
      PROVE  Fed(s \o t, U, Q, C)
  <2>1. SUFFICES ASSUME NEW j \in 1..Len(s \o t), (s \o t)[j] \in U
                 PROVE  FedAt(s \o t, Q, C, j)
    BY DEF Fed
  <2>2. j > Len(s)
    BY <1>3, <1>4, <2>1 DEF Lacks
  <2>3. FedAt(t, Q, C, j - Len(s))
    BY <1>2, <1>4, <2>1, <2>2 DEF Fed
  <2>4. FedAt(s \o t, Q, C, Len(s) + (j - Len(s)))
    BY <1>2, <2>2, <2>3, FedShift
  <2>5. QED BY <1>2, <2>2, <2>4
<1>5. ASSUME Lacks(s, U), Lacks(s, C), Has(s, Q), Primed(t, U, Q, C)
      PROVE  Fed(s \o t, U, Q, C)
  <2>1. SUFFICES ASSUME NEW j \in 1..Len(s \o t), (s \o t)[j] \in U
                 PROVE  FedAt(s \o t, Q, C, j)
    BY DEF Fed
  <2>2. j > Len(s)
    BY <1>3, <1>5, <2>1 DEF Lacks
  <2>3. Clear(t, C, 0, j - Len(s)) \/ FedAt(t, Q, C, j - Len(s))
    BY <1>2, <1>5, <2>1, <2>2 DEF Primed
  <2>4. FedAt(s \o t, Q, C, Len(s) + (j - Len(s)))
    BY <1>2, <1>5, <2>2, <2>3, FedShift
  <2>5. QED BY <1>2, <2>2, <2>4
<1>6. ASSUME Lacks(s, C), Primed(t, U, Q, C)
      PROVE  Primed(s \o t, U, Q, C)
  <2>1. SUFFICES ASSUME NEW j \in 1..Len(s \o t), (s \o t)[j] \in U
                 PROVE  Clear(s \o t, C, 0, j) \/ FedAt(s \o t, Q, C, j)
    BY DEF Primed
  <2>2. CASE j > Len(s)
    <3>1. Clear(t, C, 0, j - Len(s)) \/ FedAt(t, Q, C, j - Len(s))
      BY <1>2, <1>6, <2>1, <2>2 DEF Primed
    <3>2. \/ Clear(s \o t, C, 0, Len(s) + (j - Len(s)))
          \/ FedAt(s \o t, Q, C, Len(s) + (j - Len(s)))
      BY <1>2, <1>6, <2>2, <3>1, FedShift
    <3>3. QED BY <1>2, <2>2, <3>2
  <2>3. CASE ~(j > Len(s))
    <3>1. \A k \in 1..Len(s \o t) : k < j => (s \o t)[k] \notin C
      BY <1>1, <1>3, <1>6, <2>3 DEF Lacks
    <3>2. QED BY <3>1 DEF Clear
  <2>4. QED BY <2>2, <2>3
<1>7. QED BY <1>4, <1>5, <1>6

\* What needs nothing is fed, what spoils nothing is primed, what is fed is primed.
LEMMA FedSimply ==
    ASSUME NEW s, NEW U, NEW Q, NEW C
    PROVE  /\ Lacks(s, U) => Fed(s, U, Q, C)
           /\ Lacks(s, C) => Primed(s, U, Q, C)
           /\ Fed(s, U, Q, C) => Primed(s, U, Q, C)
  BY DEF Fed, Primed, Lacks, Clear

\* What is left behind the head.
LEMMA FedTail ==
    ASSUME NEW T, NEW s \in Seq(T), s # <<>>, NEW U, NEW Q, NEW C
    PROVE  /\ Fed(s, U, Q, C) => /\ Head(s) \notin U
                                 /\ Primed(Tail(s), U, Q, C)
                                 /\ Head(s) \notin Q => Fed(Tail(s), U, Q, C)
           /\ Primed(s, U, Q, C) =>
                  /\ Primed(Tail(s), U, Q, C)
                  /\ Head(s) \in C /\ Head(s) \notin Q => Fed(Tail(s), U, Q, C)
<1>1. /\ Head(s) = s[1] /\ Len(s) \in Nat /\ Len(s) > 0 /\ Len(Tail(s)) = Len(s) - 1
      /\ \A j \in 1..(Len(s) - 1) : Tail(s)[j] = s[j + 1]
  OBVIOUS
<1>2. \A j \in 1..Len(Tail(s)) : j + 1 \in 1..Len(s) /\ Tail(s)[j] = s[j + 1]
  BY <1>1
<1>3. ASSUME NEW i \in Nat, NEW j \in 1..Len(Tail(s)), Clear(s, C, i + 1, j + 1)
      PROVE  Clear(Tail(s), C, i, j)
  <2>1. SUFFICES ASSUME NEW k \in 1..Len(Tail(s)), i < k, k < j
                 PROVE  Tail(s)[k] \notin C
    BY DEF Clear
  <2>2. k + 1 \in 1..Len(s) /\ i + 1 < k + 1 /\ k + 1 < j + 1 /\ Tail(s)[k] = s[k + 1]
    BY <1>2, <2>1
  <2>3. QED BY <1>3, <2>2 DEF Clear
<1>4. ASSUME NEW j \in 1..Len(Tail(s)), FedAt(s, Q, C, j + 1)
      PROVE  \/ FedAt(Tail(s), Q, C, j)
             \/ Head(s) \in Q /\ Clear(Tail(s), C, 0, j)
  <2>1. PICK i \in 1..Len(s) : i < j + 1 /\ s[i] \in Q /\ Clear(s, C, i, j + 1)
    BY <1>4 DEF FedAt
  <2>2. CASE i = 1
    BY <1>1, <1>3, <2>1, <2>2
  <2>3. CASE i # 1
    <3>1. i - 1 \in 1..Len(Tail(s)) /\ i - 1 \in Nat /\ (i - 1) + 1 = i /\ i - 1 < j
      BY <1>1, <2>1, <2>3
    <3>2. Tail(s)[i - 1] \in Q
      BY <1>2, <2>1, <3>1
    <3>3. Clear(Tail(s), C, i - 1, j)
      BY <1>3, <2>1, <3>1
    <3>4. QED BY <3>1, <3>2, <3>3 DEF FedAt
  <2>4. QED BY <2>2, <2>3
<1>5. ASSUME NEW j \in 1..Len(Tail(s)), Clear(s, C, 0, j + 1)
      PROVE  Clear(Tail(s), C, 0, j) /\ Head(s) \notin C
  <2>1. Head(s) \notin C
    BY <1>1, <1>5 DEF Clear
  <2>2. Clear(s, C, 0 + 1, j + 1)
    BY <1>5 DEF Clear
  <2>3. QED BY <1>3, <2>1, <2>2
<1>6. ASSUME Fed(s, U, Q, C)
      PROVE  /\ Head(s) \notin U
             /\ Primed(Tail(s), U, Q, C)
             /\ Head(s) \notin Q => Fed(Tail(s), U, Q, C)
  <2>1. Head(s) \notin U
    <3>1. SUFFICES ASSUME s[1] \in U
                   PROVE  FALSE
      BY <1>1
    <3>2. FedAt(s, Q, C, 1)
      BY <1>1, <1>6, <3>1 DEF Fed
    <3>3. QED BY <3>2 DEF FedAt
  <2>2. \A j \in 1..Len(Tail(s)) : Tail(s)[j] \in U => FedAt(s, Q, C, j + 1)
    BY <1>2, <1>6 DEF Fed
  <2>3. QED BY <1>4, <2>1, <2>2 DEF Fed, Primed
<1>7. ASSUME Primed(s, U, Q, C)
      PROVE  /\ Primed(Tail(s), U, Q, C)
             /\ Head(s) \in C /\ Head(s) \notin Q => Fed(Tail(s), U, Q, C)
  <2>1. \A j \in 1..Len(Tail(s)) : Tail(s)[j] \in U =>
            Clear(s, C, 0, j + 1) \/ FedAt(s, Q, C, j + 1)
    BY <1>2, <1>7 DEF Primed
  <2>2. QED BY <1>4, <1>5, <2>1 DEF Fed, Primed
<1>8. QED BY <1>6, <1>7

-----------------------------------------------------------------------------
(* Regrouping a concatenation.  The equations are named, so that a proof cites an instance. *)

\* Concatenation is associative: three sequences in a row, four with the middle two taken
\* together, four, and five.
Three(r, s, t) == (r \o s) \o t = r \o (s \o t)
Middle(q, r, s, t) == ((q \o r) \o s) \o t = q \o ((r \o s) \o t)
Four(q, r, s, t) == ((q \o r) \o s) \o t = q \o (r \o (s \o t))
Five(p, q, r, s, t) == (((p \o q) \o r) \o s) \o t = p \o (q \o (r \o (s \o t)))

LEMMA Join ==
    ASSUME NEW T, NEW r \in Seq(T), NEW s \in Seq(T)
    PROVE  r \o s \in Seq(T)
  OBVIOUS

LEMMA Regroup ==
    ASSUME NEW T, NEW r \in Seq(T), NEW s \in Seq(T), NEW t \in Seq(T)
    PROVE  Three(r, s, t)
  BY DEF Three

LEMMA RegroupFour ==
    ASSUME NEW T, NEW q \in Seq(T), NEW r \in Seq(T), NEW s \in Seq(T), NEW t \in Seq(T)
    PROVE  Middle(q, r, s, t) /\ Four(q, r, s, t)
<1>1. q \o r \in Seq(T) /\ r \o s \in Seq(T)
  BY Join
<1>2. Three(q, r, s) /\ Three(r, s, t) /\ Three(q, r \o s, t)
  BY <1>1, Regroup
<1>3. ((q \o r) \o s) \o t = (q \o (r \o s)) \o t
  BY <1>2 DEF Three
<1>4. (q \o (r \o s)) \o t = q \o ((r \o s) \o t)
  BY <1>2 DEF Three
<1>5. q \o ((r \o s) \o t) = q \o (r \o (s \o t))
  BY <1>2 DEF Three
<1>6. Middle(q, r, s, t)
  BY <1>3, <1>4 DEF Middle
<1>7. Four(q, r, s, t)
  BY <1>3, <1>4, <1>5 DEF Four
<1>8. QED BY <1>6, <1>7

LEMMA RegroupFive ==
    ASSUME NEW T, NEW p \in Seq(T), NEW q \in Seq(T), NEW r \in Seq(T), NEW s \in Seq(T),
           NEW t \in Seq(T)
    PROVE  Five(p, q, r, s, t)
<1>1. p \o q \in Seq(T) /\ s \o t \in Seq(T)
  BY Join
<1>2. r \o (s \o t) \in Seq(T)
  BY <1>1, Join
<1>3. Four(p \o q, r, s, t)
  BY <1>1, RegroupFour
<1>4. Three(p, q, r \o (s \o t))
  BY <1>2, Regroup
<1>5. QED BY <1>3, <1>4 DEF Three, Four, Five

=============================================================================
