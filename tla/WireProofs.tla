----------------------------- MODULE WireProofs -----------------------------
(***************************************************************************)
(* Wire, for every limit, every set of questions and every text: what the  *)
(* agent lets through the phone shows, what the card lets a human answer   *)
(* the agent takes, what is signed can be read back, and the two strict    *)
(* decoders admit the same.                                                *)
(*                                                                         *)
(* The proofs need induction over sequences and over the nesting of texts. *)
(* It is done by taking the least of a set of numbers, which the library   *)
(* has for the order of the naturals.                                      *)
(***************************************************************************)
EXTENDS Wire, FiniteSetTheorems, SequenceTheorems, WellFoundedInduction, TLAPS

\* A set of numbers that is not empty has a least one.
LEMMA Least ==
  ASSUME NEW T \in SUBSET Nat, T # {}
  PROVE  \E n \in T : \A m \in T : n <= m
<1>1. PICK n \in T : \A m \in T : ~ (<<m, n>> \in OpToRel(<, Nat))
  BY NatLessThanWellFounded, WFMin, Zenon
<1>2. \A m \in T : ~ (m < n)
  BY <1>1, Zenon DEF OpToRel
<1> QED BY <1>2

\* Induction along 0..N for a set given as a set: the library's theorem takes
\* an operator, which no prover here can instantiate.
LEMMA Reached ==
  ASSUME NEW N \in Nat, NEW T, 0 \in T, \A n \in 0..(N - 1) : n \in T => n + 1 \in T
  PROVE  \A n \in 0..N : n \in T
<1> SUFFICES ASSUME (0..N) \ T # {} PROVE FALSE
  OBVIOUS
<1>1. PICK n \in (0..N) \ T : \A m \in (0..N) \ T : n <= m
  <2>1. (0..N) \ T \in SUBSET Nat
    OBVIOUS
  <2> QED BY <2>1, Least
<1>2. n - 1 \in 0..(N - 1)
  BY <1>1
<1>3. n - 1 \in T
  BY <1>1, <1>2
<1> QED BY <1>1, <1>2, <1>3

-----------------------------------------------------------------------------
(* Sequences, joined                                                       *)

\* g[k] is what the first k sequences make when they are joined.
Joins(g, E, seqs) ==
  /\ g \in [0..Len(seqs) -> Seq(E)]
  /\ g[0] = <<>>
  /\ \A k \in 0..(Len(seqs) - 1) : g[k + 1] = g[k] \o seqs[k + 1]

\* The partial joins exist: of the lengths that some partial join reaches, none
\* is the last but the whole.
LEMMA JoinExists ==
  ASSUME NEW E, NEW seqs \in Seq(Seq(E))
  PROVE  \E g : Joins(g, E, seqs)
<1> DEFINE N == Len(seqs)
           Grows(g, k) == g[k + 1] = g[k] \o seqs[k + 1]
           Upto(g, m) == /\ g \in [0..N -> Seq(E)]
                         /\ g[0] = <<>>
                         /\ \A k \in 0..(m - 1) : Grows(g, k)
           T == {m \in 0..N : \E g \in [0..N -> Seq(E)] : Upto(g, m)}
<1>0. N \in Nat
  OBVIOUS
<1>1. 0 \in T
  <2> DEFINE g == [i \in 0..N |-> <<>>]
  <2>1. g \in [0..N -> Seq(E)] /\ g[0] = <<>>
    BY <1>0
  <2> HIDE DEF g
  <2>2. Upto(g, 0)
    <3>1. \A k \in 0..(0 - 1) : FALSE
      OBVIOUS
    <3> QED BY <2>1, <3>1
  <2>3. 0 \in 0..N
    BY <1>0
  <2> HIDE DEF Upto, N
  <2> QED BY <2>1, <2>2, <2>3
<1>2. ASSUME NEW m \in 0..(N - 1), m \in T PROVE m + 1 \in T
  <2>1. PICK g \in [0..N -> Seq(E)] : Upto(g, m)
    BY <1>2
  <2>2. m + 1 \in 1..N /\ m + 1 \in 0..N /\ m \in 0..N
    BY <1>0
  <2>3. g[m] \o seqs[m + 1] \in Seq(E)
    <3>1. g[m] \in Seq(E)
      BY <2>1, <2>2
    <3>2. seqs[m + 1] \in Seq(E)
      BY <2>2, ElementOfSeq
    <3> QED BY <3>1, <3>2, ConcatProperties
  <2> DEFINE h == [g EXCEPT ![m + 1] = g[m] \o seqs[m + 1]]
  <2>4. /\ h \in [0..N -> Seq(E)] /\ h[m + 1] = g[m] \o seqs[m + 1]
        /\ \A i \in 0..N : i # m + 1 => h[i] = g[i]
    BY <2>1, <2>2, <2>3
  <2> HIDE DEF h
  <2>5. h[0] = <<>> /\ h[m] = g[m]
    <3>1. m # m + 1 /\ 0 # m + 1 /\ 0 \in 0..N
      BY <1>0, <2>2
    <3> QED BY <2>1, <2>2, <2>4, <3>1
  <2>6. \A k \in 0..m : h[k + 1] = h[k] \o seqs[k + 1]
    <3> SUFFICES ASSUME NEW k \in 0..m PROVE h[k + 1] = h[k] \o seqs[k + 1]
      OBVIOUS
    <3>1. CASE k = m
      BY <2>4, <2>5, <3>1
    <3>2. CASE k # m
      <4>1. k \in 0..(m - 1) /\ k \in 0..N /\ k + 1 \in 0..N /\ k # m + 1 /\ k + 1 # m + 1
        BY <1>0, <2>2, <3>2
      <4>2. g[k + 1] = g[k] \o seqs[k + 1]
        BY <2>1, <4>1
      <4> QED BY <2>4, <4>1, <4>2
    <3> QED BY <3>1, <3>2
  <2>7. m + 1 - 1 = m
    BY <2>2
  <2>8. Upto(h, m + 1)
    <3>1. \A k \in 0..m : Grows(h, k)
      BY <2>6
    <3> HIDE DEF Grows, N
    <3>2. \A k \in 0..(m + 1 - 1) : Grows(h, k)
      BY <2>7, <3>1
    <3> QED BY <2>4, <2>5, <3>2
  <2> QED BY <2>2, <2>4, <2>8
<1>3. N \in T
  <2> HIDE DEF T, N
  <2>1. \A n \in 0..N : n \in T
    BY <1>0, <1>1, <1>2, Reached
  <2> QED BY <1>0, <2>1
<1>4. \E g : Upto(g, N)
  BY <1>3
<1> QED BY <1>4 DEF Joins

\* FlattenSeq folds over a bijection it chooses; whatever it chooses, the fold
\* ends in the partial joins.
LEMMA FlattenIs ==
  ASSUME NEW E, NEW seqs \in Seq(Seq(E))
  PROVE  \E g : Joins(g, E, seqs) /\ FlattenSeq(seqs) = g[Len(seqs)]
<1> DEFINE N == Len(seqs)
<1>0. N \in Nat
  OBVIOUS
<1>1. PICK g : Joins(g, E, seqs)
  BY JoinExists
<1>2. CASE N = 0
  <2>1. seqs = <<>>
    BY <1>2
  <2> QED BY <1>1, <1>2, <2>1 DEF Joins, FlattenSeq
<1>3. CASE N # 0
  <2> DEFINE F(f) == f = [i \in 1..N |-> IF i = 1 THEN seqs[i] ELSE f[i - 1] \o seqs[i]]
             f0 == [i \in 1..N |-> g[i]]
             flat == CHOOSE f : F(f)
  <2>1. F(f0)
    <3>1. ASSUME NEW i \in 1..N
          PROVE  g[i] = IF i = 1 THEN seqs[i] ELSE f0[i - 1] \o seqs[i]
      <4>0. i - 1 \in 0..(N - 1) /\ i - 1 + 1 = i
        BY <1>0
      <4>1. g[i] = g[i - 1] \o seqs[i] /\ seqs[i] \in Seq(E)
        <5>1. g[i - 1 + 1] = g[i - 1] \o seqs[i - 1 + 1]
          BY <1>1, <4>0 DEF Joins
        <5> QED BY <4>0, <5>1, ElementOfSeq
      <4>2. CASE i = 1
        <5>1. g[i - 1] = <<>>
          BY <1>1, <4>2 DEF Joins
        <5> QED BY <4>1, <4>2, <5>1
      <4>3. CASE i # 1
        <5>1. i - 1 \in 1..N
          BY <1>0, <4>3
        <5> QED BY <4>1, <4>3, <5>1
      <4> QED BY <4>2, <4>3
    <3> QED BY <3>1
  <2>2. F(flat)
    <3> HIDE DEF F, f0
    <3> QED BY <2>1
  <2>3. \A k \in 0..N : k \in {j \in 0..N : j = 0 \/ flat[j] = g[j]}
    <3> DEFINE T == {j \in 0..N : j = 0 \/ flat[j] = g[j]}
    <3> HIDE DEF flat
    <3>1. 0 \in T
      BY <1>0
    <3>2. ASSUME NEW k \in 0..(N - 1), k \in T PROVE k + 1 \in T
      <4>1. k + 1 \in 1..N /\ k + 1 \in 0..N
        BY <1>0
      <4>2. flat[k + 1] = IF k + 1 = 1 THEN seqs[k + 1] ELSE flat[k + 1 - 1] \o seqs[k + 1]
        <5>1. \A i \in 1..N : flat[i] = IF i = 1 THEN seqs[i] ELSE flat[i - 1] \o seqs[i]
          BY <2>2
        <5> QED BY <4>1, <5>1
      <4>3. g[k + 1] = g[k] \o seqs[k + 1] /\ seqs[k + 1] \in Seq(E)
        <5>1. seqs[k + 1] \in Seq(E)
          BY <4>1, ElementOfSeq
        <5> QED BY <1>1, <5>1 DEF Joins
      <4>4. CASE k = 0
        <5>1. g[k] = <<>>
          BY <1>1, <4>4 DEF Joins
        <5>2. flat[k + 1] = seqs[k + 1]
          BY <4>2, <4>4
        <5> QED BY <4>1, <4>3, <5>1, <5>2
      <4>5. CASE k # 0
        <5>1. k + 1 - 1 = k /\ k + 1 # 1
          BY <4>1, <4>5
        <5> QED BY <3>2, <4>1, <4>2, <4>3, <4>5, <5>1
      <4> QED BY <4>4, <4>5
    <3>3. \A k \in 0..N : k \in T
      <4> HIDE DEF T, N
      <4> QED BY <1>0, <3>1, <3>2, Reached
    <3> QED BY <3>3
  <2>4. FlattenSeq(seqs) = flat[N]
    BY <1>3 DEF FlattenSeq
  <2>5. flat[N] = g[N]
    <3> HIDE DEF flat
    <3> QED BY <1>0, <1>3, <2>3
  <2> QED BY <1>1, <2>4, <2>5
<1> QED BY <1>2, <1>3

\* Joined sequences are a sequence.
LEMMA FlattenType ==
  ASSUME NEW E, NEW seqs \in Seq(Seq(E))
  PROVE  FlattenSeq(seqs) \in Seq(E) /\ Len(FlattenSeq(seqs)) \in Nat
<1>1. PICK g : Joins(g, E, seqs) /\ FlattenSeq(seqs) = g[Len(seqs)]
  BY FlattenIs
<1>2. Len(seqs) \in 0..Len(seqs)
  OBVIOUS
<1>3. FlattenSeq(seqs) \in Seq(E)
  BY <1>1, <1>2 DEF Joins
<1> QED BY <1>3

\* The text t begins with s.
Begins(t, s, E) == \E rest \in Seq(E) : t = s \o rest

\* What begins a text begins a longer one.
LEMMA BeginsMore ==
  ASSUME NEW E, NEW s \in Seq(E), NEW t \in Seq(E), NEW c \in Seq(E), Begins(t, s, E)
  PROVE  Begins(t \o c, s, E)
<1>1. PICK rest \in Seq(E) : t = s \o rest
  BY DEF Begins
<1>2. rest \o c \in Seq(E) /\ t \o c = s \o (rest \o c)
  BY <1>1
<1> QED BY <1>2 DEF Begins

\* Each partial join begins the whole.
LEMMA JoinRest ==
  ASSUME NEW E, NEW seqs \in Seq(Seq(E)), NEW g, Joins(g, E, seqs),
         NEW k \in 0..Len(seqs)
  PROVE  Begins(g[Len(seqs)], g[k], E)
<1> DEFINE N == Len(seqs)
           T == {d \in 0..(N - k) : Begins(g[k + d], g[k], E)}
<1>0. N \in Nat /\ k \in 0..N /\ N - k \in Nat
  OBVIOUS
<1>g. \A i \in 0..N : g[i] \in Seq(E)
  BY DEF Joins
<1>1. 0 \in T
  <2>1. k + 0 = k /\ <<>> \in Seq(E) /\ g[k] \in Seq(E)
    BY <1>0, <1>g
  <2>2. g[k] = g[k] \o <<>>
    BY <2>1, ConcatEmptySeq
  <2>3. 0 \in 0..(N - k)
    BY <1>0
  <2>4. Begins(g[k], g[k], E)
    BY <2>1, <2>2 DEF Begins
  <2> QED BY <2>1, <2>3, <2>4
<1>2. ASSUME NEW d \in 0..(N - k - 1), d \in T PROVE d + 1 \in T
  <2>1. Begins(g[k + d], g[k], E)
    BY <1>2
  <2>2. /\ k + d \in 0..(N - 1) /\ k + d \in 0..N /\ k + d + 1 \in 1..N
        /\ k + (d + 1) = k + d + 1 /\ d + 1 \in 0..(N - k)
    BY <1>0
  <2>3. seqs[k + d + 1] \in Seq(E) /\ g[k] \in Seq(E) /\ g[k + d] \in Seq(E)
    BY <1>0, <1>g, <2>2, ElementOfSeq
  <2>4. g[k + d + 1] = g[k + d] \o seqs[k + d + 1]
    BY <2>2 DEF Joins
  <2>5. Begins(g[k + d] \o seqs[k + d + 1], g[k], E)
    BY <2>1, <2>3, BeginsMore
  <2> QED BY <2>2, <2>4, <2>5
<1>3. N - k \in T
  <2>1. \A d \in 0..(N - k) : d \in T
    <3> HIDE DEF T, N
    <3> QED BY <1>0, <1>1, <1>2, Reached
  <2>2. N - k \in 0..(N - k)
    BY <1>0
  <2> QED BY <2>1, <2>2
<1> QED BY <1>0, <1>3

\* No word of the code is the beginning of another.
PrefixFree(C) ==
  /\ <<>> \notin C
  /\ \A a, b \in C : \A u, v \in Seq(Int) : a \o u = b \o v => a = b

\* A text that begins with J and a word, cut after J.
LEMMA BeginsWord ==
  ASSUME NEW a \in Seq(Int), NEW J \in Seq(Int), NEW t, Begins(t, J \o a, Int)
  PROVE  \E u \in Seq(Int) : t = J \o (a \o u) /\ a \o u \in Seq(Int)
<1>1. PICK u \in Seq(Int) : t = (J \o a) \o u
  BY DEF Begins
<1>2. (J \o a) \o u = J \o (a \o u) /\ a \o u \in Seq(Int)
  OBVIOUS
<1> QED BY <1>1, <1>2

\* A text that goes on with a word has not ended,
LEMMA WordMore ==
  ASSUME NEW C \in SUBSET Seq(Int), PrefixFree(C), NEW a \in C, NEW J \in Seq(Int),
         NEW t, Begins(t, J \o a, Int)
  PROVE  t # J
<1>1. a \in Seq(Int)
  OBVIOUS
<1>2. PICK u \in Seq(Int) : t = J \o (a \o u) /\ a \o u \in Seq(Int)
  BY <1>1, BeginsWord
<1>3. SUFFICES ASSUME J \o (a \o u) = J PROVE FALSE
  BY <1>2
<1>4. a \o u = <<>>
  BY <1>2, <1>3, ConcatSimplifications, Zenon
<1>5. a = <<>>
  BY <1>1, <1>4
<1> QED BY <1>5 DEF PrefixFree

\* and goes on with no other.
LEMMA WordUnique ==
  ASSUME NEW C \in SUBSET Seq(Int), PrefixFree(C), NEW a \in C, NEW b \in C,
         NEW J \in Seq(Int), NEW t, Begins(t, J \o a, Int), Begins(t, J \o b, Int)
  PROVE  a = b
<1>1. a \in Seq(Int) /\ b \in Seq(Int)
  OBVIOUS
<1>2. PICK u \in Seq(Int) : t = J \o (a \o u) /\ a \o u \in Seq(Int)
  BY <1>1, BeginsWord
<1>3. PICK v \in Seq(Int) : t = J \o (b \o v) /\ b \o v \in Seq(Int)
  BY <1>1, BeginsWord
<1>4. J \o (a \o u) = J \o (b \o v)
  BY <1>2, <1>3, Zenon
<1>5. a \o u = b \o v
  BY <1>2, <1>3, <1>4, ConcatSimplifications, Zenon
<1> QED BY <1>5 DEF PrefixFree

\* The words that make up a text can be told from it.
LEMMA FlattenUnique ==
  ASSUME NEW C \in SUBSET Seq(Int), PrefixFree(C),
         NEW p \in Seq(C), NEW q \in Seq(C), FlattenSeq(p) = FlattenSeq(q)
  PROVE  p = q
<1>0. p \in Seq(Seq(Int)) /\ q \in Seq(Seq(Int)) /\ Len(p) \in Nat /\ Len(q) \in Nat
  BY SeqMonotonic
<1>1. PICK g : Joins(g, Int, p) /\ FlattenSeq(p) = g[Len(p)]
  BY <1>0, FlattenIs
<1>2. PICK h : Joins(h, Int, q) /\ FlattenSeq(q) = h[Len(q)]
  BY <1>0, FlattenIs
<1>3. g[Len(p)] = h[Len(q)] /\ g[0] = <<>> /\ h[0] = <<>>
  BY <1>1, <1>2 DEF Joins
\* What is left of either text after its first words.
<1>4. ASSUME NEW k \in 0..(Len(p) - 1)
      PROVE  /\ g[k] \in Seq(Int) /\ p[k + 1] \in C /\ g[k + 1] = g[k] \o p[k + 1]
             /\ Begins(g[Len(p)], g[k] \o p[k + 1], Int)
  <2>1. k \in 0..Len(p) /\ k + 1 \in 0..Len(p) /\ k + 1 \in 1..Len(p)
    BY <1>0
  <2>2. g[k] \in Seq(Int) /\ p[k + 1] \in C /\ g[k + 1] = g[k] \o p[k + 1]
    BY <1>1, <2>1, ElementOfSeq DEF Joins
  <2> DEFINE m == k + 1
  <2>3. m \in 0..Len(p)
    BY <2>1
  <2> HIDE DEF m
  <2>4. Begins(g[Len(p)], g[m], Int)
    BY <1>0, <1>1, <2>3, JoinRest
  <2>5. Begins(g[Len(p)], g[k] \o p[k + 1], Int)
    BY <2>2, <2>4 DEF m
  <2> QED BY <2>2, <2>5
<1>5. ASSUME NEW k \in 0..(Len(q) - 1)
      PROVE  /\ h[k] \in Seq(Int) /\ q[k + 1] \in C /\ h[k + 1] = h[k] \o q[k + 1]
             /\ Begins(h[Len(q)], h[k] \o q[k + 1], Int)
  <2>1. k \in 0..Len(q) /\ k + 1 \in 0..Len(q) /\ k + 1 \in 1..Len(q)
    BY <1>0
  <2>2. h[k] \in Seq(Int) /\ q[k + 1] \in C /\ h[k + 1] = h[k] \o q[k + 1]
    BY <1>2, <2>1, ElementOfSeq DEF Joins
  <2> DEFINE m == k + 1
  <2>3. m \in 0..Len(q)
    BY <2>1
  <2> HIDE DEF m
  <2>4. Begins(h[Len(q)], h[m], Int)
    BY <1>0, <1>2, <2>3, JoinRest
  <2>5. Begins(h[Len(q)], h[k] \o q[k + 1], Int)
    BY <2>2, <2>4 DEF m
  <2> QED BY <2>2, <2>5
<1> DEFINE T == {k \in 0..Len(p) : /\ k <= Len(q) /\ g[k] = h[k]
                                   /\ \A i \in 1..k : p[i] = q[i]}
<1>6. 0 \in T
  <2>1. \A i \in 1..0 : FALSE
    OBVIOUS
  <2> QED BY <1>0, <1>3, <2>1
<1>7. ASSUME NEW k \in 0..(Len(p) - 1), k \in T PROVE k + 1 \in T
  <2>1. Begins(g[Len(p)], g[k] \o p[k + 1], Int)
    BY <1>4
  <2>2. g[k] = h[k] /\ k <= Len(q) /\ g[k] \in Seq(Int) /\ p[k + 1] \in C
    BY <1>4, <1>7
  <2>3. k # Len(q)
    <3>1. g[Len(p)] # g[k]
      BY <2>1, <2>2, WordMore, Zenon
    <3> QED BY <1>3, <2>2, <3>1
  <2>4. k \in 0..(Len(q) - 1) /\ k + 1 <= Len(q) /\ k + 1 \in 0..Len(p)
    BY <1>0, <2>2, <2>3
  <2>5. Begins(g[Len(p)], g[k] \o q[k + 1], Int) /\ q[k + 1] \in C
    BY <1>3, <1>5, <2>2, <2>4
  <2>8. p[k + 1] = q[k + 1]
    BY <2>1, <2>2, <2>5, WordUnique, Zenon
  <2>9. g[k + 1] = h[k + 1]
    BY <1>4, <1>5, <2>2, <2>4, <2>8
  <2>10. \A i \in 1..(k + 1) : p[i] = q[i]
    <3>1. \A i \in 1..(k + 1) : i \in 1..k \/ i = k + 1
      OBVIOUS
    <3> QED BY <1>7, <2>8, <3>1
  <2> QED BY <2>4, <2>9, <2>10
<1>8. Len(p) <= Len(q) /\ g[Len(p)] = h[Len(p)] /\ \A i \in 1..Len(p) : p[i] = q[i]
  <2>1. \A k \in 0..Len(p) : k \in T
    <3> HIDE DEF T
    <3> QED BY <1>0, <1>6, <1>7, Reached
  <2>2. Len(p) \in T
    BY <1>0, <2>1
  <2> QED BY <2>2
<1>9. Len(p) = Len(q)
  <2> SUFFICES ASSUME Len(p) # Len(q) PROVE FALSE
    OBVIOUS
  <2> DEFINE k == Len(p)
  <2>1. k \in 0..(Len(q) - 1)
    BY <1>0, <1>8
  <2>2. h[k] = h[Len(q)]
    BY <1>3, <1>8
  <2> HIDE DEF k
  <2>3. Begins(h[Len(q)], h[k] \o q[k + 1], Int) /\ h[k] \in Seq(Int) /\ q[k + 1] \in C
    BY <1>5, <2>1
  <2>4. h[Len(q)] # h[k]
    BY <2>3, WordMore, Zenon
  <2> QED BY <2>2, <2>4
<1> QED BY <1>0, <1>8, <1>9, SeqEqual

-----------------------------------------------------------------------------
(* Transcripts                                                             *)

\* A part of a transcript behind its length (protocol.go:51-60).
Framed(w) == <<Len(w)>> \o w

\* The symbols of a framed part.
LEMMA FramedIs ==
  ASSUME NEW w \in Seq(Int)
  PROVE  /\ Framed(w) \in Seq(Int) /\ Framed(w) # <<>>
         /\ Framed(w)[1] = Len(w) /\ Len(Framed(w)) = Len(w) + 1
         /\ \A i \in 1..Len(w) : Framed(w)[i + 1] = w[i]
<1>1. <<Len(w)>> \in Seq(Int)
  OBVIOUS
<1>2. /\ Framed(w) \in Seq(Int) /\ Len(Framed(w)) = Len(w) + 1
      /\ Framed(w)[1] = Len(w)
  BY <1>1 DEF Framed
<1>3. \A i \in 1..Len(w) : Framed(w)[i + 1] = w[i]
  BY <1>1 DEF Framed
<1> QED BY <1>2, <1>3

\* A framed part is no beginning of another: its first symbol tells its length.
LEMMA FramedUnique ==
  ASSUME NEW w \in Seq(Int), NEW x \in Seq(Int), NEW u \in Seq(Int), NEW v \in Seq(Int),
         Framed(w) \o u = Framed(x) \o v
  PROVE  w = x
<1> DEFINE a == Framed(w)   b == Framed(x)
<1>1. /\ a \in Seq(Int) /\ a[1] = Len(w) /\ Len(a) = Len(w) + 1
      /\ \A i \in 1..Len(w) : a[i + 1] = w[i]
  BY FramedIs
<1>2. /\ b \in Seq(Int) /\ b[1] = Len(x) /\ Len(b) = Len(x) + 1
      /\ \A i \in 1..Len(x) : b[i + 1] = x[i]
  BY FramedIs
<1>3. a \o u = b \o v
  OBVIOUS
<1> HIDE DEF a, b
<1>4. \A i \in 1..Len(a) : a[i] = (a \o u)[i]
  BY <1>1
<1>5. \A i \in 1..Len(b) : b[i] = (b \o v)[i]
  BY <1>2
<1>6. Len(w) \in Nat /\ Len(x) \in Nat
  OBVIOUS
<1>7. Len(w) = Len(x)
  <2>1. 1 \in 1..Len(a) /\ 1 \in 1..Len(b)
    BY <1>1, <1>2, <1>6
  <2> QED BY <1>1, <1>2, <1>3, <1>4, <1>5, <2>1
<1>8. \A i \in 1..Len(w) : w[i] = x[i]
  <2> SUFFICES ASSUME NEW i \in 1..Len(w) PROVE w[i] = x[i]
    OBVIOUS
  <2> DEFINE j == i + 1
  <2>1. j \in 1..Len(a) /\ j \in 1..Len(b)
    BY <1>1, <1>2, <1>6, <1>7
  <2>2. w[i] = a[j] /\ x[i] = b[j]
    BY <1>1, <1>2, <1>7
  <2> HIDE DEF j
  <2> QED BY <1>3, <1>4, <1>5, <2>1, <2>2
<1> QED BY <1>7, <1>8, SeqEqual

\* Parts are read back from the transcript they are joined in.
LEMMA FieldsUnique ==
  ASSUME NEW p \in Seq(Seq(Int)), NEW q \in Seq(Seq(Int)), fields(p) = fields(q)
  PROVE  p = q
<1> DEFINE C == {Framed(w) : w \in Seq(Int)}
           P == [i \in DOMAIN p |-> Framed(p[i])]
           Q == [i \in DOMAIN q |-> Framed(q[i])]
<1>1. C \in SUBSET Seq(Int) /\ <<>> \notin C
  BY FramedIs
<1>2. ASSUME NEW a \in C, NEW b \in C, NEW u \in Seq(Int), NEW v \in Seq(Int),
             a \o u = b \o v
      PROVE  a = b
  <2>1. PICK w \in Seq(Int) : a = Framed(w)
    OBVIOUS
  <2>2. PICK x \in Seq(Int) : b = Framed(x)
    OBVIOUS
  <2>3. w = x
    BY <1>2, <2>1, <2>2, FramedUnique
  <2> QED BY <2>1, <2>2, <2>3
<1>3. PrefixFree(C)
  BY <1>1, <1>2 DEF PrefixFree
<1>4. P \in Seq(C) /\ Len(P) = Len(p) /\ \A i \in 1..Len(p) : P[i] = Framed(p[i])
  <2>1. \A i \in 1..Len(p) : p[i] \in Seq(Int)
    BY ElementOfSeq
  <2>2. \A i \in 1..Len(p) : Framed(p[i]) \in C
    BY <2>1
  <2> HIDE DEF C
  <2>3. P \in [1..Len(p) -> C] /\ Len(p) \in Nat
    BY <2>2
  <2> QED BY <2>3
<1>5. Q \in Seq(C) /\ Len(Q) = Len(q) /\ \A i \in 1..Len(q) : Q[i] = Framed(q[i])
  <2>1. \A i \in 1..Len(q) : q[i] \in Seq(Int)
    BY ElementOfSeq
  <2>2. \A i \in 1..Len(q) : Framed(q[i]) \in C
    BY <2>1
  <2> HIDE DEF C
  <2>3. Q \in [1..Len(q) -> C] /\ Len(q) \in Nat
    BY <2>2
  <2> QED BY <2>3
<1>6. FlattenSeq(P) = FlattenSeq(Q)
  BY DEF fields, Framed
<1>7. P = Q
  <2> HIDE DEF C, P, Q
  <2> QED BY <1>1, <1>3, <1>4, <1>5, <1>6, FlattenUnique
<1>8. Len(p) = Len(q)
  BY <1>4, <1>5, <1>7
<1>9. ASSUME NEW i \in 1..Len(p) PROVE p[i] = q[i]
  <2>1. p[i] \in Seq(Int) /\ q[i] \in Seq(Int) /\ <<>> \in Seq(Int)
    BY <1>8, ElementOfSeq
  <2>2. Framed(p[i]) = Framed(q[i])
    BY <1>4, <1>5, <1>7, <1>8
  <2>3. Framed(p[i]) \o <<>> = Framed(q[i]) \o <<>>
    BY <2>2
  <2> QED BY <2>1, <2>3, FramedUnique
<1> QED BY <1>8, <1>9, SeqEqual

-----------------------------------------------------------------------------
(* UTF-8                                                                   *)

\* Both encodings of a character are bytes.
LEMMA Utf8Is ==
  ASSUME NEW c \in Char
  PROVE  utf8(c) \in Seq(Int) /\ escape(c) \in Seq(Int)
BY DEF utf8, escape, Char, Wide, Lone, Angle, Plain

\* A string's UTF-8 is a sequence of bytes.
LEMMA BytesType ==
  ASSUME NEW s \in Seq(Char)
  PROVE  Bytes(s) \in Seq(Int) /\ Len(Bytes(s)) \in Nat
<1> DEFINE S == [i \in DOMAIN s |-> utf8(s[i])]
<1>1. \A i \in DOMAIN s : s[i] \in Char
  OBVIOUS
<1>2. S \in [1..Len(s) -> Seq(Int)] /\ Len(s) \in Nat
  BY <1>1, Utf8Is
<1>3. S \in Seq(Seq(Int))
  BY <1>2
<1> HIDE DEF S
<1>4. FlattenSeq(S) \in Seq(Int) /\ Len(FlattenSeq(S)) \in Nat
  BY <1>3, FlattenType
<1> QED BY <1>4 DEF Bytes, S

\* UTF-8 can be read back.
LEMMA BytesUnique ==
  ASSUME NEW s \in Seq(Scalar), NEW t \in Seq(Scalar), Bytes(s) = Bytes(t)
  PROVE  s = t
<1> DEFINE C == {utf8(c) : c \in Scalar}
           P == [i \in DOMAIN s |-> utf8(s[i])]
           Q == [i \in DOMAIN t |-> utf8(t[i])]
<1>0. \A c \in Scalar : utf8(c) \in Seq(Int)
  BY Utf8Is DEF Scalar
<1>a. \A c \in Scalar : /\ utf8(c) # <<>> /\ Len(utf8(c)) >= 1
                        /\ utf8(c)[1] = IF c = Wide THEN 240 ELSE c
  BY DEF utf8, Scalar, Char, Wide, Lone, Angle, Plain
<1>b. \A c, d \in Scalar : utf8(c)[1] = utf8(d)[1] => c = d
  BY <1>a DEF Scalar, Char, Wide, Lone, Angle, Plain
<1>1. C \in SUBSET Seq(Int) /\ <<>> \notin C
  BY <1>0, <1>a
<1>2. ASSUME NEW a \in C, NEW b \in C, NEW u \in Seq(Int), NEW v \in Seq(Int),
             a \o u = b \o v
      PROVE  a = b
  <2>1. PICK c \in Scalar : a = utf8(c)
    OBVIOUS
  <2>2. PICK d \in Scalar : b = utf8(d)
    OBVIOUS
  <2>3. a \in Seq(Int) /\ b \in Seq(Int) /\ Len(a) >= 1 /\ Len(b) >= 1
    BY <1>0, <1>a, <2>1, <2>2
  <2>4. a[1] = (a \o u)[1]
    BY <2>3
  <2>5. b[1] = (b \o v)[1]
    BY <2>3
  <2>6. a[1] = b[1]
    BY <1>2, <2>4, <2>5
  <2> QED BY <1>b, <2>1, <2>2, <2>6
<1>3. PrefixFree(C)
  BY <1>1, <1>2 DEF PrefixFree
<1>4. P \in Seq(C) /\ Len(P) = Len(s) /\ \A i \in 1..Len(s) : P[i] = utf8(s[i])
  <2>1. P \in [1..Len(s) -> C] /\ Len(s) \in Nat
    OBVIOUS
  <2> QED BY <2>1
<1>5. Q \in Seq(C) /\ Len(Q) = Len(t) /\ \A i \in 1..Len(t) : Q[i] = utf8(t[i])
  <2>1. Q \in [1..Len(t) -> C] /\ Len(t) \in Nat
    OBVIOUS
  <2> QED BY <2>1
<1>6. FlattenSeq(P) = FlattenSeq(Q)
  BY DEF Bytes
<1>7. P = Q
  <2> HIDE DEF C, P, Q
  <2> QED BY <1>1, <1>3, <1>4, <1>5, <1>6, FlattenUnique
<1>8. Len(s) = Len(t)
  BY <1>4, <1>5, <1>7
<1>9. ASSUME NEW i \in 1..Len(s) PROVE s[i] = t[i]
  <2>1. s[i] \in Scalar /\ t[i] \in Scalar
    BY <1>8
  <2>2. utf8(s[i]) = utf8(t[i])
    BY <1>4, <1>5, <1>7, <1>8
  <2> QED BY <1>b, <2>1, <2>2
<1> QED BY <1>8, <1>9, SeqEqual

-----------------------------------------------------------------------------
(* What a request's transcript tells                                       *)

\* A request as Ask signs it.
Prepared ==
  [kind : {"yesno", "choice", "text"}, id : Seq(Scalar), title : Seq(Scalar),
   summary : Seq(Scalar), category : Seq(Scalar), agent : Seq(Scalar),
   placeholder : Seq(Scalar), options : {Absent} \cup Seq(Seq(Scalar)),
   max_len : Int, expires_in_s : Int, request_seq : Int, deadline_ms : Int,
   sig : {Absent}]

HeadParts(r) ==
  << Word.request, Num(r.request_seq), Bytes(r.id), Bytes(r.title),
     Bytes(r.category), Bytes(r.summary), Bytes(r.agent), Word[r.kind],
     Num(Len(OptionsOf(r.options))) >>
OptionParts(r) == [i \in DOMAIN OptionsOf(r.options) |-> Bytes(OptionsOf(r.options)[i])]
TailParts(r) ==
  << Bytes(r.placeholder), Num(r.max_len), Num(r.expires_in_s), Num(r.deadline_ms) >>

\* The parts of a request's transcript in three groups (protocol.go:68-78).
LEMMA TranscriptParts ==
  ASSUME NEW r
  PROVE  RequestSigningMessage(r) = fields(HeadParts(r) \o OptionParts(r) \o TailParts(r))
BY DEF RequestSigningMessage, HeadParts, OptionParts, TailParts

\* The same, for a string of whole characters.
LEMMA ScalarBytes ==
  ASSUME NEW s \in Seq(Scalar)
  PROVE  s \in Seq(Char) /\ Bytes(s) \in Seq(Int)
<1>1. Scalar \subseteq Char
  BY DEF Scalar
<1>2. s \in Seq(Char)
  BY <1>1, SeqMonotonic
<1> QED BY <1>2, BytesType

\* The sizes of the three groups.
LEMMA HeadType ==
  ASSUME NEW r \in Prepared
  PROVE  /\ HeadParts(r) \in Seq(Seq(Int)) /\ Len(HeadParts(r)) = 9
         /\ TailParts(r) \in Seq(Seq(Int)) /\ Len(TailParts(r)) = 4
         /\ OptionsOf(r.options) \in Seq(Seq(Scalar))
         /\ OptionParts(r) \in Seq(Seq(Int))
         /\ Len(OptionParts(r)) = Len(OptionsOf(r.options))
<1>1. /\ r.id \in Seq(Scalar) /\ r.title \in Seq(Scalar) /\ r.category \in Seq(Scalar)
      /\ r.summary \in Seq(Scalar) /\ r.agent \in Seq(Scalar)
      /\ r.placeholder \in Seq(Scalar) /\ r.request_seq \in Int /\ r.max_len \in Int
      /\ r.expires_in_s \in Int /\ r.deadline_ms \in Int
      /\ r.kind \in {"yesno", "choice", "text"}
      /\ r.options \in {Absent} \cup Seq(Seq(Scalar))
  BY DEF Prepared
<1>2. /\ Bytes(r.id) \in Seq(Int) /\ Bytes(r.title) \in Seq(Int)
      /\ Bytes(r.category) \in Seq(Int) /\ Bytes(r.summary) \in Seq(Int)
      /\ Bytes(r.agent) \in Seq(Int) /\ Bytes(r.placeholder) \in Seq(Int)
  BY <1>1, ScalarBytes
<1>3. Word.request \in Seq(Int) /\ Word[r.kind] \in Seq(Int)
  <2>1. CASE r.kind = "yesno"
    BY <2>1 DEF Word
  <2>2. CASE r.kind = "choice"
    BY <2>2 DEF Word
  <2>3. CASE r.kind = "text"
    BY <2>3 DEF Word
  <2> QED BY <1>1, <2>1, <2>2, <2>3
<1>4. \A n \in Int : Num(n) \in Seq(Int)
  BY DEF Num
<1> DEFINE opts == OptionsOf(r.options)
<1>5. opts \in Seq(Seq(Scalar)) /\ Len(opts) \in Int
  BY <1>1 DEF OptionsOf
<1>6. /\ Num(Len(opts)) \in Seq(Int) /\ Num(r.request_seq) \in Seq(Int)
      /\ Num(r.max_len) \in Seq(Int) /\ Num(r.expires_in_s) \in Seq(Int)
      /\ Num(r.deadline_ms) \in Seq(Int)
  BY <1>1, <1>4, <1>5
<1>7. HeadParts(r) \in Seq(Seq(Int)) /\ Len(HeadParts(r)) = 9
  <2> HIDE DEF opts
  <2> QED BY <1>2, <1>3, <1>6 DEF HeadParts, opts
<1>8. TailParts(r) \in Seq(Seq(Int)) /\ Len(TailParts(r)) = 4
  BY <1>2, <1>6 DEF TailParts
<1>9. OptionParts(r) \in Seq(Seq(Int)) /\ Len(OptionParts(r)) = Len(opts)
  <2> HIDE DEF opts
  <2>1. \A i \in 1..Len(opts) : opts[i] \in Seq(Scalar)
    BY <1>5, ElementOfSeq
  <2>2. \A i \in 1..Len(opts) : Bytes(opts[i]) \in Seq(Int)
    BY <2>1, ScalarBytes
  <2>3. OptionParts(r) \in [1..Len(opts) -> Seq(Int)]
    BY <1>5, <2>2 DEF OptionParts, opts
  <2>4. Len(opts) \in Nat
    BY <1>5
  <2> QED BY ONLY <2>3, <2>4
<1> QED BY <1>5, <1>7, <1>8, <1>9

\* The three groups, joined from the left and from the right.
Three(a, o, c) == a \o o \o c
Right(a, o, c) == a \o (o \o c)

\* The two are the same.
LEMMA Regrouped ==
  ASSUME NEW E, NEW a \in Seq(E), NEW b \in Seq(E), NEW c \in Seq(E)
  PROVE  Three(a, b, c) = Right(a, b, c)
BY DEF Three, Right

\* The groups can be told apart: the first has a fixed length, and tells the
\* length of the second.
LEMMA PartsApart ==
  ASSUME NEW E, NEW a \in Seq(E), NEW b \in Seq(E), NEW o \in Seq(E), NEW q \in Seq(E),
         NEW c \in Seq(E), NEW d \in Seq(E), Len(a) = Len(b),
         a = b => Len(o) = Len(q), Three(a, o, c) = Three(b, q, d)
  PROVE  a = b /\ o = q /\ c = d
<1> DEFINE x == o \o c   y == q \o d
<1>1. a \o x = b \o y
  <2>1. Right(a, o, c) = Right(b, q, d)
    BY Regrouped, Zenon
  <2> QED BY <2>1, Zenon DEF Right
<1>2. x \in Seq(E) /\ y \in Seq(E)
  OBVIOUS
<1>3. a = b
  <2> HIDE DEF x, y
  <2>1. \A i \in 1..Len(a) : a[i] = (a \o x)[i]
    BY <1>2
  <2>2. \A i \in 1..Len(b) : b[i] = (b \o y)[i]
    BY <1>2
  <2>3. \A i \in 1..Len(a) : a[i] = b[i]
    BY <1>1, <2>1, <2>2
  <2> QED BY <2>3, SeqEqual
<1>4. x = y
  <2> HIDE DEF x, y
  <2> QED BY <1>1, <1>2, <1>3, ConcatSimplifications, Zenon
<1>5. Len(o) = Len(q)
  BY <1>3
<1>6. o = q
  <2>1. \A i \in 1..Len(o) : o[i] = (o \o c)[i]
    OBVIOUS
  <2>2. \A i \in 1..Len(q) : q[i] = (q \o d)[i]
    OBVIOUS
  <2>3. \A i \in 1..Len(o) : o[i] = q[i]
    BY <1>4, <1>5, <2>1, <2>2
  <2> QED BY <1>5, <2>3, SeqEqual
<1>7. o \o c = o \o d
  BY <1>4, <1>6
<1>8. c = d
  BY <1>7, ConcatSimplifications, Zenon
<1> QED BY <1>3, <1>6, <1>8

\* Two requests signed over the same bytes are the same request.
LEMMA TranscriptUnique ==
  ASSUME NEW r \in Prepared, NEW o \in Prepared,
         OptionsOf(r.options) = <<>> => r.options = Absent,
         OptionsOf(o.options) = <<>> => o.options = Absent,
         RequestSigningMessage(r) = RequestSigningMessage(o)
  PROVE  r = o
<1> DEFINE all(x) == HeadParts(x) \o OptionParts(x) \o TailParts(x)
<1>1. all(r) \in Seq(Seq(Int)) /\ all(o) \in Seq(Seq(Int))
  BY HeadType
<1>2. all(r) = all(o)
  <2>1. fields(all(r)) = fields(all(o))
    BY TranscriptParts
  <2> HIDE DEF all
  <2> QED BY <1>1, <2>1, FieldsUnique
<1> DEFINE a == HeadParts(r)   b == HeadParts(o)
           s == OptionParts(r) t == OptionParts(o)
           c == TailParts(r)   d == TailParts(o)
<1>3. /\ a \in Seq(Seq(Int)) /\ b \in Seq(Seq(Int)) /\ s \in Seq(Seq(Int))
      /\ t \in Seq(Seq(Int)) /\ c \in Seq(Seq(Int)) /\ d \in Seq(Seq(Int))
      /\ Len(a) = 9 /\ Len(b) = 9 /\ Len(s) = Len(OptionsOf(r.options))
      /\ Len(t) = Len(OptionsOf(o.options))
  BY HeadType
<1>4. /\ a[9] = Num(Len(OptionsOf(r.options))) /\ b[9] = Num(Len(OptionsOf(o.options)))
      /\ a[2] = Num(r.request_seq) /\ b[2] = Num(o.request_seq)
      /\ a[3] = Bytes(r.id) /\ b[3] = Bytes(o.id)
      /\ a[4] = Bytes(r.title) /\ b[4] = Bytes(o.title)
      /\ a[5] = Bytes(r.category) /\ b[5] = Bytes(o.category)
      /\ a[6] = Bytes(r.summary) /\ b[6] = Bytes(o.summary)
      /\ a[7] = Bytes(r.agent) /\ b[7] = Bytes(o.agent)
      /\ a[8] = Word[r.kind] /\ b[8] = Word[o.kind]
  BY DEF HeadParts
<1>5. /\ c[1] = Bytes(r.placeholder) /\ d[1] = Bytes(o.placeholder)
      /\ c[2] = Num(r.max_len) /\ d[2] = Num(o.max_len)
      /\ c[3] = Num(r.expires_in_s) /\ d[3] = Num(o.expires_in_s)
      /\ c[4] = Num(r.deadline_ms) /\ d[4] = Num(o.deadline_ms)
  BY DEF TailParts
<1>6. \A m, n : Num(m) = Num(n) => m = n
  BY DEF Num
<1>7. Three(a, s, c) = Three(b, t, d)
  BY <1>2 DEF Three
<1>8. a = b /\ s = t /\ c = d
  <2>1. a = b => Len(s) = Len(t)
    <3>1. SUFFICES ASSUME a = b PROVE Len(s) = Len(t)
      OBVIOUS
    <3> HIDE DEF a, b, s, t
    <3>2. Num(Len(OptionsOf(r.options))) = Num(Len(OptionsOf(o.options)))
      BY <1>4, <3>1
    <3> QED BY <1>3, <1>6, <3>2
  <2> DEFINE E == Seq(Int)
  <2>2. /\ a \in Seq(E) /\ b \in Seq(E) /\ s \in Seq(E) /\ t \in Seq(E)
        /\ c \in Seq(E) /\ d \in Seq(E) /\ Len(a) = Len(b)
    BY <1>3
  <2> HIDE DEF a, b, s, t, c, d, E
  <2> QED BY ONLY <1>7, <2>1, <2>2, PartsApart
<1>9. /\ r.request_seq = o.request_seq /\ r.max_len = o.max_len
      /\ r.expires_in_s = o.expires_in_s /\ r.deadline_ms = o.deadline_ms
      /\ Len(OptionsOf(r.options)) = Len(OptionsOf(o.options))
  <2> HIDE DEF a, b, s, t, c, d
  <2> QED BY <1>4, <1>5, <1>6, <1>8
<1>10. /\ r.id = o.id /\ r.title = o.title /\ r.category = o.category
       /\ r.summary = o.summary /\ r.agent = o.agent /\ r.placeholder = o.placeholder
  <2>1. \A x \in {r, o} : /\ x.id \in Seq(Scalar) /\ x.title \in Seq(Scalar)
                          /\ x.category \in Seq(Scalar) /\ x.summary \in Seq(Scalar)
                          /\ x.agent \in Seq(Scalar) /\ x.placeholder \in Seq(Scalar)
    BY DEF Prepared
  <2> HIDE DEF a, b, s, t, c, d
  <2>2. /\ Bytes(r.id) = Bytes(o.id) /\ Bytes(r.title) = Bytes(o.title)
        /\ Bytes(r.category) = Bytes(o.category) /\ Bytes(r.summary) = Bytes(o.summary)
        /\ Bytes(r.agent) = Bytes(o.agent) /\ Bytes(r.placeholder) = Bytes(o.placeholder)
    BY <1>4, <1>5, <1>8
  <2> QED BY <2>1, <2>2, BytesUnique
<1>11. r.kind = o.kind
  <2>1. r.kind \in {"yesno", "choice", "text"} /\ o.kind \in {"yesno", "choice", "text"}
    BY DEF Prepared
  <2>2. Word[r.kind] = Word[o.kind]
    <3> HIDE DEF a, b, s, t, c, d
    <3> QED BY <1>4, <1>8
  <2> QED BY <2>1, <2>2 DEF Word
<1>12. r.options = o.options
  <2> DEFINE m == OptionsOf(r.options)   n == OptionsOf(o.options)
  <2>1. m \in Seq(Seq(Scalar)) /\ n \in Seq(Seq(Scalar)) /\ Len(m) = Len(n)
    BY <1>9, HeadType
  <2>2. \A i \in 1..Len(m) : s[i] = Bytes(m[i]) /\ t[i] = Bytes(n[i])
    BY <2>1 DEF OptionParts
  <2>3. m = n
    <3> HIDE DEF m, n, s, t
    <3>1. \A i \in 1..Len(m) : m[i] \in Seq(Scalar) /\ n[i] \in Seq(Scalar)
      BY <2>1, ElementOfSeq
    <3>2. \A i \in 1..Len(m) : Bytes(m[i]) = Bytes(n[i])
      BY <1>8, <2>2
    <3>3. \A i \in 1..Len(m) : m[i] = n[i]
      BY <3>1, <3>2, BytesUnique
    <3> QED BY <2>1, <3>3, SeqEqual
  <2> QED BY <2>3 DEF OptionsOf
<1>13. r.sig = o.sig
  BY DEF Prepared
<1> DEFINE F == {"kind", "id", "title", "summary", "category", "agent", "placeholder",
                 "options", "max_len", "expires_in_s", "request_seq", "deadline_ms", "sig"}
<1>14. r = [f \in F |-> r[f]] /\ o = [f \in F |-> o[f]]
  BY DEF Prepared
<1>15. \A f \in F : r[f] = o[f]
  BY <1>9, <1>10, <1>11, <1>12, <1>13
<1> HIDE DEF F
<1> QED BY ONLY <1>14, <1>15, Zenon

-----------------------------------------------------------------------------
(* What the agent lets through                                             *)

\* Strings of whole characters are strings.
LEMMA ScalarSeq == Seq(Scalar) \subseteq Seq(Int) /\ Seq(Scalar) \subseteq Seq(Char)
<1>1. Scalar \subseteq Int /\ Scalar \subseteq Char
  BY DEF Scalar, Char, Plain, Angle, Wide, Lone
<1> QED BY <1>1, SeqMonotonic

\* Nothing that a key may hold is taken for a key that is not there.
LEMMA AbsentIsNoText ==
  /\ Absent \notin Seq(Scalar) /\ Absent \notin Seq(Seq(Scalar)) /\ Absent \notin Int
  /\ Absent \notin Seq(Int) /\ Absent \notin BOOLEAN /\ Absent # <<>>
<1>1. Seq(Seq(Scalar)) \subseteq Seq(Seq(Int))
  BY ScalarSeq, SeqMonotonic
<1>2. Absent \notin Int /\ Absent \notin Seq(Int) /\ Absent \notin BOOLEAN
      /\ Absent \notin Seq(Seq(Int))
  BY WireAssumption
<1>3. <<>> \in Seq(Int)
  OBVIOUS
<1>4. Absent # <<>>
  BY <1>2, <1>3
<1> QED BY <1>1, <1>2, <1>4, ScalarSeq

\* The types of the limits.
LEMMA Limits ==
  /\ \A f \in TextField \cup {"option"} : Limit[f] \in Nat
  /\ MaxOptions \in Nat /\ MaxText \in Nat /\ MaxExpires \in Nat
  /\ MaxSafeInteger \in Nat /\ MaxPlaintext \in Nat /\ PadBlock \in Nat
  /\ PadBlock > 0 /\ Fixed \in Nat /\ Sequence \subseteq 1..MaxSafeInteger
  /\ Deadline \subseteq 0..MaxSafeInteger /\ Input \subseteq Question
  /\ Typed \subseteq Seq(Char) /\ MaxDepth \in Nat
BY WireAssumption

\* The checked questions, and what a checked question looks like.
Checked(r) ==
  /\ r.id # <<>>
  /\ \A f \in TextField : Len(r[f]) <= Limit[f]
  /\ responseOK(r)
  /\ r.expires_in_s \in 0..MaxExpires
  /\ pad(RequestLength(Marshal([r EXCEPT !.deadline_ms = MaxSafeInteger,
            !.request_seq = MaxSafeInteger, !.sig = <<>>]), Escaped)) <= MaxPlaintext

\* A question that ValidateRequestInput lets through is checked.
LEMMA SendableIs ==
  ASSUME NEW r \in Sendable
  PROVE  r \in Question /\ Checked(r)
<1>1. r \in Question /\ ValidateRequestInput(r)
  BY Limits DEF Sendable
<1>2. "id" \in TextField
  BY DEF TextField
<1>3. r.id # <<>> /\ \A f \in TextField : Len(r[f]) <= Limit[f]
  BY <1>1, <1>2 DEF ValidateRequestInput, scalarBound, scalarLength
<1> QED BY <1>1, <1>3 DEF ValidateRequestInput, EncodeMessage, Checked

\* What Ask makes of a checked question, before it signs it.
Full(r, q, d) == [Bare(r, q, d) EXCEPT !.sig = RequestSigningMessage(Bare(r, q, d))]

\* A request, field by field, for the EXCEPTs of the code to be rewritten in.
As(r, q, d, s) ==
  [kind |-> r.kind, id |-> r.id, title |-> r.title, summary |-> r.summary,
   category |-> r.category, agent |-> r.agent, placeholder |-> r.placeholder,
   options |-> r.options, max_len |-> r.max_len, expires_in_s |-> r.expires_in_s,
   request_seq |-> q, deadline_ms |-> d, sig |-> s]

WithSeq(x, w) == [x EXCEPT !.request_seq = w]
WithDeadline(x, w) == [x EXCEPT !.deadline_ms = w]
WithSig(x, w) == [x EXCEPT !.sig = w]

\* The metadata is replaced one field at a time.
LEMMA AsExcept ==
  ASSUME NEW r, NEW q, NEW d, NEW s, NEW w
  PROVE  /\ WithSeq(As(r, q, d, s), w) = As(r, w, d, s)
         /\ WithDeadline(As(r, q, d, s), w) = As(r, q, w, s)
         /\ WithSig(As(r, q, d, s), w) = As(r, q, d, w)
BY DEF As, WithSeq, WithDeadline, WithSig

\* The request that is signed, and the one that is measured.
LEMMA BareIs ==
  ASSUME NEW r \in Question, NEW q, NEW d
  PROVE  /\ Bare(r, q, d) = As(r, q, d, Absent)
         /\ [r EXCEPT !.deadline_ms = d, !.request_seq = q, !.sig = <<>>] = As(r, q, d, <<>>)
<1> DEFINE m == r.request_seq   n == r.deadline_ms   b == Bare(r, q, d)
<1>1. r = As(r, m, n, Absent)
  BY DEF Question, As
<1>2. /\ b = WithDeadline(WithSeq(r, q), d)
      /\ [r EXCEPT !.deadline_ms = d, !.request_seq = q, !.sig = <<>>]
           = WithSig(WithSeq(WithDeadline(r, d), q), <<>>)
  BY Zenon DEF Bare, WithSeq, WithDeadline, WithSig
<1> HIDE DEF m, n, b
<1>3. b = As(r, q, d, Absent)
  BY ONLY <1>1, <1>2, AsExcept
<1>4. WithSig(WithSeq(WithDeadline(r, d), q), <<>>) = As(r, q, d, <<>>)
  BY ONLY <1>1, AsExcept
<1> QED BY <1>2, <1>3, <1>4, Zenon DEF b

\* The request that is sent.
LEMMA FullIs ==
  ASSUME NEW r \in Question, NEW q, NEW d
  PROVE  Full(r, q, d) = As(r, q, d, RequestSigningMessage(Bare(r, q, d)))
<1> DEFINE b == Bare(r, q, d)
<1>1. Full(r, q, d) = WithSig(b, RequestSigningMessage(b))
  BY Zenon DEF Full, WithSig
<1>2. b = As(r, q, d, Absent)
  BY BareIs
<1> HIDE DEF b
<1>3. Full(r, q, d) = As(r, q, d, RequestSigningMessage(b))
  BY <1>1, <1>2, AsExcept
<1> QED BY <1>3 DEF b

\* The fields of a question.
LEMMA QuestionType ==
  ASSUME NEW r \in Question
  PROVE  /\ r.id \in Seq(Scalar) /\ r.title \in Seq(Scalar) /\ r.summary \in Seq(Scalar)
         /\ r.category \in Seq(Scalar) /\ r.agent \in Seq(Scalar)
         /\ r.placeholder \in Seq(Scalar) /\ r.options \in {Absent} \cup Seq(Seq(Scalar))
         /\ r.max_len \in Int /\ r.expires_in_s \in Int
BY DEF Question

\* A question of a kind asks nothing of another kind.
LEMMA ResponseIs ==
  ASSUME NEW r \in Question, responseOK(r)
  PROVE  /\ r.kind \in {"yesno", "choice", "text"}
         /\ r.kind = "choice" => /\ r.options \in Seq(Seq(Scalar)) /\ r.options # <<>>
                                 /\ Len(r.options) \in 1..MaxOptions
                                 /\ \A i \in DOMAIN r.options :
                                      Len(r.options[i]) <= Limit["option"] /\ r.options[i] # <<>>
                                 /\ Cardinality(ToSet(r.options)) = Len(r.options)
         /\ r.kind # "choice" => r.options = Absent
         /\ r.kind # "text" => r.placeholder = <<>> /\ r.max_len = 0
         /\ r.max_len \in 0..MaxText
<1>0. 0 \in 0..MaxText
  BY Limits
<1>1. r.options # <<>> \/ r.kind # "choice"
  <2>1. ASSUME r.options = <<>>, r.kind = "choice" PROVE FALSE
    <3>1. Len(r.options) = 0
      BY <2>1
    <3>2. Len(r.options) \in 1..MaxOptions
      BY <2>1 DEF responseOK
    <3> QED BY <3>1, <3>2, Limits
  <2> QED BY <2>1
<1>2. r.options \in {Absent} \cup Seq(Seq(Scalar))
  BY QuestionType
<1>3. CASE r.kind = "choice"
  BY <1>0, <1>1, <1>2, <1>3 DEF responseOK, scalarBound, scalarLength
<1>4. CASE r.kind # "choice"
  BY <1>0, <1>4 DEF responseOK
<1> QED BY <1>3, <1>4

\* The request that is signed has a transcript that can be read back.
LEMMA SentIs ==
  ASSUME NEW r \in Sendable, NEW q \in Sequence, NEW d \in Deadline
  PROVE  /\ Bare(r, q, d) \in Prepared
         /\ OptionsOf(Bare(r, q, d).options) = <<>> => Bare(r, q, d).options = Absent
<1>1. q \in Int /\ d \in Int
  BY Limits
<1>2. r \in Question /\ responseOK(r)
  BY SendableIs DEF Checked
<1>3. /\ Bare(r, q, d).options = r.options /\ Bare(r, q, d).kind = r.kind
  <2>1. Bare(r, q, d) = As(r, q, d, Absent)
    BY <1>2, BareIs
  <2> QED BY <2>1 DEF As
<1>4. Bare(r, q, d) \in Prepared
  <2>1. r.kind \in {"yesno", "choice", "text"}
    BY <1>2, ResponseIs
  <2>2. As(r, q, d, Absent) \in Prepared
    BY <1>1, <1>2, <2>1, QuestionType DEF Prepared, As
  <2> QED BY <1>2, <2>2, BareIs
<1>5. OptionsOf(r.options) = <<>> => r.options = Absent
  BY <1>2, ResponseIs DEF OptionsOf
<1> QED BY <1>3, <1>4, <1>5

-----------------------------------------------------------------------------
(* Lengths                                                                 *)

\* A larger number is not written with fewer digits.
LEMMA DigitsRise ==
  ASSUME NEW m \in Int, NEW n \in Int
  PROVE  Digits(n) \in Nat /\ (m <= n => Digits(m) <= Digits(n))
<1> DEFINE P(k) == {p \in 10..k : PowerOfTen[p]}
<1>1. \A k \in Int : IsFiniteSet(P(k)) /\ Cardinality(P(k)) \in Nat
  <2> SUFFICES ASSUME NEW k \in Int PROVE IsFiniteSet(P(k)) /\ Cardinality(P(k)) \in Nat
    OBVIOUS
  <2>1. IsFiniteSet(10..k)
    BY FS_Interval
  <2>2. P(k) \subseteq 10..k
    OBVIOUS
  <2> HIDE DEF P
  <2>3. IsFiniteSet(P(k))
    BY <2>1, <2>2, FS_Subset
  <2> QED BY <2>3, FS_CardinalityType
<1>2. m <= n => P(m) \subseteq P(n)
  OBVIOUS
<1>3. m <= n => Cardinality(P(m)) <= Cardinality(P(n))
  <2> HIDE DEF P
  <2> QED BY <1>1, <1>2, FS_Subset
<1>4. Digits(n) = 1 + Cardinality(P(n)) /\ Digits(m) = 1 + Cardinality(P(m))
  BY DEF Digits
<1> HIDE DEF P
<1> QED BY <1>1, <1>3, <1>4

\* Padding lengthens, and a longer message is not padded to a shorter one.
LEMMA PadRises ==
  ASSUME NEW m \in Nat, NEW n \in Nat
  PROVE  /\ pad(n) \in Nat /\ pad(n) > n
         /\ m <= n => pad(m) <= pad(n)
<1> DEFINE B == PadBlock
<1>0. B \in Nat /\ B > 0
  BY Limits
<1>1. /\ n = B * (n \div B) + (n % B) /\ n % B \in 0..(B - 1) /\ n \div B \in Int
      /\ m = B * (m \div B) + (m % B) /\ m % B \in 0..(B - 1) /\ m \div B \in Int
  <2> HIDE DEF B
  <2> QED BY <1>0
<1>2. pad(n) = n + B - (n % B) /\ pad(m) = m + B - (m % B)
  BY DEF pad
<1> DEFINE x == m \div B   y == n \div B   i == m % B   j == n % B
<1> HIDE DEF x, y, i, j, B
<1>3. n = B * y + j /\ m = B * x + i /\ i \in 0..(B - 1) /\ j \in 0..(B - 1)
      /\ x \in Int /\ y \in Int
  BY <1>1 DEF x, y, i, j
<1>4. pad(n) = n + B - j /\ pad(m) = m + B - i
  BY <1>2 DEF i, j
<1>5. pad(n) \in Nat /\ pad(n) > n
  BY <1>0, <1>3, <1>4
<1>6. ASSUME m <= n PROVE x <= y
  <2> SUFFICES ASSUME x >= y + 1 PROVE FALSE
    BY <1>3
  <2>1. B * (x - y) >= B
    BY <1>0, <1>3
  <2>2. B * x - B * y >= B
    BY <2>1, <1>0, <1>3
  <2> DEFINE u == B * x   v == B * y
  <2>3. u \in Int /\ v \in Int
    BY <1>0, <1>3
  <2>4. u - v >= B /\ n = v + j /\ m = u + i
    BY <2>2, <1>3
  <2> HIDE DEF u, v
  <2> QED BY <1>0, <1>3, <1>6, <2>3, <2>4
<1>7. ASSUME m <= n PROVE pad(m) <= pad(n)
  <2>1. y - x \in Nat
    BY <1>3, <1>6, <1>7
  <2>2. B * (y - x) >= 0
    BY <1>0, <2>1
  <2>3. B * y - B * x >= 0
    BY <1>0, <1>3, <2>2
  <2> DEFINE u == B * x   v == B * y
  <2>4. u \in Int /\ v \in Int
    BY <1>0, <1>3
  <2>5. v - u >= 0 /\ n = v + j /\ m = u + i
    BY <2>3, <1>3
  <2> HIDE DEF u, v
  <2> QED BY <1>0, <1>3, <1>4, <2>4, <2>5
<1> QED BY <1>5, <1>7

\* A quoted string is a sequence of bytes,
LEMMA QuotedType ==
  ASSUME NEW s \in Seq(Char), NEW e \in BOOLEAN
  PROVE  Quoted(s, e) \in Seq(Int)
<1> DEFINE S == [i \in DOMAIN s |-> escape(s[i])]
           body == IF e THEN FlattenSeq(S) ELSE Bytes(s)
<1>1. \A i \in DOMAIN s : s[i] \in Char
  OBVIOUS
<1>2. S \in [1..Len(s) -> Seq(Int)] /\ Len(s) \in Nat
  BY <1>1, Utf8Is
<1>3. S \in Seq(Seq(Int))
  BY <1>2
<1>4. FlattenSeq(S) \in Seq(Int) /\ Bytes(s) \in Seq(Int)
  <2> HIDE DEF S
  <2> QED BY <1>3, FlattenType, BytesType
<1>5. body \in Seq(Int)
  <2> HIDE DEF S
  <2> QED BY <1>4
<1>6. Quoted(s, e) = <<34>> \o body \o <<34>>
  BY DEF Quoted
<1> HIDE DEF body, S
<1> QED BY <1>5, <1>6

\* so that each kind of member has a length:
LEMMA TextType ==
  ASSUME NEW v \in {Absent} \cup Seq(Scalar), NEW e \in BOOLEAN
  PROVE  Text(v, e) \in Nat
<1>1. CASE v = Absent
  BY <1>1 DEF Text
<1>2. CASE v # Absent
  <2>1. v \in Seq(Char)
    BY <1>2, ScalarSeq
  <2>2. Len(Quoted(v, e)) \in Nat
    BY <2>1, QuotedType, LenProperties
  <2> QED BY <1>2, <2>2 DEF Text
<1> QED BY <1>1, <1>2

\* a list,
LEMMA ListType ==
  ASSUME NEW v \in {Absent} \cup Seq(Seq(Scalar)), NEW e \in BOOLEAN
  PROVE  List(v, e) \in Nat
<1>1. CASE v = Absent
  BY <1>1 DEF List
<1>2. CASE v # Absent
  <2> DEFINE S == [i \in DOMAIN v |-> Quoted(v[i], e) \o <<44>>]
  <2>1. v \in Seq(Seq(Scalar))
    BY <1>2
  <2>2. DOMAIN v = 1..Len(v) /\ Len(v) \in Nat
    BY <2>1
  <2>3. ASSUME NEW i \in 1..Len(v) PROVE Quoted(v[i], e) \o <<44>> \in Seq(Int)
    <3>1. v[i] \in Seq(Scalar)
      BY <2>1, ElementOfSeq
    <3>2. v[i] \in Seq(Char)
      BY <3>1, ScalarSeq
    <3>3. Quoted(v[i], e) \in Seq(Int) /\ <<44>> \in Seq(Int)
      BY <3>2, QuotedType
    <3> DEFINE a == Quoted(v[i], e)
    <3> HIDE DEF a
    <3>4. a \in Seq(Int)
      BY <3>3 DEF a
    <3>5. a \o <<44>> \in Seq(Int)
      BY <3>4
    <3> QED BY <3>5 DEF a
  <2>4. S \in [1..Len(v) -> Seq(Int)]
    BY <2>2, <2>3
  <2> HIDE DEF S
  <2>5. S \in Seq(Seq(Int))
    BY <2>2, <2>4
  <2>6. Len(FlattenSeq(S)) \in Nat
    BY <2>5, FlattenType
  <2> QED BY <1>2, <2>6 DEF List, S
<1> QED BY <1>1, <1>2

\* a number, a constant.
LEMMA NumberType ==
  ASSUME NEW n \in {Absent} \cup Int
  PROVE  Number(n) \in Nat /\ Constant(n) \in Nat
BY DigitsRise DEF Number, Constant

\* The part of a request's length that the agent's metadata has no part in.
Body(r) ==
  Fixed + Text(r.id, Escaped) + Text(r.title, Escaped) + Text(r.summary, Escaped)
    + Text(OmitEmpty(r.category, <<>>), Escaped) + Text(OmitEmpty(r.agent, <<>>), Escaped)
    + List(IF OptionsOf(r.options) = <<>> THEN Absent ELSE r.options, Escaped)
    + Text(OmitEmpty(r.placeholder, <<>>), Escaped) + Number(OmitEmpty(r.max_len, 0))
    + Number(OmitEmpty(r.expires_in_s, 0))

\* The length of a message, in the part the metadata leaves alone and the rest.
LEMMA LengthIs ==
  ASSUME NEW r \in Question, NEW q, NEW d, NEW s
  PROVE  /\ RequestLength(Marshal(As(r, q, d, s)), Escaped)
              = Body(r) + Number(q) + Number(d) + Constant(s)
         /\ Body(r) \in Nat
<1>1. Escaped \in BOOLEAN
  BY DEF Escaped
<1>2. /\ Text(r.id, Escaped) \in Nat /\ Text(r.title, Escaped) \in Nat
      /\ Text(r.summary, Escaped) \in Nat /\ Text(OmitEmpty(r.category, <<>>), Escaped) \in Nat
      /\ Text(OmitEmpty(r.agent, <<>>), Escaped) \in Nat
      /\ Text(OmitEmpty(r.placeholder, <<>>), Escaped) \in Nat
  BY <1>1, QuestionType, TextType DEF OmitEmpty
<1>3. List(IF OptionsOf(r.options) = <<>> THEN Absent ELSE r.options, Escaped) \in Nat
  BY <1>1, QuestionType, ListType
<1>4. Number(OmitEmpty(r.max_len, 0)) \in Nat /\ Number(OmitEmpty(r.expires_in_s, 0)) \in Nat
  BY QuestionType, NumberType DEF OmitEmpty
<1>5. Body(r) \in Nat
  <2> DEFINE a == Text(r.id, Escaped)   b == Text(r.title, Escaped)
             c == Text(r.summary, Escaped)
             d1 == Text(OmitEmpty(r.category, <<>>), Escaped)
             e == Text(OmitEmpty(r.agent, <<>>), Escaped)
             f == List(IF OptionsOf(r.options) = <<>> THEN Absent ELSE r.options, Escaped)
             g == Text(OmitEmpty(r.placeholder, <<>>), Escaped)
             h == Number(OmitEmpty(r.max_len, 0))
             i == Number(OmitEmpty(r.expires_in_s, 0))
  <2>1. Body(r) = Fixed + a + b + c + d1 + e + f + g + h + i
    BY DEF Body
  <2>2. a \in Nat /\ b \in Nat /\ c \in Nat /\ d1 \in Nat /\ e \in Nat /\ f \in Nat
        /\ g \in Nat /\ h \in Nat /\ i \in Nat
    BY <1>2, <1>3, <1>4
  <2> HIDE DEF a, b, c, d1, e, f, g, h, i
  <2> QED BY <2>1, <2>2, Limits
<1>6. RequestLength(Marshal(As(r, q, d, s)), Escaped)
        = Body(r) + Number(q) + Number(d) + Constant(s)
  BY Zenon DEF RequestLength, Marshal, As, Body
<1> QED BY <1>5, <1>6

\* What the check of a question reserves is enough for what Ask then adds.
LEMMA Reserved ==
  ASSUME NEW r \in Sendable, NEW q \in Sequence, NEW d \in Deadline, NEW s, s # Absent
  PROVE  /\ pad(RequestLength(Marshal(As(r, q, d, s)), Escaped)) <= MaxPlaintext
         /\ RequestLength(Marshal(As(r, MaxSafeInteger, MaxSafeInteger, s)), Escaped)
              < MaxPlaintext
<1> DEFINE N == MaxSafeInteger
<1>1. q \in Int /\ d \in Int /\ N \in Int /\ q <= N /\ d <= N
  BY Limits
<1>2. q # Absent /\ d # Absent /\ N # Absent /\ <<>> # Absent
  BY <1>1, AbsentIsNoText
<1>3. Constant(s) = 4 /\ Constant(<<>>) = 4
  BY <1>2 DEF Constant
<1>4. Number(q) <= Number(N) /\ Number(d) <= Number(N) /\ Number(q) \in Nat
      /\ Number(d) \in Nat /\ Number(N) \in Nat
  <2>1. Digits(q) \in Nat /\ Digits(d) \in Nat /\ Digits(N) \in Nat
        /\ Digits(q) <= Digits(N) /\ Digits(d) <= Digits(N)
    BY <1>1, DigitsRise
  <2> QED BY <1>2, <2>1 DEF Number
<1>5. r \in Question /\ Checked(r)
  BY SendableIs
<1> DEFINE m == RequestLength(Marshal(As(r, q, d, s)), Escaped)
           n == RequestLength(Marshal(As(r, N, N, s)), Escaped)
           k == RequestLength(Marshal(As(r, N, N, <<>>)), Escaped)
<1>6. m = Body(r) + Number(q) + Number(d) + 4 /\ n = Body(r) + Number(N) + Number(N) + 4
      /\ k = n /\ Body(r) \in Nat
  BY <1>3, <1>5, LengthIs
<1>7. pad(k) <= MaxPlaintext
  BY <1>5, BareIs DEF Checked
<1> HIDE DEF m, n, k, N
<1>8. m \in Nat /\ n \in Nat /\ m <= n
  BY <1>4, <1>6
<1>9. pad(m) \in Nat /\ pad(n) \in Nat /\ pad(m) <= pad(n) /\ n < pad(n)
  BY <1>8, PadRises
<1>10. pad(m) <= MaxPlaintext /\ n < MaxPlaintext
  BY <1>6, <1>7, <1>8, <1>9, Limits
<1> QED BY <1>10 DEF m, n, N

-----------------------------------------------------------------------------
(* The phone's reading of the request                                      *)

\* The members of a request's JSON.
LEMMA MarshalIs ==
  ASSUME NEW r, NEW q, NEW d, NEW s, NEW m, m = Marshal(As(r, q, d, s))
  PROVE  /\ m.kind = r.kind /\ m.id = r.id /\ m.title = r.title /\ m.summary = r.summary
         /\ m.category = OmitEmpty(r.category, <<>>) /\ m.agent = OmitEmpty(r.agent, <<>>)
         /\ m.options = IF OptionsOf(r.options) = <<>> THEN Absent ELSE r.options
         /\ m.placeholder = OmitEmpty(r.placeholder, <<>>)
         /\ m.max_len = OmitEmpty(r.max_len, 0)
         /\ m.expires_in_s = OmitEmpty(r.expires_in_s, 0)
         /\ m.request_seq = q /\ m.deadline_ms = d /\ m.sig = s
BY DEF Marshal, As

\* The phone's reserve is that of the agent, on what the JSON holds.
LEMMA MarshalExcept ==
  ASSUME NEW r, NEW q, NEW d, NEW s, NEW w
  PROVE  /\ WithSeq(Marshal(As(r, q, d, s)), w) = Marshal(As(r, w, d, s))
         /\ WithDeadline(Marshal(As(r, q, d, s)), w) = Marshal(As(r, q, w, s))
<1>1. WithSeq(Marshal(As(r, q, d, s)), w) = Marshal(As(r, w, d, s))
  BY DEF WithSeq, Marshal, As
<1>2. WithDeadline(Marshal(As(r, q, d, s)), w) = Marshal(As(r, q, w, s))
  BY DEF WithDeadline, Marshal, As
<1> QED BY <1>1, <1>2

\* The fields of a request.
LEMMA AsIs ==
  ASSUME NEW r, NEW q, NEW d, NEW s, NEW m, m = As(r, q, d, s)
  PROVE  /\ m.kind = r.kind /\ m.id = r.id /\ m.title = r.title /\ m.summary = r.summary
         /\ m.category = r.category /\ m.agent = r.agent /\ m.options = r.options
         /\ m.placeholder = r.placeholder /\ m.max_len = r.max_len
         /\ m.expires_in_s = r.expires_in_s
         /\ m.request_seq = q /\ m.deadline_ms = d /\ m.sig = s
BY DEF As

\* The two programs sign and verify the same bytes.
LEMMA TranscriptsSame ==
  ASSUME NEW r \in Question, NEW q \in Int, NEW d \in Int, NEW s
  PROVE  requestSigningMessage(Marshal(As(r, q, d, s)))
           = RequestSigningMessage(As(r, q, d, Absent))
<1> DEFINE m == Marshal(As(r, q, d, s))   b == As(r, q, d, Absent)
<1>1. /\ m.kind = r.kind /\ m.id = r.id /\ m.title = r.title /\ m.summary = r.summary
      /\ m.category = OmitEmpty(r.category, <<>>) /\ m.agent = OmitEmpty(r.agent, <<>>)
      /\ m.options = IF OptionsOf(r.options) = <<>> THEN Absent ELSE r.options
      /\ m.placeholder = OmitEmpty(r.placeholder, <<>>)
      /\ m.max_len = OmitEmpty(r.max_len, 0)
      /\ m.expires_in_s = OmitEmpty(r.expires_in_s, 0)
      /\ m.request_seq = q /\ m.deadline_ms = d
  BY MarshalIs
<1>2. /\ b.kind = r.kind /\ b.id = r.id /\ b.title = r.title /\ b.summary = r.summary
      /\ b.category = r.category /\ b.agent = r.agent /\ b.options = r.options
      /\ b.placeholder = r.placeholder /\ b.max_len = r.max_len
      /\ b.expires_in_s = r.expires_in_s
      /\ b.request_seq = q /\ b.deadline_ms = d
  BY AsIs
<1> HIDE DEF m, b
<1>3. \A t \in Seq(Scalar) : OrEmpty(OmitEmpty(t, <<>>)) = t
  BY AbsentIsNoText DEF OrEmpty, OmitEmpty
<1>4. \A n \in Int : OrZero(OmitEmpty(n, 0)) = n /\ OrZero(n) = n
  BY AbsentIsNoText DEF OrZero, OmitEmpty
<1>5. OptionsOf(m.options) = OptionsOf(b.options)
  BY <1>1, <1>2 DEF OptionsOf
<1>6. /\ OrEmpty(m.category) = b.category /\ OrEmpty(m.agent) = b.agent
      /\ OrEmpty(m.placeholder) = b.placeholder
  BY <1>1, <1>2, <1>3, QuestionType
<1>7. /\ OrZero(m.request_seq) = b.request_seq /\ OrZero(m.max_len) = b.max_len
      /\ OrZero(m.expires_in_s) = b.expires_in_s /\ OrZero(m.deadline_ms) = b.deadline_ms
  BY <1>1, <1>2, <1>4, QuestionType
<1>8. m.id = b.id /\ m.title = b.title /\ m.summary = b.summary /\ m.kind = b.kind
  BY <1>1, <1>2
<1>9. requestSigningMessage(m) = RequestSigningMessage(b)
  BY <1>5, <1>6, <1>7, <1>8, Zenon DEF requestSigningMessage, RequestSigningMessage
<1> QED BY <1>9 DEF m, b

\* A transcript is a sequence of symbols,
LEMMA FieldsType ==
  ASSUME NEW p \in Seq(Seq(Int))
  PROVE  fields(p) \in Seq(Int)
<1> DEFINE P == [i \in DOMAIN p |-> <<Len(p[i])>> \o p[i]]
<1>1. DOMAIN p = 1..Len(p) /\ Len(p) \in Nat
  OBVIOUS
<1>2. ASSUME NEW i \in 1..Len(p) PROVE <<Len(p[i])>> \o p[i] \in Seq(Int)
  <2>1. p[i] \in Seq(Int)
    BY ElementOfSeq
  <2> QED BY <2>1, FramedIs DEF Framed
<1>3. P \in [1..Len(p) -> Seq(Int)]
  BY <1>1, <1>2
<1> HIDE DEF P
<1>4. P \in Seq(Seq(Int))
  <2> DEFINE n == Len(p)   E == Seq(Int)
  <2>1. n \in Nat /\ P \in [1..n -> E]
    BY <1>1, <1>3
  <2> HIDE DEF n, E
  <2>2. P \in Seq(E)
    BY ONLY <2>1
  <2> QED BY <2>2 DEF E
<1>5. FlattenSeq(P) \in Seq(Int)
  BY <1>4, FlattenType
<1> QED BY <1>5 DEF fields, P

\* that of a request too.
LEMMA TranscriptType ==
  ASSUME NEW r \in Prepared
  PROVE  RequestSigningMessage(r) \in Seq(Int)
<1> DEFINE a == HeadParts(r)   o == OptionParts(r)   c == TailParts(r)   E == Seq(Int)
<1>1. a \in Seq(E) /\ o \in Seq(E) /\ c \in Seq(E)
  BY HeadType
<1>2. RequestSigningMessage(r) = fields(a \o o \o c)
  BY TranscriptParts
<1> HIDE DEF a, o, c, E
<1>3. a \o o \o c \in Seq(E)
  BY ONLY <1>1
<1> QED BY <1>2, <1>3, FieldsType DEF E

\* A text within the agent's limit is within the phone's, absent or empty.
LEMMA Bounded ==
  ASSUME NEW s \in Seq(Scalar), NEW n \in Nat, Len(s) <= n
  PROVE  /\ scalarOK(s) /\ bounded(s, n, FALSE) /\ bounded(OmitEmpty(s, <<>>), n, FALSE)
         /\ s # <<>> => bounded(s, n, TRUE)
<1>1. scalarOK(s)
  <2>1. ASSUME Lone \in ToSet(s) PROVE FALSE
    <3>1. PICK i \in DOMAIN s : Lone = s[i]
      BY <2>1 DEF ToSet, Range
    <3>2. s[i] \in Scalar
      OBVIOUS
    <3> QED BY <3>1, <3>2 DEF Scalar
  <2> QED BY <2>1 DEF scalarOK
<1>2. s # Absent
  BY AbsentIsNoText
<1>3. \A b \in BOOLEAN : (b => s # <<>>) => bounded(s, n, b)
  BY <1>1, <1>2 DEF bounded, scalarLength
<1>4. bounded(Absent, n, FALSE)
  BY DEF bounded
<1>5. OmitEmpty(s, <<>>) \in {s, Absent}
  BY DEF OmitEmpty
<1>6. bounded(s, n, FALSE) /\ (s # <<>> => bounded(s, n, TRUE))
  BY <1>3
<1> QED BY <1>1, <1>4, <1>5, <1>6

\* What responseOK takes for a response, responseAdmitted does.
LEMMA Admitted ==
  ASSUME NEW r \in Sendable, NEW q, NEW d, NEW s
  PROVE  responseAdmitted(Marshal(As(r, q, d, s)))
<1> DEFINE m == Marshal(As(r, q, d, s))
<1>1. /\ m.kind = r.kind
      /\ m.options = IF OptionsOf(r.options) = <<>> THEN Absent ELSE r.options
      /\ m.placeholder = OmitEmpty(r.placeholder, <<>>)
      /\ m.max_len = OmitEmpty(r.max_len, 0)
  BY MarshalIs
<1>2. r \in Question /\ Checked(r) /\ responseOK(r)
  BY SendableIs DEF Checked
<1>3. /\ r.kind \in {"yesno", "choice", "text"}
      /\ r.kind = "choice" => /\ r.options \in Seq(Seq(Scalar)) /\ r.options # <<>>
                              /\ Len(r.options) \in 1..MaxOptions
                              /\ \A i \in DOMAIN r.options :
                                   Len(r.options[i]) <= Limit["option"] /\ r.options[i] # <<>>
                              /\ Cardinality(ToSet(r.options)) = Len(r.options)
      /\ r.kind # "choice" => r.options = Absent
      /\ r.kind # "text" => r.placeholder = <<>> /\ r.max_len = 0
      /\ r.max_len \in 0..MaxText
  BY <1>2, ResponseIs
<1> SUFFICES responseAdmitted(m)
  OBVIOUS
<1> HIDE DEF m
<1>4. bounded(m.placeholder, Limit["placeholder"], FALSE)
  <2>1. "placeholder" \in TextField /\ r["placeholder"] = r.placeholder
    BY DEF TextField
  <2>2. Len(r.placeholder) <= Limit["placeholder"] /\ Limit["placeholder"] \in Nat
    BY <1>2, <2>1, Limits DEF Checked
  <2>3. r.placeholder \in Seq(Scalar)
    BY <1>2, QuestionType
  <2> QED BY <1>1, <2>2, <2>3, Bounded
<1>5. integer(m.max_len, MaxText, TRUE)
  BY <1>1, <1>3 DEF integer, OmitEmpty
<1>6. CASE r.kind = "yesno"
  <2>1. m.options = Absent /\ m.placeholder = Absent /\ m.max_len = Absent
    BY <1>1, <1>3, <1>6 DEF OmitEmpty
  <2>2. {m.options, m.placeholder, m.max_len} = {Absent} /\ m.kind = "yesno"
    BY <1>1, <1>6, <2>1
  <2> QED BY <1>4, <1>5, <2>2 DEF responseAdmitted
<1>7. CASE r.kind = "choice"
  <2>1. m.placeholder = Absent /\ m.max_len = Absent
    BY <1>1, <1>3, <1>7 DEF OmitEmpty
  <2>2. m.options = r.options /\ r.options # Absent
    BY <1>1, <1>3, <1>7, AbsentIsNoText DEF OptionsOf
  <2>3. ASSUME NEW i \in DOMAIN r.options PROVE bounded(r.options[i], Limit["option"], TRUE)
    <3>1. Limit["option"] \in Nat
      BY Limits
    <3>2. r.options[i] \in Seq(Scalar)
      BY <1>3, <1>7, ElementOfSeq
    <3> QED BY <1>3, <1>7, <3>1, <3>2, Bounded
  <2>4. /\ m.kind = "choice" /\ m.options # Absent /\ Len(m.options) \in 1..MaxOptions
        /\ \A i \in DOMAIN m.options : bounded(m.options[i], Limit["option"], TRUE)
        /\ Cardinality(ToSet(m.options)) = Len(m.options)
    BY <1>1, <1>3, <1>7, <2>2, <2>3
  <2> QED BY <1>4, <1>5, <2>1, <2>4 DEF responseAdmitted
<1>8. CASE r.kind = "text"
  <2>1. m.options = Absent
    BY <1>1, <1>3, <1>8
  <2>2. m.kind = "text"
    BY <1>1, <1>8
  <2> QED BY <1>4, <1>5, <2>1, <2>2 DEF responseAdmitted
<1> QED BY <1>3, <1>6, <1>7, <1>8

\* Whatever the agent lets through, the phone lets through.
LEMMA PhoneReads ==
  ASSUME NEW r \in Sendable, NEW q \in Sequence, NEW d \in Deadline, NEW s, s # Absent
  PROVE  validateRequest(Marshal(As(r, q, d, s)))
<1> DEFINE m == Marshal(As(r, q, d, s))   N == MaxSafeInteger
<1>1. /\ m.id = r.id /\ m.title = r.title /\ m.summary = r.summary
      /\ m.category = OmitEmpty(r.category, <<>>) /\ m.agent = OmitEmpty(r.agent, <<>>)
      /\ m.expires_in_s = OmitEmpty(r.expires_in_s, 0)
      /\ m.request_seq = q /\ m.deadline_ms = d
  BY MarshalIs
<1>2. r \in Question /\ Checked(r)
  BY SendableIs
<1>3. q \in 1..N /\ d \in 0..N /\ q # Absent /\ d # Absent
  BY Limits, AbsentIsNoText
<1>4. transportLength(m) < MaxPlaintext
  <2>0. WithDeadline(m, N) = Marshal(As(r, q, N, s))
    BY MarshalExcept
  <2>1. WithSeq(Marshal(As(r, q, N, s)), N) = Marshal(As(r, N, N, s))
    BY MarshalExcept
  <2>2. transportLength(m) = RequestLength(WithSeq(WithDeadline(m, N), N), Escaped)
    BY Zenon DEF transportLength, WithSeq, WithDeadline
  <2> HIDE DEF m
  <2> HIDE DEF N
  <2>3. transportLength(m) = RequestLength(Marshal(As(r, N, N, s)), Escaped)
    BY <2>0, <2>1, <2>2
  <2> QED BY <2>3, Reserved DEF N
<1>5. responseAdmitted(m)
  BY Admitted
<1> HIDE DEF m
<1>6. integer(m.deadline_ms, N, FALSE) /\ integer(m.request_seq, N, FALSE)
      /\ m.request_seq # 0
  BY <1>1, <1>3 DEF integer
<1>7. /\ r.id \in Seq(Scalar) /\ r.title \in Seq(Scalar) /\ r.summary \in Seq(Scalar)
      /\ r.category \in Seq(Scalar) /\ r.agent \in Seq(Scalar)
  BY <1>2, QuestionType
<1>8. /\ Len(r.id) <= Limit["id"] /\ Len(r.title) <= Limit["title"]
      /\ Len(r.summary) <= Limit["summary"] /\ Len(r.agent) <= Limit["agent"]
      /\ Len(r.category) <= Limit["category"] /\ r.id # <<>>
  BY <1>2 DEF Checked, TextField
<1>9. \A f \in TextField : Limit[f] \in Nat
  BY Limits
<1>10. bounded(m.id, Limit["id"], TRUE)
  BY <1>1, <1>7, <1>8, <1>9, Bounded DEF TextField
<1>11. /\ bounded(m.title, Limit["title"], FALSE) /\ bounded(m.summary, Limit["summary"], FALSE)
       /\ bounded(m.agent, Limit["agent"], FALSE)
       /\ bounded(m.category, Limit["category"], FALSE)
  BY <1>1, <1>7, <1>8, <1>9, Bounded DEF TextField
<1>12. integer(m.expires_in_s, MaxExpires, TRUE)
  BY <1>1, <1>2 DEF integer, OmitEmpty, Checked
<1> QED BY <1>4, <1>5, <1>6, <1>10, <1>11, <1>12 DEF validateRequest, m

-----------------------------------------------------------------------------
(* The inductive invariant                                                 *)

\* The limit of the text that a card takes (screens.tsx:716).
maxLenOf(c) == IF OrZero(c.max_len) = 0 THEN MaxText ELSE c.max_len

\* The decisions that a phone signs.
Decision ==
  {d \in [kind : {"yesno", "choice", "text"}, id : Seq(Scalar), request_hash : Seq(Int),
          approved : {Absent} \cup BOOLEAN, choice : {Absent} \cup Seq(Scalar),
          text : {Absent} \cup Seq(Scalar), sig : {Absent} \cup Seq(Int)] :
     d.kind = "yesno" => d.approved \in BOOLEAN}

\* A signed answer to the question on the card c.
Fits(d, c) ==
  /\ d \in Decision
  /\ d.kind = c.kind /\ d.id = c.id /\ d.request_hash = requestSigningMessage(c)
  /\ d.sig = boundDecisionSigningMessage(d)
  /\ pad(DecisionLength(d, Verbatim)) <= MaxPlaintext
  /\ \/ /\ d.kind = "yesno" /\ d.approved \in BOOLEAN
        /\ d.choice = Absent /\ d.text = Absent
     \/ /\ d.kind = "choice" /\ d.approved = Absent /\ d.text = Absent
        /\ d.choice \in ToSet(c.options)
     \/ /\ d.kind = "text" /\ d.approved = Absent /\ d.choice = Absent
        /\ d.text \in Seq(Scalar) /\ Len(d.text) <= maxLenOf(c)

\* The request is a checked question, the card shows that request, and the answer
\* is one to that card.
Inv ==
  /\ stage \in {"idle", "refused", "asked", "card", "answered", "accepted",
                "confirmed", "read"}
  /\ stage \in {"asked", "card", "answered", "accepted"} =>
       \E r \in Sendable, q \in Sequence, d \in Deadline : req = Full(r, q, d)
  /\ stage = "asked" => box = Marshal(req)
  /\ stage \in {"card", "answered", "accepted"} => card = Marshal(req)
  /\ stage \in {"idle", "asked"} => value = <<>>
  /\ stage = "card" => value \in Seq(Scalar) /\ Len(value) <= maxLenOf(card)
  /\ stage \in {"answered", "accepted"} => box = dec /\ Fits(dec, card)
  /\ text \in Document \cup {Nothing}

\* At the start.
LEMMA InitInv == Init => Inv
BY DEF Init, Inv, Nothing

\* A prepared request as the phone shows it.
LEMMA CardIs ==
  ASSUME NEW r \in Sendable, NEW q \in Sequence, NEW d \in Deadline,
         NEW m, m = Marshal(Full(r, q, d))
  PROVE  /\ m.kind = r.kind /\ m.id = r.id
         /\ m.sig = RequestSigningMessage(Bare(r, q, d)) /\ m.sig # Absent
         /\ m.sig = requestSigningMessage(m)
         /\ validateRequest(m)
         /\ pad(RequestLength(m, Escaped)) <= MaxPlaintext
         /\ m.kind \in {"yesno", "choice", "text"}
         /\ m.kind = "choice" => m.options = r.options
         /\ maxLenOf(m) = (IF r.max_len = 0 THEN MaxText ELSE r.max_len)
         /\ maxLenOf(m) \in 0..MaxText
<1> DEFINE s == RequestSigningMessage(Bare(r, q, d))
<1>1. r \in Question /\ Checked(r) /\ responseOK(r) /\ q \in Int /\ d \in Int
  <2>1. q \in Int /\ d \in Int
    BY Limits
  <2> QED BY <2>1, SendableIs DEF Checked
<1>2. /\ Bare(r, q, d) = As(r, q, d, Absent) /\ Full(r, q, d) = As(r, q, d, s)
  <2>1. Bare(r, q, d) = As(r, q, d, Absent)
    BY <1>1, BareIs
  <2>2. Full(r, q, d) = As(r, q, d, s)
    BY <1>1, FullIs
  <2> QED BY <2>1, <2>2
<1>3. s \in Seq(Int) /\ s # Absent
  BY SentIs, TranscriptType, AbsentIsNoText
<1>4. m = Marshal(As(r, q, d, s))
  BY <1>2
<1>5. requestSigningMessage(m) = s
  BY <1>1, <1>2, <1>4, TranscriptsSame
<1> HIDE DEF s
<1>6. /\ m.kind = r.kind /\ m.id = r.id /\ m.sig = s
      /\ m.options = IF OptionsOf(r.options) = <<>> THEN Absent ELSE r.options
      /\ m.max_len = OmitEmpty(r.max_len, 0)
  BY <1>4, MarshalIs
<1>7. validateRequest(m) /\ pad(RequestLength(m, Escaped)) <= MaxPlaintext
  BY <1>3, <1>4, PhoneReads, Reserved
<1>8. /\ r.kind \in {"yesno", "choice", "text"} /\ r.max_len \in 0..MaxText
      /\ r.kind = "choice" => r.options \in Seq(Seq(Scalar)) /\ r.options # <<>>
  BY <1>1, ResponseIs
<1>9. m.kind = "choice" => m.options = r.options
  BY <1>6, <1>8, AbsentIsNoText DEF OptionsOf
<1>10. maxLenOf(m) = (IF r.max_len = 0 THEN MaxText ELSE r.max_len)
  BY <1>6, <1>8, AbsentIsNoText DEF maxLenOf, OrZero, OmitEmpty
<1>11. maxLenOf(m) \in 0..MaxText
  BY <1>8, <1>10, Limits
<1> QED BY <1>3, <1>5, <1>6, <1>7, <1>8, <1>9, <1>10, <1>11 DEF s

\* prepareRequest: the measure taken before the metadata holds after it, so the
\* request is sent.
LEMMA PrepareInv ==
  ASSUME Inv, NEW r \in Input, NEW q \in Sequence, NEW d \in Deadline, prepareRequest(r, q, d)
  PROVE  Inv'
<1>1. r \in Sendable
  BY DEF prepareRequest, Sendable
<1>2. /\ stage = "idle" /\ req' = Full(r, q, d) /\ box' = Marshal(Full(r, q, d))
      /\ stage' = IF EncodeMessage(Full(r, q, d)) THEN "asked" ELSE "lost"
      /\ UNCHANGED <<card, value, dec, text>>
  BY Zenon DEF prepareRequest, Bare, Full
<1>3. EncodeMessage(Full(r, q, d))
  BY <1>1, CardIs DEF EncodeMessage
<1>4. stage' = "asked" /\ \E x \in Sendable, y \in Sequence, z \in Deadline : req' = Full(x, y, z)
  BY <1>1, <1>2, <1>3
<1> QED BY <1>2, <1>4 DEF Inv

\* onBox: the phone reads the request, verifies it and shows it.
LEMMA BoxInv ==
  ASSUME Inv, onBox
  PROVE  Inv'
<1>1. stage = "asked" /\ box = Marshal(req) /\ value = <<>>
  BY DEF onBox, Inv
<1>2. PICK r \in Sendable, q \in Sequence, d \in Deadline : req = Full(r, q, d)
  BY <1>1 DEF Inv
<1>3. /\ box.sig = requestSigningMessage(box) /\ validateRequest(box)
      /\ pad(RequestLength(box, Escaped)) <= MaxPlaintext /\ maxLenOf(box) \in 0..MaxText
  BY <1>1, <1>2, CardIs
<1>4. stage' = "card" /\ card' = box /\ UNCHANGED <<req, box, value, dec, text>>
  BY <1>3 DEF onBox, verify
<1>5. value' \in Seq(Scalar) /\ Len(value') <= maxLenOf(card')
  <2>1. value' = <<>> /\ card' = box
    BY <1>1, <1>4
  <2>2. Len(<<>>) = 0 /\ <<>> \in Seq(Scalar)
    OBVIOUS
  <2>3. maxLenOf(card') \in 0..MaxText
    BY <1>3, <2>1
  <2> QED BY <2>1, <2>2, <2>3, Limits
<1>6. \E x \in Sendable, y \in Sequence, z \in Deadline : req' = Full(x, y, z)
  BY <1>2, <1>4
<1> QED BY <1>1, <1>4, <1>5, <1>6 DEF Inv

\* A string that passes scalarOK is one of whole characters.
LEMMA ScalarsOnly ==
  ASSUME NEW s \in Seq(Char), scalarOK(s)
  PROVE  s \in Seq(Scalar)
<1>1. \A i \in 1..Len(s) : s[i] \in Scalar
  BY DEF scalarOK, Scalar, ToSet, Range
<1>2. s \in [1..Len(s) -> Scalar] /\ Len(s) \in Nat
  BY <1>1
<1> QED BY ONLY <1>2

\* A clamped text is within its limit, and its characters whole.
LEMMA Clamped ==
  ASSUME NEW s \in Seq(Char), scalarOK(s), NEW n \in Nat
  PROVE  clampScalars(s, n) \in Seq(Scalar) /\ Len(clampScalars(s, n)) <= n
<1> DEFINE k == IF Len(s) <= n THEN Len(s) ELSE n
<1>2. Len(s) \in Nat
  OBVIOUS
<1>3. s \in Seq(Scalar)
  BY ScalarsOnly
<1>4. k \in 0..Len(s) /\ k <= n
  BY <1>2
<1> HIDE DEF k
<1>5. SubSeq(s, 1, k) \in Seq(Scalar) /\ Len(SubSeq(s, 1, k)) = k
  BY <1>2, <1>3, <1>4
<1> QED BY <1>4, <1>5 DEF clampScalars, k

\* onChange keeps the text typed within the card's limit.
LEMMA ChangeInv ==
  ASSUME Inv, NEW s \in Typed, onChange(s)
  PROVE  Inv'
<1>1. /\ stage = "card" /\ scalarOK(s) /\ value' = clampScalars(s, maxLen)
      /\ UNCHANGED <<stage, req, box, card, dec, text>>
  BY DEF onChange
<1>2. PICK r \in Sendable, q \in Sequence, d \in Deadline : req = Full(r, q, d)
  BY <1>1 DEF Inv
<1>3. maxLen = maxLenOf(card) /\ maxLenOf(card) \in Nat
  <2>1. card = Marshal(req)
    BY <1>1 DEF Inv
  <2>2. maxLenOf(card) \in 0..MaxText
    BY <1>2, <2>1, CardIs
  <2> QED BY <2>2, Limits DEF maxLen, maxLenOf
<1>4. s \in Seq(Char)
  BY Limits
<1>5. value' \in Seq(Scalar) /\ Len(value') <= maxLenOf(card)
  BY <1>1, <1>3, <1>4, Clamped
<1>6. \E x \in Sendable, y \in Sequence, z \in Deadline : req' = Full(x, y, z)
  BY <1>1, <1>2
<1> QED BY <1>1, <1>5, <1>6 DEF Inv

-----------------------------------------------------------------------------
(* The answer                                                              *)

\* The parts of a decision's transcript.
DecisionParts(d) ==
  << Word.decision, Bytes(d.id), d.request_hash, Word[d.kind], DecisionValue(d) >>

\* The two programs sign and verify the same bytes of a decision.
LEMMA DecisionSame ==
  ASSUME NEW d, d.id \in Seq(Scalar), d.request_hash \in Seq(Int),
         d.kind \in {"yesno", "choice", "text"}, d.approved \in {Absent} \cup BOOLEAN,
         d.kind = "yesno" => d.approved \in BOOLEAN,
         OrEmpty(d.choice) \in Seq(Scalar), OrEmpty(d.text) \in Seq(Scalar)
  PROVE  /\ DecisionParts(d) \in Seq(Seq(Int))
         /\ BoundDecisionSigningMessage(d) = fields(DecisionParts(d))
         /\ boundDecisionSigningMessage(d) = BoundDecisionSigningMessage(d)
         /\ boundDecisionSigningMessage(d) \in Seq(Int)
<1>1. Bytes(d.id) \in Seq(Int) /\ Bytes(OrEmpty(d.choice)) \in Seq(Int)
      /\ Bytes(OrEmpty(d.text)) \in Seq(Int)
  BY ScalarBytes
<1>2. Word.decision \in Seq(Int) /\ Word[d.kind] \in Seq(Int)
  <2>1. CASE d.kind = "yesno"
    BY <2>1 DEF Word
  <2>2. CASE d.kind = "choice"
    BY <2>2 DEF Word
  <2>3. CASE d.kind = "text"
    BY <2>3 DEF Word
  <2> QED BY <2>1, <2>2, <2>3
<1>3. DecisionValue(d) \in Seq(Int)
      /\ DecisionValue(d) = IF d.kind = "yesno" THEN <<IF d.approved THEN 49 ELSE 48>>
                            ELSE Bytes(OrEmpty(IF d.kind = "choice" THEN d.choice ELSE d.text))
  <2>1. CASE d.kind = "yesno" /\ d.approved = TRUE
    BY <2>1 DEF DecisionValue
  <2>2. CASE d.kind = "yesno" /\ d.approved = FALSE
    BY <2>2 DEF DecisionValue
  <2>3. CASE d.kind = "choice"
    BY <1>1, <2>3 DEF DecisionValue
  <2>4. CASE d.kind = "text"
    BY <1>1, <2>4 DEF DecisionValue
  <2> QED BY <2>1, <2>2, <2>3, <2>4
<1>4. DecisionParts(d) \in Seq(Seq(Int))
  BY <1>1, <1>2, <1>3 DEF DecisionParts
<1>5. BoundDecisionSigningMessage(d) = fields(DecisionParts(d))
  BY DEF BoundDecisionSigningMessage, DecisionParts
<1>6. boundDecisionSigningMessage(d) = fields(DecisionParts(d))
  BY <1>3, Zenon DEF boundDecisionSigningMessage, DecisionParts
<1> QED BY <1>4, <1>5, <1>6, FieldsType

\* An option of a card is within the limit of a choice.
LEMMA ChoiceIs ==
  ASSUME NEW m, validateRequest(m), m.kind = "choice", NEW c \in ToSet(m.options),
         m.options \in Seq(Seq(Scalar))
  PROVE  c \in Seq(Scalar) /\ bounded(c, Limit["option"], TRUE)
<1>1. \A i \in DOMAIN m.options : bounded(m.options[i], Limit["option"], TRUE)
  BY DEF validateRequest, responseAdmitted
<1>2. PICK i \in DOMAIN m.options : c = m.options[i]
  BY DEF ToSet, Range
<1>3. m.options[i] \in Seq(Scalar)
  BY ElementOfSeq
<1> QED BY <1>1, <1>2, <1>3

\* The card of a prepared request.
LEMMA CardType ==
  ASSUME Inv, stage \in {"card", "answered", "accepted"}
  PROVE  /\ card.id \in Seq(Scalar) /\ bounded(card.id, Limit["id"], TRUE)
         /\ card.kind \in {"yesno", "choice", "text"}
         /\ requestSigningMessage(card) \in Seq(Int)
         /\ maxLenOf(card) \in 0..MaxText
         /\ card.kind = "choice" =>
              \A c \in ToSet(card.options) : c \in Seq(Scalar)
                                              /\ bounded(c, Limit["option"], TRUE)
         /\ req.id = card.id /\ req.kind = card.kind
         /\ RequestSigningMessage(req) = requestSigningMessage(card)
         /\ card.kind = "choice" => req.options = card.options
         /\ maxLenOf(card) = (IF req.max_len = 0 THEN MaxText ELSE req.max_len)
<1>1. PICK r \in Sendable, q \in Sequence, d \in Deadline : req = Full(r, q, d)
  BY DEF Inv
<1>2. card = Marshal(Full(r, q, d))
  BY <1>1 DEF Inv
<1> DEFINE s == RequestSigningMessage(Bare(r, q, d))
<1>3. /\ card.kind = r.kind /\ card.id = r.id
      /\ card.sig = s /\ card.sig = requestSigningMessage(card)
      /\ validateRequest(card)
      /\ card.kind \in {"yesno", "choice", "text"}
      /\ card.kind = "choice" => card.options = r.options
      /\ maxLenOf(card) = (IF r.max_len = 0 THEN MaxText ELSE r.max_len)
      /\ maxLenOf(card) \in 0..MaxText
  BY <1>2, CardIs
<1>4. s \in Seq(Int)
  BY SentIs, TranscriptType
<1>5. r \in Question /\ responseOK(r) /\ r.id \in Seq(Scalar)
  BY SendableIs, QuestionType DEF Checked
<1>6. Bare(r, q, d) = As(r, q, d, Absent) /\ req = As(r, q, d, s)
  BY <1>1, <1>5, BareIs, FullIs
<1>7. RequestSigningMessage(req) = s
  <2> DEFINE b == Bare(r, q, d)
  <2>1. /\ b.kind = r.kind /\ b.id = r.id /\ b.title = r.title /\ b.summary = r.summary
        /\ b.category = r.category /\ b.agent = r.agent /\ b.options = r.options
        /\ b.placeholder = r.placeholder /\ b.max_len = r.max_len
        /\ b.expires_in_s = r.expires_in_s /\ b.request_seq = q /\ b.deadline_ms = d
    BY <1>6, AsIs
  <2>2. /\ req.kind = r.kind /\ req.id = r.id /\ req.title = r.title
        /\ req.summary = r.summary
        /\ req.category = r.category /\ req.agent = r.agent /\ req.options = r.options
        /\ req.placeholder = r.placeholder /\ req.max_len = r.max_len
        /\ req.expires_in_s = r.expires_in_s /\ req.request_seq = q /\ req.deadline_ms = d
    BY <1>6, AsIs
  <2> HIDE DEF b
  <2>3. RequestSigningMessage(req) = RequestSigningMessage(b)
    BY <2>1, <2>2, Zenon DEF RequestSigningMessage
  <2> QED BY <2>3 DEF b
<1>8. /\ req.kind = r.kind /\ req.id = r.id /\ req.max_len = r.max_len
      /\ req.options = r.options
  BY <1>6, AsIs
<1>9. bounded(card.id, Limit["id"], TRUE)
  BY <1>3 DEF validateRequest
<1>10. r.kind = "choice" => r.options \in Seq(Seq(Scalar))
  BY <1>5, ResponseIs
<1>11. card.kind = "choice" =>
              \A c \in ToSet(card.options) : c \in Seq(Scalar)
                                              /\ bounded(c, Limit["option"], TRUE)
  BY <1>3, <1>10, ChoiceIs
<1> QED BY <1>3, <1>4, <1>5, <1>7, <1>8, <1>9, <1>11

\* What the card of a kind can give.
Given(a, c, t) ==
  \/ card.kind = "yesno" /\ a \in BOOLEAN /\ c = Absent /\ t = Absent
  \/ card.kind = "choice" /\ a = Absent /\ c \in ToSet(card.options) /\ t = Absent
  \/ card.kind = "text" /\ a = Absent /\ c = Absent /\ t = value

\* sendDecision: whatever the card can give is a valid decision, and fits.
LEMMA SendStep ==
  ASSUME Inv, stage = "card", NEW a, NEW c, NEW t, Given(a, c, t),
         sendDecision(Answer(a, c, t))
  PROVE  Inv'
<1> DEFINE d == Answer(a, c, t)
<1>1. /\ d.kind = card.kind /\ d.id = card.id /\ d.request_hash = requestSigningMessage(card)
      /\ d.approved = a /\ d.choice = c /\ d.text = t /\ d.sig = Absent
  BY DEF Answer
<1> DEFINE e == [d EXCEPT !.sig = boundDecisionSigningMessage(d)]
           z == [d EXCEPT !.sig = <<>>]
<1>2. /\ e.kind = d.kind /\ e.id = d.id /\ e.request_hash = d.request_hash
      /\ e.approved = d.approved /\ e.choice = d.choice /\ e.text = d.text
      /\ e.sig = boundDecisionSigningMessage(d)
      /\ z.id = d.id /\ z.approved = d.approved /\ z.choice = d.choice /\ z.text = d.text
      /\ z.sig = <<>>
  BY DEF Answer
<1>3. /\ card.id \in Seq(Scalar) /\ bounded(card.id, Limit["id"], TRUE)
      /\ card.kind \in {"yesno", "choice", "text"}
      /\ requestSigningMessage(card) \in Seq(Int)
      /\ maxLenOf(card) \in 0..MaxText
      /\ card.kind = "choice" =>
           \A x \in ToSet(card.options) : x \in Seq(Scalar) /\ bounded(x, Limit["option"], TRUE)
  BY CardType
<1>4. value \in Seq(Scalar) /\ Len(value) <= maxLenOf(card)
  BY DEF Inv
<1>5. /\ sendDecision(d) /\ stage = "card"
  OBVIOUS
<1> HIDE DEF d, e, z
<1>6. bounded(value, MaxText, FALSE)
  <2>1. Len(value) \in Nat /\ Len(value) <= MaxText
    BY <1>3, <1>4, Limits
  <2> QED BY <1>4, <2>1, Bounded, Limits
<1>7. validateDecision(d)
  <2>1. CASE card.kind = "yesno"
    BY <1>1, <1>3, <2>1 DEF validateDecision, Given
  <2>2. CASE card.kind = "choice"
    BY <1>1, <1>3, <2>2 DEF validateDecision, Given
  <2>3. CASE card.kind = "text"
    BY <1>1, <1>3, <1>6, <2>3 DEF validateDecision, Given
  <2> QED BY <1>3, <2>1, <2>2, <2>3
<1>8. /\ encodeDecision(z) /\ dec' = e /\ box' = dec' /\ stage' = "answered"
      /\ UNCHANGED <<req, card, value, text>>
  <2>1. /\ encodeDecision([d EXCEPT !.sig = <<>>])
        /\ dec' = [d EXCEPT !.sig = boundDecisionSigningMessage(d)]
        /\ box' = dec' /\ stage' = "answered"
        /\ UNCHANGED <<req, card, value, text>>
    BY <1>5, <1>7, Zenon DEF sendDecision
  <2> QED BY <2>1 DEF e, z
<1>9. /\ d.approved \in {Absent} \cup BOOLEAN /\ (d.kind = "yesno" => d.approved \in BOOLEAN)
      /\ OrEmpty(d.choice) \in Seq(Scalar) /\ OrEmpty(d.text) \in Seq(Scalar)
  <2>1. CASE card.kind = "yesno"
    BY <1>1, <2>1 DEF Given, OrEmpty
  <2>2. CASE card.kind = "choice"
    <3>1. a = Absent /\ c \in ToSet(card.options) /\ t = Absent
      BY <2>2 DEF Given
    <3>2. c \in Seq(Scalar)
      BY <1>3, <2>2, <3>1
    <3>3. <<>> \in Seq(Scalar)
      OBVIOUS
    <3> QED BY <1>1, <2>2, <3>1, <3>2, <3>3 DEF OrEmpty
  <2>3. CASE card.kind = "text"
    BY <1>1, <1>4, <2>3 DEF Given, OrEmpty
  <2> QED BY <1>3, <2>1, <2>2, <2>3
<1>10. boundDecisionSigningMessage(d) \in Seq(Int)
  BY <1>1, <1>3, <1>9, DecisionSame
<1>11. boundDecisionSigningMessage(e) = boundDecisionSigningMessage(d)
  BY <1>2, Zenon DEF boundDecisionSigningMessage
<1>12. DecisionLength(e, Verbatim) = DecisionLength(z, Verbatim)
  <2>1. Constant(e.sig) = Constant(z.sig)
    BY <1>2, <1>10, AbsentIsNoText DEF Constant
  <2> QED BY <1>2, <2>1, Zenon DEF DecisionLength
<1>13. pad(DecisionLength(e, Verbatim)) <= MaxPlaintext
  BY <1>8, <1>12 DEF encodeDecision
<1>d. e \in Decision
  <2>1. /\ c \in {Absent} \cup Seq(Scalar) /\ t \in {Absent} \cup Seq(Scalar)
        /\ a \in {Absent} \cup BOOLEAN /\ (card.kind = "yesno" => a \in BOOLEAN)
    <3>1. CASE card.kind = "yesno"
      BY <3>1 DEF Given
    <3>2. CASE card.kind = "choice"
      <4>1. a = Absent /\ c \in ToSet(card.options) /\ t = Absent
        BY <3>2 DEF Given
      <4>2. c \in Seq(Scalar)
        BY <1>3, <3>2, <4>1
      <4> QED BY <3>2, <4>1, <4>2
    <3>3. CASE card.kind = "text"
      BY <1>4, <3>3 DEF Given
    <3> QED BY <1>3, <3>1, <3>2, <3>3
  <2> DEFINE w == boundDecisionSigningMessage(d)
  <2>2. e = [kind |-> card.kind, id |-> card.id,
             request_hash |-> requestSigningMessage(card), approved |-> a,
             choice |-> c, text |-> t, sig |-> w]
    <3> HIDE DEF w
    <3>1. e = [d EXCEPT !.sig = w]
      BY DEF e, w
    <3> QED BY <3>1 DEF d, Answer
  <2> HIDE DEF w
  <2>3. w \in Seq(Int)
    BY <1>10 DEF w
  <2> QED BY <1>3, <2>1, <2>2, <2>3 DEF Decision
<1>14. Fits(e, card)
  <2>1. /\ e.kind = card.kind /\ e.id = card.id
        /\ e.request_hash = requestSigningMessage(card)
        /\ e.sig = boundDecisionSigningMessage(e)
        /\ e.approved = a /\ e.choice = c /\ e.text = t
    BY <1>1, <1>2, <1>11
  <2>2. CASE card.kind = "yesno"
    BY <1>13, <1>d, <2>1, <2>2 DEF Given, Fits
  <2>3. CASE card.kind = "choice"
    BY <1>13, <1>d, <2>1, <2>3 DEF Given, Fits
  <2>4. CASE card.kind = "text"
    BY <1>4, <1>13, <1>d, <2>1, <2>4 DEF Given, Fits
  <2> QED BY <1>3, <2>2, <2>3, <2>4
<1>15. Fits(dec', card')
  BY <1>8, <1>14
<1> QED BY <1>5, <1>8, <1>15 DEF Inv

\* Each kind of card gives what it can.
LEMMA SendInv ==
  ASSUME Inv, stage = "card", Send
  PROVE  Inv'
<1>1. CASE card.kind = "yesno" /\ \E b \in BOOLEAN : sendDecision(Answer(b, Absent, Absent))
  <2>1. PICK b \in BOOLEAN : sendDecision(Answer(b, Absent, Absent))
    BY <1>1
  <2>2. Given(b, Absent, Absent)
    BY <1>1 DEF Given
  <2> QED BY <2>1, <2>2, SendStep
<1>2. CASE card.kind = "choice"
           /\ \E o \in ToSet(card.options) : sendDecision(Answer(Absent, o, Absent))
  <2>1. PICK o \in ToSet(card.options) : sendDecision(Answer(Absent, o, Absent))
    BY <1>2
  <2>2. Given(Absent, o, Absent)
    BY <1>2 DEF Given
  <2> QED BY <2>1, <2>2, SendStep
<1>3. CASE card.kind = "text" /\ sendDecision(Answer(Absent, Absent, value))
  <2>1. Given(Absent, Absent, value)
    BY <1>3 DEF Given
  <2> QED BY <1>3, <2>1, SendStep
<1> QED BY <1>1, <1>2, <1>3, Zenon DEF Send

\* The fields of the answer under way.
LEMMA AnswerIs ==
  ASSUME Inv, stage \in {"answered", "accepted"}
  PROVE  /\ dec.id \in Seq(Scalar) /\ dec.request_hash \in Seq(Int)
         /\ dec.kind \in {"yesno", "choice", "text"}
         /\ dec.approved \in {Absent} \cup BOOLEAN
         /\ dec.kind = "yesno" => dec.approved \in BOOLEAN
         /\ OrEmpty(dec.choice) \in Seq(Scalar) /\ OrEmpty(dec.text) \in Seq(Scalar)
         /\ BoundDecisionSigningMessage(dec) = boundDecisionSigningMessage(dec)
<1>1. Fits(dec, card)
  BY DEF Inv
<1>2. /\ card.id \in Seq(Scalar) /\ card.kind \in {"yesno", "choice", "text"}
      /\ requestSigningMessage(card) \in Seq(Int)
      /\ card.kind = "choice" => \A x \in ToSet(card.options) : x \in Seq(Scalar)
  BY CardType
<1>3. /\ dec.kind = card.kind /\ dec.id = card.id
      /\ dec.request_hash = requestSigningMessage(card)
  BY <1>1 DEF Fits
<1>4. /\ dec.approved \in {Absent} \cup BOOLEAN
      /\ dec.kind = "yesno" => dec.approved \in BOOLEAN
      /\ OrEmpty(dec.choice) \in Seq(Scalar) /\ OrEmpty(dec.text) \in Seq(Scalar)
  <2>1. CASE dec.kind = "yesno"
    BY <1>1, <2>1 DEF Fits, OrEmpty
  <2>2. CASE dec.kind = "choice"
    BY <1>1, <1>2, <1>3, <2>2 DEF Fits, OrEmpty
  <2>3. CASE dec.kind = "text"
    BY <1>1, <2>3 DEF Fits, OrEmpty
  <2> QED BY <1>2, <1>3, <2>1, <2>2, <2>3
<1> QED BY <1>2, <1>3, <1>4, DecisionSame

\* routeBoundDecision: the agent takes the answer.
LEMMA RouteInv ==
  ASSUME Inv, routeBoundDecision
  PROVE  Inv'
<1>1. /\ stage = "answered" /\ UNCHANGED <<req, box, card, value, dec, text>>
      /\ stage' = IF /\ pad(DecisionLength(box, Verbatim)) <= MaxPlaintext
                     /\ ValidateDecision(box) /\ resultFieldsMatch(box)
                     /\ Verify(BoundDecisionSigningMessage(box), box.sig)
                     /\ box.id = req.id /\ box.request_hash = RequestSigningMessage(req)
                     /\ box.kind = req.kind /\ resultMatchesKind(box, req)
                  THEN "accepted" ELSE "lost"
  BY Zenon DEF routeBoundDecision
<1>2. box = dec /\ Fits(box, card)
  BY <1>1 DEF Inv
<1>3. /\ card.id \in Seq(Scalar) /\ bounded(card.id, Limit["id"], TRUE)
      /\ card.kind \in {"yesno", "choice", "text"}
      /\ maxLenOf(card) \in 0..MaxText
      /\ card.kind = "choice" =>
           \A x \in ToSet(card.options) : x \in Seq(Scalar) /\ bounded(x, Limit["option"], TRUE)
      /\ req.id = card.id /\ req.kind = card.kind
      /\ RequestSigningMessage(req) = requestSigningMessage(card)
      /\ card.kind = "choice" => req.options = card.options
      /\ maxLenOf(card) = (IF req.max_len = 0 THEN MaxText ELSE req.max_len)
  BY <1>1, CardType
<1>4. /\ box.kind = card.kind /\ box.id = card.id
      /\ box.request_hash = requestSigningMessage(card)
      /\ box.sig = boundDecisionSigningMessage(box)
      /\ pad(DecisionLength(box, Verbatim)) <= MaxPlaintext
  BY <1>2 DEF Fits
<1> SUFFICES /\ pad(DecisionLength(box, Verbatim)) <= MaxPlaintext
             /\ ValidateDecision(box) /\ resultFieldsMatch(box)
             /\ Verify(BoundDecisionSigningMessage(box), box.sig)
             /\ box.id = req.id /\ box.request_hash = RequestSigningMessage(req)
             /\ box.kind = req.kind /\ resultMatchesKind(box, req)
  BY <1>1 DEF Inv
<1>5. Verify(BoundDecisionSigningMessage(box), box.sig)
  BY <1>1, <1>2, <1>4, AnswerIs DEF Verify
<1>6. scalarBound(box.id, Limit["id"], TRUE)
  BY <1>3, <1>4, AbsentIsNoText DEF bounded, scalarBound
<1>7. OrEmpty(Absent) = <<>>
  BY DEF OrEmpty
<1>8. CASE box.kind = "yesno"
  <2>1. box.approved \in BOOLEAN /\ box.choice = Absent /\ box.text = Absent
        /\ box.approved # Absent
    BY <1>2, <1>8, AbsentIsNoText DEF Fits
  <2>2. ValidateDecision(box)
    BY <1>6, <1>7, <1>8, <2>1 DEF ValidateDecision
  <2>3. resultFieldsMatch(box)
    BY <1>8, <2>1 DEF resultFieldsMatch
  <2>4. resultMatchesKind(box, req)
    BY <1>3, <1>4, <1>8, <2>1 DEF resultMatchesKind
  <2> QED BY <1>3, <1>4, <1>5, <2>2, <2>3, <2>4
<1>9. CASE box.kind = "choice"
  <2>1. box.approved = Absent /\ box.text = Absent /\ box.choice \in ToSet(card.options)
    BY <1>2, <1>9 DEF Fits
  <2>2. box.choice \in Seq(Scalar) /\ bounded(box.choice, Limit["option"], TRUE)
        /\ box.choice # Absent
    BY <1>3, <1>4, <1>9, <2>1, AbsentIsNoText
  <2>3. OrEmpty(box.choice) = box.choice
    BY <2>2 DEF OrEmpty
  <2>4. ValidateDecision(box)
    BY <1>6, <1>7, <1>9, <2>1, <2>2, <2>3 DEF ValidateDecision, bounded, scalarBound
  <2>5. resultFieldsMatch(box)
    BY <1>9, <2>1, <2>2 DEF resultFieldsMatch
  <2>6. resultMatchesKind(box, req)
    BY <1>3, <1>4, <1>9, <2>1, <2>3 DEF resultMatchesKind
  <2> QED BY <1>3, <1>4, <1>5, <2>4, <2>5, <2>6
<1>10. CASE box.kind = "text"
  <2>1. box.approved = Absent /\ box.choice = Absent /\ box.text \in Seq(Scalar)
        /\ Len(box.text) <= maxLenOf(card) /\ box.text # Absent
    BY <1>2, <1>10, AbsentIsNoText DEF Fits
  <2>2. OrEmpty(box.text) = box.text /\ Len(box.text) <= MaxText
    BY <1>3, <2>1, Limits DEF OrEmpty
  <2>3. ValidateDecision(box)
    BY <1>6, <1>7, <1>10, <2>1, <2>2 DEF ValidateDecision, scalarBound, scalarLength
  <2>4. resultFieldsMatch(box)
    BY <1>10, <2>1 DEF resultFieldsMatch
  <2>5. resultMatchesKind(box, req)
    BY <1>3, <1>4, <1>10, <2>1, <2>2 DEF resultMatchesKind, scalarLength
  <2> QED BY <1>3, <1>4, <1>5, <2>3, <2>4, <2>5
<1> QED BY <1>3, <1>4, <1>8, <1>9, <1>10

\* onAck: the receipt names question and answer.
LEMMA AckInv ==
  ASSUME Inv, onAck
  PROVE  Inv'
<1>1. stage = "accepted" /\ box = dec
  BY DEF onAck, Inv
<1>2. matchesAck(signedAck(box), dec)
  BY <1>1, AnswerIs DEF matchesAck, signedAck
<1>3. stage' = "confirmed" /\ UNCHANGED <<req, box, card, value, dec, text>>
  BY <1>2 DEF onAck
<1> QED BY <1>3 DEF Inv

\* A question refused, a text read, the end.
LEMMA OtherInv ==
  ASSUME Inv,
         \/ \E r \in Input : Refuse(r)
         \/ \E x \in Document : Receive(x)
         \/ Done \/ UNCHANGED vars
  PROVE  Inv'
<1>1. CASE \E r \in Input : Refuse(r)
  BY <1>1 DEF Inv, Refuse
<1>2. CASE \E x \in Document : Receive(x)
  BY <1>2 DEF Inv, Receive
<1>3. CASE Done \/ UNCHANGED vars
  BY <1>3 DEF Inv, Done, vars
<1> QED BY <1>1, <1>2, <1>3

\* Every step.
LEMMA NextInv == Inv /\ [Next]_vars => Inv'
<1> SUFFICES ASSUME Inv, [Next]_vars PROVE Inv'
  OBVIOUS
<1>1. CASE \E r \in Input : \E q \in Sequence, d \in Deadline : prepareRequest(r, q, d)
  BY <1>1, PrepareInv
<1>2. CASE onBox
  BY <1>2, BoxInv
<1>3. CASE \E s \in Typed : onChange(s)
  BY <1>3, ChangeInv
<1>4. CASE stage = "card" /\ Send
  BY <1>4, SendInv
<1>5. CASE routeBoundDecision
  BY <1>5, RouteInv
<1>6. CASE onAck
  BY <1>6, AckInv
<1> QED BY <1>1, <1>2, <1>3, <1>4, <1>5, <1>6, OtherInv DEF Next

\* The inductive invariant holds in every behaviour: the request under way is one
\* that ValidateRequestInput let through, the card is that request, the answer
\* fits the card (ask.go, session.ts, screens.tsx; see Inv).
THEOREM Invariant == Spec => []Inv
BY InitInv, NextInv, PTL DEF Spec

\* NothingLost, for every limit and every question: a request that the agent's
\* checks let through always encodes, reaches a card, and the answer that the
\* card's limits allow always encodes and is taken (protocol.go:3-5).
THEOREM NothingIsLost == Spec => []NothingLost
<1>1. Inv => NothingLost
  BY DEF Inv, NothingLost
<1> QED BY <1>1, Invariant, PTL

\* What a decision says can be read back from what is signed of it.
LEMMA SaysUnique ==
  ASSUME NEW d, NEW o, d.kind = o.kind, d.kind \in {"yesno", "choice", "text"},
         d.kind = "yesno" => d.approved \in BOOLEAN /\ o.approved \in BOOLEAN,
         d.kind = "choice" => /\ OrEmpty(d.choice) \in Seq(Scalar)
                              /\ OrEmpty(o.choice) \in Seq(Scalar),
         d.kind = "text" => /\ OrEmpty(d.text) \in Seq(Scalar)
                            /\ OrEmpty(o.text) \in Seq(Scalar),
         DecisionValue(d) = DecisionValue(o)
  PROVE  Says(d) = Says(o)
<1>1. CASE d.kind = "yesno"
  <2>1. (IF d.approved = TRUE THEN <<49>> ELSE <<48>>)
          = (IF o.approved = TRUE THEN <<49>> ELSE <<48>>)
    BY <1>1 DEF DecisionValue
  <2>2. <<49>> # <<48>>
    OBVIOUS
  <2>3. Says(d) = d.approved /\ Says(o) = o.approved
    BY <1>1 DEF Says
  <2>4. d.approved \in {TRUE, FALSE} /\ o.approved \in {TRUE, FALSE}
    BY <1>1
  <2>5. d.approved = o.approved
    <3>1. CASE d.approved = TRUE /\ o.approved = FALSE
      BY <2>1, <2>2, <3>1
    <3>2. CASE d.approved = FALSE /\ o.approved = TRUE
      BY <2>1, <2>2, <3>2
    <3> QED BY <2>4, <3>1, <3>2
  <2> QED BY <2>3, <2>5
<1>2. CASE d.kind = "choice"
  <2>1. Bytes(OrEmpty(d.choice)) = Bytes(OrEmpty(o.choice))
    BY <1>2 DEF DecisionValue
  <2>2. OrEmpty(d.choice) = OrEmpty(o.choice)
    BY <1>2, <2>1, BytesUnique
  <2> QED BY <1>2, <2>2 DEF Says
<1>3. CASE d.kind = "text"
  <2>1. Bytes(OrEmpty(d.text)) = Bytes(OrEmpty(o.text))
    BY <1>3 DEF DecisionValue
  <2>2. OrEmpty(d.text) = OrEmpty(o.text)
    BY <1>3, <2>1, BytesUnique
  <2> QED BY <1>3, <2>2 DEF Says
<1> QED BY <1>1, <1>2, <1>3

\* An answer is signed over the question's id, hash and kind: it fits no other.
THEOREM AnswerFitsOne ==
  ASSUME NEW d \in Decision, NEW o \in Decision,
         boundDecisionSigningMessage(d) = boundDecisionSigningMessage(o)
  PROVE  d.id = o.id /\ d.request_hash = o.request_hash /\ d.kind = o.kind /\ Says(d) = Says(o)
<1>1. \A x \in Decision :
        /\ x.id \in Seq(Scalar) /\ x.request_hash \in Seq(Int)
        /\ x.kind \in {"yesno", "choice", "text"} /\ x.approved \in {Absent} \cup BOOLEAN
        /\ (x.kind = "yesno" => x.approved \in BOOLEAN)
        /\ x.choice \in {Absent} \cup Seq(Scalar) /\ x.text \in {Absent} \cup Seq(Scalar)
  BY DEF Decision
<1>2. <<>> \in Seq(Scalar)
  OBVIOUS
<1>3. \A x \in Decision : OrEmpty(x.choice) \in Seq(Scalar) /\ OrEmpty(x.text) \in Seq(Scalar)
  BY <1>1, <1>2 DEF OrEmpty
<1>4. /\ DecisionParts(d) \in Seq(Seq(Int)) /\ DecisionParts(o) \in Seq(Seq(Int))
      /\ fields(DecisionParts(d)) = fields(DecisionParts(o))
  BY <1>1, <1>3, DecisionSame
<1>5. DecisionParts(d) = DecisionParts(o)
  BY <1>4, FieldsUnique
<1>6. /\ Bytes(d.id) = Bytes(o.id) /\ d.request_hash = o.request_hash
      /\ Word[d.kind] = Word[o.kind] /\ DecisionValue(d) = DecisionValue(o)
  BY <1>5 DEF DecisionParts
<1>7. d.id = o.id
  BY <1>1, <1>6, BytesUnique
<1>8. d.kind = o.kind
  BY <1>1, <1>6 DEF Word
<1>9. Says(d) = Says(o)
  BY <1>1, <1>3, <1>6, <1>8, SaysUnique
<1> QED BY <1>6, <1>7, <1>8, <1>9

\* Two requests with the same transcript are the same, and two answers to one
\* question that are signed alike say the same.
LEMMA Distinct == Inv => TranscriptsDistinct
<1> SUFFICES ASSUME Inv PROVE TranscriptsDistinct
  OBVIOUS
<1>1. ASSUME stage = "asked", NEW other \in Sent, Transcript[other] = req.sig
      PROVE  other = [req EXCEPT !.sig = Absent]
  <2>1. PICK r \in Sendable, q \in Sequence, d \in Deadline : req = Full(r, q, d)
    BY <1>1 DEF Inv
  <2>2. PICK x \in Sendable, y \in Sequence, z \in Deadline : other = Bare(x, y, z)
    BY DEF Sent
  <2> DEFINE b == Bare(r, q, d)   s == RequestSigningMessage(b)
  <2>3. r \in Question
    BY SendableIs
  <2>4. b = As(r, q, d, Absent) /\ req = As(r, q, d, s)
    BY <2>1, <2>3, BareIs, FullIs
  <2>5. req.sig = s
    BY <2>4, AsIs
  <2>6. Transcript[other] = RequestSigningMessage(other)
    BY <1>1 DEF Transcript
  <2>7. /\ b \in Prepared /\ (OptionsOf(b.options) = <<>> => b.options = Absent)
        /\ other \in Prepared /\ (OptionsOf(other.options) = <<>> => other.options = Absent)
    BY <2>2, SentIs
  <2>8. [req EXCEPT !.sig = Absent] = b
    <3>1. [req EXCEPT !.sig = Absent] = WithSig(req, Absent)
      BY DEF WithSig
    <3> HIDE DEF b, s
    <3> QED BY <2>4, <3>1, AsExcept
  <2>9. RequestSigningMessage(other) = RequestSigningMessage(b)
    BY <1>1, <2>5, <2>6
  <2> HIDE DEF b
  <2>10. other = b
    BY <2>7, <2>9, TranscriptUnique
  <2> QED BY <2>8, <2>10
<1> DEFINE other(a, s) == CASE dec.kind = "yesno"  -> [dec EXCEPT !.approved = a]
                            [] dec.kind = "choice" -> [dec EXCEPT !.choice = s]
                            [] dec.kind = "text"   -> [dec EXCEPT !.text = s]
<1>2. ASSUME stage = "answered", NEW a \in BOOLEAN,
             NEW s \in {dec.choice, dec.text} \cup Typed, scalarOK(OrEmpty(s)),
             boundDecisionSigningMessage(other(a, s)) = dec.sig
      PROVE  Says(other(a, s)) = Says(dec)
  <2>1. dec \in Decision /\ dec.sig = boundDecisionSigningMessage(dec)
    BY <1>2 DEF Inv, Fits
  <2>2. s \in {Absent} \cup Seq(Scalar)
    <3>1. CASE s \in {dec.choice, dec.text}
      BY <2>1, <3>1 DEF Decision
    <3>2. CASE s \in Typed
      <4>1. s \in Seq(Char)
        BY <3>2, Limits
      <4>2. s # Absent => scalarOK(s)
        BY <1>2 DEF OrEmpty
      <4> QED BY <4>1, <4>2, ScalarsOnly
    <3> QED BY <1>2, <3>1, <3>2
  <2>3. other(a, s) \in Decision
    <3>1. CASE dec.kind = "yesno"
      BY <2>1, <3>1 DEF Decision
    <3>2. CASE dec.kind = "choice"
      BY <2>1, <2>2, <3>2 DEF Decision
    <3>3. CASE dec.kind = "text"
      BY <2>1, <2>2, <3>3 DEF Decision
    <3>4. dec.kind \in {"yesno", "choice", "text"}
      BY <2>1 DEF Decision
    <3> QED BY <3>1, <3>2, <3>3, <3>4
  <2> HIDE DEF other
  <2> QED BY <1>2, <2>1, <2>3, AnswerFitsOne
<1>3. stage = "asked" =>
        \A x \in Sent : Transcript[x] = req.sig => x = [req EXCEPT !.sig = Absent]
  BY <1>1
<1>4. stage = "answered" =>
        \A a \in BOOLEAN, s \in {dec.choice, dec.text} \cup Typed :
          scalarOK(OrEmpty(s)) /\ boundDecisionSigningMessage(other(a, s)) = dec.sig
            => Says(other(a, s)) = Says(dec)
  <2> HIDE DEF other
  <2> QED BY <1>2
<1> QED BY <1>3, <1>4, Zenon DEF TranscriptsDistinct

\* TranscriptsDistinct, for every set of questions: no two are signed over the
\* same bytes, and no two answers to one (protocol.go:3-5, 51-63).
THEOREM TranscriptsAreDistinct == Spec => []TranscriptsDistinct
BY Distinct, Invariant, PTL

-----------------------------------------------------------------------------
(* The two decoders                                                        *)

\* What either decoder asks of a value, apart from the values in it.
PlainGo(x, i, d) ==
  /\ d <= MaxDepth
  /\ x[i].t # "null"
  /\ x[i].t = "num" => x[i].v.canonical /\ x[i].v.safe
  /\ x[i].t = "obj" => \A c, e \in Members(x, i) : x[c].key = x[e].key => c = e
PlainTs(x, i, d) ==
  /\ d <= MaxDepth
  /\ x[i].t # "null"
  /\ x[i].t = "str" => scalarOK(x[i].v)
  /\ x[i].t = "num" => x[i].v.safe /\ x[i].v.canonical
  /\ x[i].t = "obj" =>
       \A c \in Members(x, i) : /\ scalarOK(x[c].key)
                                /\ \A e \in Members(x, i) : e < c => x[e].key # x[c].key

\* f is TRUE of a value when it and every value in it are good.
Descends(f, x, A) ==
  f = [p \in Places(x) |->
         p \in A /\ \A c \in Members(x, p[1]) : f[<<c, p[2] + 1>>]]

\* Such an f exists: the greatest set of good values that holds with each of
\* them all that are in it.
LEMMA DescendsExists ==
  ASSUME NEW x, NEW A \in SUBSET (Places(x)), \A p \in A : p[2] <= MaxDepth
  PROVE  \E f : Descends(f, x, A)
<1> DEFINE P == Places(x)
           Next1(p) == {<<c, p[2] + 1>> : c \in Members(x, p[1])}
           Closed(S) == \A p \in S : p \in A /\ Next1(p) \subseteq S
           G == UNION {S \in SUBSET P : Closed(S)}
<1>1. Closed(G) /\ G \in SUBSET P
  <2> HIDE DEF Next1
  <2> QED OBVIOUS
<1>2. ASSUME NEW p \in A, Next1(p) \subseteq G PROVE p \in G
  <2> DEFINE S == G \cup {p}
  <2>1. S \in SUBSET P
    BY <1>1
  <2>2. Closed(S)
    <3> HIDE DEF Next1, G
    <3> QED BY <1>1, <1>2
  <2> HIDE DEF Closed
  <2>3. S \subseteq G
    <3> HIDE DEF S
    <3> QED BY <2>1, <2>2
  <2> QED BY <2>3
<1>3. \A p \in P : p \in G <=> p \in A /\ Next1(p) \subseteq G
  <2> HIDE DEF Next1, G
  <2> QED BY <1>1, <1>2
<1> DEFINE f == [p \in P |-> p \in G]
<1>4. ASSUME NEW p \in A PROVE Next1(p) \subseteq P
  <2>1. p[1] \in DOMAIN x /\ p[2] \in 0..(MaxDepth + 1) /\ p[2] <= MaxDepth /\ MaxDepth \in Nat
    BY Limits DEF Places
  <2>2. p[2] + 1 \in 0..(MaxDepth + 1)
    BY <2>1
  <2>3. Members(x, p[1]) \subseteq DOMAIN x
    BY DEF Members
  <2> QED BY <2>2, <2>3 DEF Places
<1>5. ASSUME NEW p \in P
      PROVE  (p \in G) <=> (p \in A /\ \A c \in Members(x, p[1]) : f[<<c, p[2] + 1>>])
  <2>1. CASE p \notin A
    BY <1>3, <2>1
  <2>2. CASE p \in A
    <3>1. \A c \in Members(x, p[1]) : <<c, p[2] + 1>> \in P
      BY <1>4, <2>2
    <3>2. \A c \in Members(x, p[1]) : f[<<c, p[2] + 1>>] <=> <<c, p[2] + 1>> \in G
      BY <3>1
    <3>3. Next1(p) \subseteq G <=> \A c \in Members(x, p[1]) : <<c, p[2] + 1>> \in G
      <4> DEFINE C == Members(x, p[1])
      <4> HIDE DEF C, G
      <4> QED OBVIOUS
    <3> QED BY <1>3, <2>2, <3>2, <3>3
  <2> QED BY <2>1, <2>2
<1>6. f = [p \in P |-> p \in A /\ \A c \in Members(x, p[1]) : f[<<c, p[2] + 1>>]]
  <2> DEFINE h == [p \in P |-> p \in A /\ \A c \in Members(x, p[1]) : f[<<c, p[2] + 1>>]]
  <2>1. f \in [P -> BOOLEAN] /\ h \in [P -> BOOLEAN]
    OBVIOUS
  <2>2. \A p \in P : f[p] <=> h[p]
    BY <1>5
  <2> HIDE DEF f, h, P
  <2>3. f = h
    BY <2>1, <2>2
  <2> QED BY <2>3 DEF h
<1> QED BY <1>6 DEF Descends

\* strictValue is such a function (protocol.go:330-384),
LEMMA GoIs ==
  ASSUME NEW x
  PROVE  LET A == {p \in Places(x) : PlainGo(x, p[1], p[2])} IN
         Descends(strictValue(x), x, A)
<1> DEFINE A == {p \in Places(x) : PlainGo(x, p[1], p[2])}
<1>1. \E f : Descends(f, x, A)
  <2>1. \A p \in A : p[2] <= MaxDepth
    BY DEF PlainGo
  <2> HIDE DEF A
  <2>2. A \in SUBSET (Places(x))
    BY DEF A
  <2> QED BY <2>1, <2>2, DescendsExists
<1> DEFINE Whole(f) ==
        [at \in Places(x) |->
           /\ at[2] <= MaxDepth
           /\ x[at[1]].t # "null"
           /\ x[at[1]].t = "num" => x[at[1]].v.canonical /\ x[at[1]].v.safe
           /\ x[at[1]].t = "obj" =>
                \A c, e \in Members(x, at[1]) : x[c].key = x[e].key => c = e
           /\ \A c \in Members(x, at[1]) : f[<<c, at[2] + 1>>]]
<1>2. strictValue(x) = CHOOSE f : f = Whole(f)
  BY Zenon DEF strictValue
<1>3. ASSUME NEW f PROVE Descends(f, x, A) <=> f = Whole(f)
  BY DEF Descends, PlainGo
<1> HIDE DEF Whole, A
<1>4. \E f : f = Whole(f)
  BY <1>1, <1>3
<1>5. strictValue(x) = Whole(strictValue(x))
  BY <1>2, <1>4
<1> QED BY <1>3, <1>5 DEF A

\* The kinds of values, each under a structure or at the top.
LEMMA DocumentIs ==
  ASSUME NEW x, x \in Seq(Range(x)), IsDocument(x)
  PROVE  /\ DOMAIN x = 1..Len(x) /\ Len(x) \in Nat /\ 1 \in DOMAIN x
         /\ \A i \in DOMAIN x :
              /\ x[i].t \in {"null", "bool", "num", "str", "arr", "obj"}
              /\ i # 1 => x[i].in \in 1..(i - 1) /\ x[i].in \in DOMAIN x
              /\ Members(x, i) # {} => x[i].t \in {"arr", "obj"}
              /\ \A c \in Members(x, i) : /\ c \in DOMAIN x /\ c > i
                                          /\ x[c].key # Absent <=> x[i].t = "obj"
              /\ x[i].key # Absent => i # 1 /\ x[x[i].in].t = "obj"
<1>1. DOMAIN x = 1..Len(x) /\ Len(x) \in Nat /\ x # <<>>
  BY DEF IsDocument
<1>2. 1 \in DOMAIN x
  <2>1. ASSUME Len(x) = 0 PROVE FALSE
    BY <1>1, <2>1
  <2> QED BY <1>1, <2>1
<1>3. \A i \in DOMAIN x :
       /\ x[i].t \in {"null", "bool", "num", "str", "arr", "obj"}
       /\ x[i].in \in 0..(i - 1) /\ (x[i].in = 0 <=> i = 1)
       /\ x[i].in # 0 => x[x[i].in].t \in {"arr", "obj"}
       /\ x[i].key # Absent <=> x[i].in # 0 /\ x[x[i].in].t = "obj"
  BY DEF IsDocument
<1>4. \A i \in DOMAIN x : i \in Int /\ i >= 1 /\ i <= Len(x)
  BY <1>1
<1>5. ASSUME NEW i \in DOMAIN x
      PROVE  /\ i # 1 => x[i].in \in 1..(i - 1) /\ x[i].in \in DOMAIN x
             /\ x[i].key # Absent => i # 1 /\ x[x[i].in].t = "obj"
  <2>1. i # 1 => x[i].in \in 1..(i - 1)
    BY <1>3, <1>4
  <2>2. i # 1 => x[i].in \in DOMAIN x
    BY <1>1, <1>4, <2>1
  <2> QED BY <1>3, <2>1, <2>2
<1>6. ASSUME NEW i \in DOMAIN x, NEW c \in Members(x, i)
      PROVE  /\ c \in DOMAIN x /\ c > i /\ x[i].t \in {"arr", "obj"}
             /\ x[c].key # Absent <=> x[i].t = "obj"
  <2>1. c \in DOMAIN x /\ x[c].in = i /\ i # 0
    BY <1>4 DEF Members
  <2>2. i \in 0..(c - 1)
    BY <1>3, <2>1
  <2> QED BY <1>3, <1>4, <2>1, <2>2
<1> QED BY <1>1, <1>2, <1>3, <1>5, <1>6

\* What is in a value comes after it, and in an object under a key.
LEMMA DocumentMembers ==
  ASSUME NEW x, x \in Seq(Range(x)), IsDocument(x), NEW i \in DOMAIN x, NEW c \in Members(x, i)
  PROVE  c \in DOMAIN x /\ c > i /\ (x[i].t = "obj" => x[c].key # Absent)
<1>1. \A e \in Members(x, i) : /\ e \in DOMAIN x /\ e > i
                               /\ x[e].key # Absent <=> x[i].t = "obj"
  BY DocumentIs
<1> QED BY <1>1

\* and so is the scanner of protocol.ts:365-431.
LEMMA TsIs ==
  ASSUME NEW x, x \in Seq(Range(x)), IsDocument(x)
  PROVE  LET A == {p \in Places(x) : PlainTs(x, p[1], p[2])} IN
         Descends(scanned(x), x, A)
<1> DEFINE A == {p \in Places(x) : PlainTs(x, p[1], p[2])}
<1>1. \E f : Descends(f, x, A)
  <2>1. \A p \in A : p[2] <= MaxDepth
    BY DEF PlainTs
  <2> HIDE DEF A
  <2>2. A \in SUBSET (Places(x))
    BY DEF A
  <2> QED BY <2>1, <2>2, DescendsExists
<1> DEFINE Here(f, at) == scan(x, at[1], at[2], f)
           Whole(f) == [at \in Places(x) |-> Here(f, at)]
           Good(f, at) == at \in A /\ \A c \in Members(x, at[1]) : f[<<c, at[2] + 1>>]
<1>2. scanned(x) = CHOOSE f : f = Whole(f)
  BY Zenon DEF scanned
<1>3. ASSUME NEW f, NEW at \in Places(x)
      PROVE  Here(f, at) = Good(f, at)
  <2> DEFINE i == at[1]   d == at[2]   C == Members(x, i)
  <2>1. i \in DOMAIN x /\ d \in 0..(MaxDepth + 1) /\ MaxDepth \in Nat
    BY Limits DEF Places
  <2>2. at \in A <=> PlainTs(x, i, d)
    OBVIOUS
  <2>3. /\ x[i].t \in {"null", "bool", "num", "str", "arr", "obj"}
        /\ C # {} => x[i].t \in {"arr", "obj"}
    BY <2>1, DocumentIs
  <2>4. Good(f, at) <=> PlainTs(x, i, d) /\ \A c \in C : f[<<c, d + 1>>]
    BY <2>2
  <2>5. Good(f, at) \in BOOLEAN
    OBVIOUS
  <2>6. CASE d > MaxDepth
    <3>1. Here(f, at) = FALSE
      BY <2>6 DEF scan
    <3>2. ~ PlainTs(x, i, d)
      BY <2>1, <2>6 DEF PlainTs
    <3> HIDE DEF Here, Good
    <3> QED BY <2>4, <2>5, <3>1, <3>2
  <2>7. CASE ~(d > MaxDepth) /\ x[i].t = "null"
    <3>1. Here(f, at) = FALSE
      BY <2>7 DEF scan
    <3>2. ~ PlainTs(x, i, d)
      BY <2>7 DEF PlainTs
    <3> HIDE DEF Here, Good
    <3> QED BY <2>4, <2>5, <3>1, <3>2
  <2>8. CASE ~(d > MaxDepth) /\ x[i].t = "bool"
    <3>1. Here(f, at) = TRUE
      BY <2>8 DEF scan
    <3>2. PlainTs(x, i, d) /\ C = {}
      BY <2>1, <2>3, <2>8 DEF PlainTs
    <3> HIDE DEF Here, Good
    <3> QED BY <2>4, <2>5, <3>1, <3>2
  <2>9. CASE ~(d > MaxDepth) /\ x[i].t = "num"
    <3>1. Here(f, at) = (x[i].v.safe /\ x[i].v.canonical)
      BY <2>9 DEF scan
    <3>2. (PlainTs(x, i, d) <=> x[i].v.safe /\ x[i].v.canonical) /\ C = {}
      BY <2>1, <2>3, <2>9 DEF PlainTs
    <3> HIDE DEF Here, Good
    <3> QED BY <2>4, <2>5, <3>1, <3>2
  <2>10. CASE ~(d > MaxDepth) /\ x[i].t = "str"
    <3>1. Here(f, at) = scalarOK(x[i].v)
      BY <2>10 DEF scan
    <3>2. (PlainTs(x, i, d) <=> scalarOK(x[i].v)) /\ C = {} /\ scalarOK(x[i].v) \in BOOLEAN
      BY <2>1, <2>3, <2>10 DEF PlainTs, scalarOK
    <3> HIDE DEF Here, Good
    <3> QED BY <2>4, <2>5, <3>1, <3>2
  <2>11. CASE ~(d > MaxDepth) /\ x[i].t = "arr"
    <3>1. Here(f, at) = \A c \in C : f[<<c, d + 1>>]
      BY <2>11 DEF scan
    <3>2. PlainTs(x, i, d)
      BY <2>1, <2>11 DEF PlainTs
    <3> HIDE DEF Here, Good
    <3> QED BY <2>4, <2>5, <3>1, <3>2
  <2>12. CASE ~(d > MaxDepth) /\ x[i].t = "obj"
    <3>1. Here(f, at) = \A c \in C : /\ scalarOK(x[c].key)
                                     /\ \A e \in C : e < c => x[e].key # x[c].key
                                     /\ f[<<c, d + 1>>]
      BY <2>12 DEF scan
    <3>2. PlainTs(x, i, d) <=> \A c \in C : /\ scalarOK(x[c].key)
                                            /\ \A e \in C : e < c => x[e].key # x[c].key
      BY <2>1, <2>12 DEF PlainTs
    <3> HIDE DEF Here, Good
    <3> QED BY <2>4, <2>5, <3>1, <3>2
  <2> HIDE DEF Here, Good, i, d, C, A
  <2> QED BY <2>3, <2>6, <2>7, <2>8, <2>9, <2>10, <2>11, <2>12
<1>4. ASSUME NEW f PROVE Descends(f, x, A) <=> f = Whole(f)
  <2>1. [at \in Places(x) |-> Here(f, at)] = [at \in Places(x) |-> Good(f, at)]
    <3> HIDE DEF Here, Good
    <3> QED BY <1>3
  <2>2. Whole(f) = [at \in Places(x) |-> Good(f, at)]
    <3> HIDE DEF Here, Good
    <3> QED BY <2>1
  <2> HIDE DEF Whole, A
  <2> QED BY <2>2 DEF Descends
<1> HIDE DEF Whole, A
<1>5. \E f : f = Whole(f)
  BY <1>1, <1>4
<1>6. scanned(x) = Whole(scanned(x))
  BY <1>2, <1>5
<1> QED BY <1>4, <1>6 DEF A

\* Where the two ask the same of every value, they find the same.
LEMMA DescendsUnique ==
  ASSUME NEW x, x \in Seq(Range(x)), IsDocument(x), NEW A, NEW f, NEW g,
         Descends(f, x, A), Descends(g, x, A), \A p \in A : p \in Places(x) /\ p[2] <= MaxDepth
  PROVE  \A p \in Places(x) : f[p] = g[p]
<1> DEFINE N == Len(x)
           T == {k \in 0..N : \E p \in Places(x) : k = N - p[1] /\ f[p] # g[p]}
<1>1. /\ DOMAIN x = 1..N /\ N \in Nat
      /\ \A i \in DOMAIN x : \A c \in Members(x, i) : c \in DOMAIN x /\ c > i
  <2>1. DOMAIN x = 1..Len(x) /\ Len(x) \in Nat
    BY DocumentIs
  <2>2. \A i \in DOMAIN x : \A c \in Members(x, i) : c \in DOMAIN x /\ c > i
    BY DocumentMembers
  <2> QED BY <2>1, <2>2
<1>2. /\ \A p \in Places(x) :
           f[p] = (p \in A /\ \A c \in Members(x, p[1]) : f[<<c, p[2] + 1>>])
      /\ \A p \in Places(x) :
           g[p] = (p \in A /\ \A c \in Members(x, p[1]) : g[<<c, p[2] + 1>>])
  BY DEF Descends
<1>3. \A p \in Places(x) : p[1] \in DOMAIN x /\ p[2] \in 0..(MaxDepth + 1)
  BY DEF Places
<1> HIDE DEF N
<1>4. SUFFICES ASSUME T # {} PROVE FALSE
  <2>1. ASSUME T = {}, NEW p \in Places(x) PROVE f[p] = g[p]
    <3>1. N - p[1] \in 0..N
      BY <1>1, <1>3
    <3> QED BY <2>1, <3>1
  <2> HIDE DEF T
  <2> QED BY <2>1
<1>5. PICK k \in T : \A m \in T : k <= m
  <2>1. T \in SUBSET Nat
    BY <1>1
  <2> HIDE DEF T
  <2> QED BY <1>4, <2>1, Least
<1>6. PICK p \in Places(x) : k = N - p[1] /\ f[p] # g[p]
  OBVIOUS
<1>7. ASSUME p \in A, NEW c \in Members(x, p[1])
      PROVE  f[<<c, p[2] + 1>>] = g[<<c, p[2] + 1>>]
  <2>0. p[2] \in 0..(MaxDepth + 1) /\ p[2] <= MaxDepth /\ MaxDepth \in Nat
    BY <1>3, <1>7, Limits
  <2>1. c \in DOMAIN x /\ c > p[1] /\ p[2] + 1 \in 0..(MaxDepth + 1)
    <3>1. c \in DOMAIN x /\ c > p[1]
      BY <1>1, <1>3
    <3>2. p[2] + 1 \in 0..(MaxDepth + 1)
      BY <2>0
    <3> QED BY <3>1, <3>2
  <2>2. <<c, p[2] + 1>> \in Places(x)
    BY <2>1 DEF Places
  <2>3. N - c \in 0..N /\ N - c < k
    BY <1>1, <1>3, <1>6, <2>1
  <2>4. N - c \notin T
    BY <1>5, <2>3
  <2> QED BY <2>2, <2>3, <2>4
<1> QED BY <1>2, <1>6, <1>7

\* With whole characters everywhere, the two ask the same of a value.
LEMMA PlainSame ==
  ASSUME NEW x, x \in Seq(Range(x)), IsDocument(x), validEscapedScalars(x),
         NEW i \in DOMAIN x, NEW d
  PROVE  PlainGo(x, i, d) <=> PlainTs(x, i, d)
<1>0. x \in Seq(Range(x)) /\ IsDocument(x)
  OBVIOUS
<1> DEFINE C == Members(x, i)
<1>1. /\ \A c \in C : c \in DOMAIN x /\ c \in Int
      /\ x[i].t = "obj" => \A c \in C : x[c].key # Absent
  <2>1. \A c \in C : c \in DOMAIN x /\ (x[i].t = "obj" => x[c].key # Absent)
    BY DocumentMembers
  <2>2. DOMAIN x \subseteq Int
    BY <1>0, DocumentIs
  <2> QED BY <2>1, <2>2
<1>2. /\ x[i].t = "str" => scalarOK(x[i].v)
      /\ x[i].t = "obj" => \A c \in C : scalarOK(x[c].key)
  BY <1>1 DEF validEscapedScalars
<1>3. (\A c, e \in C : x[c].key = x[e].key => c = e)
        <=> (\A c \in C : \A e \in C : e < c => x[e].key # x[c].key)
  <2> HIDE DEF C
  <2>1. \A c, e \in C : c = e \/ c < e \/ e < c
    BY <1>1
  <2>2. \A c, e \in C : c < e => c # e
    BY <1>1
  <2> QED BY <2>1, <2>2
<1> HIDE DEF C
<1> QED BY <1>2, <1>3 DEF PlainGo, PlainTs, C

\* What TypeScript reads holds whole characters.
LEMMA ReadWhole ==
  ASSUME NEW x, x \in Seq(Range(x)), IsDocument(x), NEW f,
         Descends(f, x, {p \in Places(x) : PlainTs(x, p[1], p[2])}), f[<<1, 0>>]
  PROVE  validEscapedScalars(x)
<1> DEFINE A == {p \in Places(x) : PlainTs(x, p[1], p[2])}
           T == {j \in DOMAIN x : ~ \E d \in 0..(MaxDepth + 1) : f[<<j, d>>]}
<1>0. x \in Seq(Range(x)) /\ IsDocument(x) /\ MaxDepth \in Nat
  BY Limits
<1>1. /\ DOMAIN x = 1..Len(x) /\ Len(x) \in Nat /\ 1 \in DOMAIN x
      /\ \A i \in DOMAIN x :
           /\ i # 1 => x[i].in \in 1..(i - 1) /\ x[i].in \in DOMAIN x
           /\ x[i].key # Absent => i # 1 /\ x[x[i].in].t = "obj"
  BY <1>0, DocumentIs
<1>2. ASSUME NEW i \in DOMAIN x, NEW d \in 0..(MaxDepth + 1), f[<<i, d>>]
      PROVE  /\ PlainTs(x, i, d) /\ d <= MaxDepth
             /\ \A c \in Members(x, i) : f[<<c, d + 1>>]
  <2>1. <<i, d>> \in Places(x)
    BY DEF Places
  <2>2. <<i, d>> \in A /\ \A c \in Members(x, i) : f[<<c, d + 1>>]
    BY <1>2, <2>1 DEF Descends
  <2> QED BY <2>2 DEF PlainTs
<1>3. T = {}
  <2> SUFFICES ASSUME T # {} PROVE FALSE
    OBVIOUS
  <2>1. PICK j \in T : \A m \in T : j <= m
    <3>1. T \in SUBSET Nat
      BY <1>1
    <3> HIDE DEF T
    <3> QED BY <3>1, Least
  <2>2. j # 1
    <3>1. f[<<1, 0>>] /\ 0 \in 0..(MaxDepth + 1)
      BY <1>0
    <3>2. 1 \notin T
      BY <3>1
    <3> HIDE DEF T
    <3> QED BY <2>1, <3>2
  <2>3. x[j].in \in 1..(j - 1) /\ x[j].in \in DOMAIN x
    BY <1>1, <2>1, <2>2
  <2>4. x[j].in \notin T
    <3> DEFINE k == x[j].in
    <3>1. j \in Int /\ k \in 1..(j - 1)
      BY <1>1, <2>1, <2>3
    <3>2. k < j
      BY <3>1
    <3>3. ~(j <= k)
      BY <3>1, <3>2
    <3> HIDE DEF T, k
    <3>4. k \notin T
      BY <2>1, <3>3
    <3> QED BY <3>4 DEF k
  <2>5. PICK d \in 0..(MaxDepth + 1) : f[<<x[j].in, d>>]
    BY <2>3, <2>4
  <2>6. j \in Members(x, x[j].in)
    BY <2>1 DEF Members
  <2>7. f[<<j, d + 1>>] /\ d <= MaxDepth
    BY <1>2, <2>3, <2>5, <2>6
  <2>8. d + 1 \in 0..(MaxDepth + 1)
    BY <1>0, <2>7
  <2> QED BY <2>1, <2>7, <2>8
<1>4. ASSUME NEW i \in DOMAIN x
      PROVE  /\ x[i].t = "str" => scalarOK(x[i].v)
             /\ x[i].key # Absent => scalarOK(x[i].key)
  <2>1. PICK d \in 0..(MaxDepth + 1) : f[<<i, d>>]
    BY <1>3
  <2>2. x[i].t = "str" => scalarOK(x[i].v)
    BY <1>2, <2>1 DEF PlainTs
  <2>3. ASSUME x[i].key # Absent PROVE scalarOK(x[i].key)
    <3>1. x[i].in \in DOMAIN x /\ x[x[i].in].t = "obj"
      BY <1>1, <2>3
    <3>2. PICK e \in 0..(MaxDepth + 1) : f[<<x[i].in, e>>]
      BY <1>3, <3>1
    <3>3. i \in Members(x, x[i].in)
      BY DEF Members
    <3>4. PlainTs(x, x[i].in, e)
      BY <1>2, <3>1, <3>2
    <3> QED BY <3>1, <3>3, <3>4 DEF PlainTs
  <2> QED BY <2>2, <2>3
<1> QED BY <1>4 DEF validEscapedScalars

\* Go's scan and its reader together find what TypeScript's scanner finds.
LEMMA ReadersSame ==
  ASSUME NEW x, x \in Seq(Range(x)), IsDocument(x)
  PROVE  validEscapedScalars(x) /\ strictValue(x)[<<1, 0>>] <=> scanned(x)[<<1, 0>>]
<1> DEFINE f == strictValue(x)   g == scanned(x)
           A == {p \in Places(x) : PlainGo(x, p[1], p[2])}
           B == {p \in Places(x) : PlainTs(x, p[1], p[2])}
<1>1. Descends(f, x, A)
  BY GoIs
<1>2. Descends(g, x, B)
  BY TsIs
<1>3. g[<<1, 0>>] => validEscapedScalars(x)
  <2> HIDE DEF g
  <2> QED BY <1>2, ReadWhole
<1>4. ASSUME validEscapedScalars(x) PROVE f[<<1, 0>>] = g[<<1, 0>>]
  <2>1. \A p \in Places(x) : p[1] \in DOMAIN x
    BY DEF Places
  <2>2. A = B
    BY <1>4, <2>1, PlainSame
  <2>3. \A p \in A : p \in Places(x) /\ p[2] <= MaxDepth
    BY DEF PlainGo
  <2>4. <<1, 0>> \in Places(x)
    <3>1. 1 \in DOMAIN x
      BY DocumentIs
    <3>2. 0 \in 0..(MaxDepth + 1)
      BY Limits
    <3> QED BY <3>1, <3>2 DEF Places
  <2> HIDE DEF f, g, A, B
  <2>5. \A p \in Places(x) : f[p] = g[p]
    BY <1>1, <1>2, <2>2, <2>3, DescendsUnique
  <2> QED BY <2>4, <2>5
<1> HIDE DEF f, g
<1>6. validEscapedScalars(x) /\ f[<<1, 0>>] <=> g[<<1, 0>>]
  BY <1>3, <1>4
<1> QED BY <1>6 DEF f, g

\* The keys and the sizes are compared alike.
LEMMA Agree == Inv => DecodersAgree
<1> SUFFICES ASSUME Inv, text # Nothing
             PROVE  StrictDecode(text.json, text.size) <=> strictJSON(text.json, text.size)
  BY DEF DecodersAgree
<1>1. text.json \in Seq(Range(text.json)) /\ IsDocument(text.json)
  BY WireAssumption DEF Inv
<1>2. validEscapedScalars(text.json) /\ strictValue(text.json)[<<1, 0>>]
        <=> scanned(text.json)[<<1, 0>>]
  BY <1>1, ReadersSame
<1> QED BY <1>2 DEF StrictDecode, strictJSON, exactFields, object

\* DecodersAgree, for every text and every depth limit: StrictDecode takes what
\* strictJSON takes, nothing else (protocol.go:304-306, protocol.ts:353-354).
THEOREM DecodersDoAgree == Spec => []DecodersAgree
BY Agree, Invariant, PTL
=============================================================================
