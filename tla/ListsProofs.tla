----------------------------- MODULE ListsProofs -----------------------------
(***************************************************************************)
(* Induction over the natural numbers and definition by recursion, in the  *)
(* form of sets and functions, and what they show of lists that loops      *)
(* build, Filter and FlattenSeq of the community modules, and of the sums  *)
(* of numbers, SumFunctionOnSet.                                           *)
(***************************************************************************)
EXTENDS Lists, SequencesExt, TLAPS, WellFoundedInduction, SequenceTheorems, FiniteSetTheorems

LEMMA LeastNumber ==
    ASSUME NEW T, T \subseteq Nat, T # {}
    PROVE  \E x \in T : \A y \in T : x <= y
<1>1. PICK x \in T : \A y \in T : ~ (<<y, x>> \in OpToRel(<, Nat))
  BY WFMin, NatLessThanWellFounded, Zenon
<1>2. \A y \in T : ~(y < x)
  BY <1>1 DEF OpToRel
<1>3. QED
  BY <1>2

LEMMA SetInduction ==
    ASSUME NEW S, 0 \in S, \A n \in Nat : n \in S => n + 1 \in S
    PROVE  Nat \subseteq S
<1> SUFFICES ASSUME Nat \ S # {} PROVE FALSE
  OBVIOUS
<1>1. PICK x \in Nat \ S : \A y \in Nat \ S : x <= y
  BY LeastNumber
<1>2. x # 0 /\ x - 1 \in Nat
  BY <1>1
<1>3. x - 1 \in S
  BY <1>1, <1>2
<1>4. QED
  BY <1>1, <1>2, <1>3

-----------------------------------------------------------------------------
(* Recursive functions.  A loop of N rounds, whose round n takes a state x *)
(* of T to step[n][x], has a history.                                      *)

History(f, N, T, base, step) ==
    /\ f \in [0..N -> T]
    /\ f[0] = base
    /\ \A n \in 1..N : f[n] = step[n][f[n - 1]]

LEMMA LoopHistory ==
    ASSUME NEW N \in Nat, NEW T, NEW base \in T, NEW step \in [1..N -> [T -> T]]
    PROVE  \E f : History(f, N, T, base, step)
<1> DEFINE Runs(m) == \E f : History(f, m, T, base, step)
           S == {m \in Nat : m <= N => Runs(m)}
<1>1. 0 \in S
  <2> DEFINE f == [n \in 0..0 |-> base]
  <2>1. History(f, 0, T, base, step)
    BY DEF History
  <2>2. QED
    BY <2>1
<1>2. ASSUME NEW m \in Nat, m \in S PROVE m + 1 \in S
  <2> SUFFICES ASSUME m + 1 <= N PROVE Runs(m + 1)
    OBVIOUS
  <2>1. PICK f : History(f, m, T, base, step)
    BY <1>2
  <2> DEFINE g == [n \in 0..(m + 1) |-> IF n = m + 1 THEN step[m + 1][f[m]] ELSE f[n]]
  <2>2. step[m + 1] \in [T -> T] /\ f[m] \in T
    BY <2>1 DEF History
  <2>3. g \in [0..(m + 1) -> T]
    BY <2>1, <2>2 DEF History
  <2>4. g[0] = base
    BY <2>1 DEF History
  <2>5. ASSUME NEW n \in 1..(m + 1) PROVE g[n] = step[n][g[n - 1]]
    <3>1. CASE n = m + 1
      BY <3>1
    <3>2. CASE n # m + 1
      <4>1. n \in 1..m /\ n - 1 \in 0..m
        BY <3>2
      <4>2. QED
        BY <2>1, <4>1 DEF History
    <3>3. QED
      BY <3>1, <3>2
  <2>6. History(g, m + 1, T, base, step)
    BY <2>3, <2>4, <2>5 DEF History
  <2>7. QED
    BY <2>6
<1>3. Nat \subseteq S
  <2> HIDE DEF S
  <2>1. QED
    BY <1>1, <1>2, SetInduction
<1>4. QED
  BY <1>3

-----------------------------------------------------------------------------
(* Filter.                                                                 *)

Kept(kept, s, S) ==
    kept = [n \in 0..Len(s) |->
               IF n = 0 THEN <<>>
               ELSE IF s[n] \in S THEN Append(kept[n - 1], s[n]) ELSE kept[n - 1]]

\* The loop has a history ...
LEMMA KeptExists ==
    ASSUME NEW T, NEW s \in Seq(T), NEW S
    PROVE  \E kept : Kept(kept, s, S)
<1> DEFINE step == [n \in 1..Len(s) |-> [l \in Seq(T) |->
                       IF s[n] \in S THEN Append(l, s[n]) ELSE l]]
<1>1. step \in [1..Len(s) -> [Seq(T) -> Seq(T)]] /\ <<>> \in Seq(T) /\ Len(s) \in Nat
  OBVIOUS
<1>2. PICK f : History(f, Len(s), Seq(T), <<>>, step)
  <2> HIDE DEF step
  <2>1. QED
    BY <1>1, LoopHistory
<1>3. \A n \in 1..Len(s) : f[n] = step[n][f[n - 1]] /\ f[n - 1] \in Seq(T)
  <2> HIDE DEF step
  <2>1. QED
    BY <1>2 DEF History
<1>4. \A n \in 1..Len(s) : f[n] = IF s[n] \in S THEN Append(f[n - 1], s[n]) ELSE f[n - 1]
  BY <1>3
<1>5. f \in [0..Len(s) -> Seq(T)] /\ f[0] = <<>>
  BY <1>2 DEF History
<1>6. Kept(f, s, S)
  <2> HIDE DEF step
  <2>1. \A n \in 0..Len(s) : n = 0 \/ n \in 1..Len(s)
    OBVIOUS
  <2>2. QED
    BY <1>4, <1>5, <2>1 DEF Kept
<1>7. QED
  BY <1>6

LEMMA FilterKept ==
    ASSUME NEW T, NEW s \in Seq(T), NEW S
    PROVE  \E kept : Kept(kept, s, S) /\ Filter(s, S) = kept[Len(s)]
<1> DEFINE K == CHOOSE kept : Kept(kept, s, S)
<1>1. Kept(K, s, S)
  BY KeptExists, Zenon
<1>2. Filter(s, S) = K[Len(s)]
  BY Zenon DEF Filter, Kept
<1>3. QED
  BY <1>1, <1>2, Zenon

\* ... whose rounds append an element or none.
LEMMA KeptRound ==
    ASSUME NEW T, NEW s \in Seq(T), NEW S, NEW kept, Kept(kept, s, S)
    PROVE  /\ kept[0] = <<>>
           /\ \A n \in 1..Len(s) :
                kept[n] = IF s[n] \in S THEN Append(kept[n - 1], s[n]) ELSE kept[n - 1]
<1>1. kept[0] = <<>>
  BY DEF Kept
<1>2. ASSUME NEW n \in 1..Len(s)
      PROVE  kept[n] = IF s[n] \in S THEN Append(kept[n - 1], s[n]) ELSE kept[n - 1]
  <2>1. n \in 0..Len(s) /\ n # 0
    OBVIOUS
  <2>2. QED
    BY <2>1, Zenon DEF Kept
<1>3. QED
  BY <1>1, <1>2

\* What is kept is a list of elements of the list that are in the set.
LEMMA FilterType ==
    ASSUME NEW T, NEW s \in Seq(T), NEW S
    PROVE  Filter(s, S) \in Seq(T \intersect S)
<1>1. PICK kept : Kept(kept, s, S) /\ Filter(s, S) = kept[Len(s)]
  BY FilterKept
<1> DEFINE Q == Seq(T \intersect S)
           Typed == {n \in Nat : n <= Len(s) => kept[n] \in Q}
<1>2. 0 \in Typed
  <2>1. kept[0] = <<>>
    BY <1>1, KeptRound
  <2>2. <<>> \in Q
    OBVIOUS
  <2>3. QED
    BY <2>1, <2>2
<1>3. ASSUME NEW n \in Nat, n \in Typed PROVE n + 1 \in Typed
  <2> SUFFICES ASSUME n + 1 <= Len(s) PROVE kept[n + 1] \in Q
    OBVIOUS
  <2>1. n + 1 \in 1..Len(s) /\ (n + 1) - 1 = n /\ kept[n] \in Q /\ s[n + 1] \in T
    BY <1>3
  <2>2. kept[n + 1] = IF s[n + 1] \in S THEN Append(kept[n], s[n + 1]) ELSE kept[n]
    BY <1>1, <2>1, KeptRound
  <2>3. CASE s[n + 1] \in S
    BY <2>1, <2>2, <2>3, AppendProperties
  <2>4. CASE s[n + 1] \notin S
    BY <2>1, <2>2, <2>4, Zenon
  <2>5. QED
    BY <2>3, <2>4
<1>4. Nat \subseteq Typed
  <2> HIDE DEF Typed
  <2>1. QED
    BY <1>2, <1>3, SetInduction
<1>5. Len(s) \in Nat
  OBVIOUS
<1>6. QED
  BY <1>1, <1>4, <1>5

\* Nothing is dropped from a list whose elements are all in the set.
LEMMA FilterAll ==
    ASSUME NEW T, NEW s \in Seq(T), NEW S, \A i \in 1..Len(s) : s[i] \in S
    PROVE  Filter(s, S) = s
<1>1. PICK kept : Kept(kept, s, S) /\ Filter(s, S) = kept[Len(s)]
  BY FilterKept
<1> DEFINE Same == {n \in Nat : n <= Len(s) => kept[n] = SubSeq(s, 1, n)}
<1>2. 0 \in Same
  <2>1. kept[0] = <<>>
    BY <1>1, KeptRound
  <2>2. SubSeq(s, 1, 0) = <<>>
    OBVIOUS
  <2>3. QED
    BY <2>1, <2>2
<1>3. ASSUME NEW n \in Nat, n \in Same PROVE n + 1 \in Same
  <2> SUFFICES ASSUME n + 1 <= Len(s) PROVE kept[n + 1] = SubSeq(s, 1, n + 1)
    OBVIOUS
  <2>1. n + 1 \in 1..Len(s) /\ (n + 1) - 1 = n /\ kept[n] = SubSeq(s, 1, n)
    BY <1>3
  <2>2. kept[n + 1] = Append(kept[n], s[n + 1])
    <3>1. \A i \in 1..Len(s) :
            kept[i] = IF s[i] \in S THEN Append(kept[i - 1], s[i]) ELSE kept[i - 1]
      BY <1>1, KeptRound
    <3>2. s[n + 1] \in S
      BY <2>1
    <3>3. QED
      BY <2>1, <3>1, <3>2
  <2>3. Append(SubSeq(s, 1, n), s[n + 1]) = SubSeq(s, 1, n + 1)
    BY <2>1
  <2>4. QED
    BY <2>1, <2>2, <2>3, Zenon
<1>4. Nat \subseteq Same
  <2> HIDE DEF Same
  <2>1. QED
    BY <1>2, <1>3, SetInduction
<1>5. Len(s) \in Nat /\ SubSeq(s, 1, Len(s)) = s
  OBVIOUS
<1>6. QED
  BY <1>1, <1>4, <1>5

-----------------------------------------------------------------------------
(* FlattenSeq of the community modules, whose loop starts with the first   *)
(* of the lists.                                                           *)

Flattened(flat, seqs) ==
    flat = [i \in 1..Len(seqs) |-> IF i = 1 THEN seqs[i] ELSE flat[i - 1] \o seqs[i]]

LEMMA FlattenedExists ==
    ASSUME NEW T, NEW seqs \in Seq(Seq(T)), Len(seqs) # 0
    PROVE  \E flat : Flattened(flat, seqs)
<1> DEFINE step == [n \in 1..Len(seqs) |-> [l \in Seq(T) |->
                       IF n = 1 THEN seqs[n] ELSE l \o seqs[n]]]
<1>1. step \in [1..Len(seqs) -> [Seq(T) -> Seq(T)]] /\ <<>> \in Seq(T) /\ Len(seqs) \in Nat
  OBVIOUS
<1>2. PICK f : History(f, Len(seqs), Seq(T), <<>>, step)
  <2> HIDE DEF step
  <2>1. QED
    BY <1>1, LoopHistory
<1>3. \A n \in 1..Len(seqs) : f[n] = step[n][f[n - 1]] /\ f[n - 1] \in Seq(T)
  <2> HIDE DEF step
  <2>1. f \in [0..Len(seqs) -> Seq(T)] /\ \A n \in 1..Len(seqs) : f[n] = step[n][f[n - 1]]
    BY <1>2, Zenon DEF History
  <2>2. \A n \in 1..Len(seqs) : n - 1 \in 0..Len(seqs)
    OBVIOUS
  <2>3. QED
    BY <2>1, <2>2, Zenon
<1>4. \A n \in 1..Len(seqs) : f[n] = IF n = 1 THEN seqs[n] ELSE f[n - 1] \o seqs[n]
  BY <1>3
<1> DEFINE g == [n \in 1..Len(seqs) |-> f[n]]
<1>5. \A n \in 1..Len(seqs) : g[n] = IF n = 1 THEN seqs[n] ELSE g[n - 1] \o seqs[n]
  <2> HIDE DEF step
  <2>1. \A n \in 1..Len(seqs) : n = 1 \/ n - 1 \in 1..Len(seqs)
    OBVIOUS
  <2>2. QED
    BY <1>4, <2>1
<1>6. Flattened(g, seqs)
  <2>1. g = [n \in 1..Len(seqs) |-> g[n]]
    OBVIOUS
  <2> HIDE DEF step, g
  <2>2. QED
    BY <1>5, <2>1, Zenon DEF Flattened
<1>7. QED
  BY <1>6

\* Lists put together are a list.
LEMMA FlattenType ==
    ASSUME NEW T, NEW seqs \in Seq(Seq(T))
    PROVE  FlattenSeq(seqs) \in Seq(T)
<1>1. CASE Len(seqs) = 0
  <2>1. FlattenSeq(seqs) = seqs
    BY <1>1 DEF FlattenSeq
  <2>2. seqs = <<>>
    BY <1>1
  <2>3. QED
    BY <2>1, <2>2
<1>2. CASE Len(seqs) # 0
  <2> DEFINE flat == CHOOSE flat : Flattened(flat, seqs)
  <2>1. Flattened(flat, seqs)
    BY <1>2, FlattenedExists, Zenon
  <2>2. FlattenSeq(seqs) = flat[Len(seqs)]
    BY <1>2, Zenon DEF FlattenSeq, Flattened
  <2> HIDE DEF flat
  <2>3. \A i \in 1..Len(seqs) : flat[i] = IF i = 1 THEN seqs[i] ELSE flat[i - 1] \o seqs[i]
    BY <2>1, Zenon DEF Flattened
  <2> DEFINE Typed == {n \in Nat : n + 1 <= Len(seqs) => flat[n + 1] \in Seq(T)}
  <2>4. 0 \in Typed
    <3>1. 1 \in 1..Len(seqs) /\ seqs[1] \in Seq(T)
      BY <1>2
    <3>2. flat[1] = seqs[1]
      BY <2>3, <3>1, Zenon
    <3>3. flat[0 + 1] \in Seq(T)
      BY <3>1, <3>2
    <3>4. QED
      BY <3>3
  <2>5. ASSUME NEW n \in Nat, n \in Typed PROVE n + 1 \in Typed
    <3> SUFFICES ASSUME (n + 1) + 1 <= Len(seqs) PROVE flat[(n + 1) + 1] \in Seq(T)
      OBVIOUS
    <3> DEFINE i == (n + 1) + 1
    <3>1. i \in 1..Len(seqs) /\ i # 1 /\ i - 1 = n + 1 /\ flat[n + 1] \in Seq(T) /\ seqs[i] \in Seq(T)
      BY <2>5
    <3>2. flat[i] = IF i = 1 THEN seqs[i] ELSE flat[i - 1] \o seqs[i]
      BY <2>3, <3>1
    <3>3. flat[i] = flat[n + 1] \o seqs[i]
      BY <3>1, <3>2
    <3>4. QED
      BY <3>1, <3>3, ConcatProperties
  <2>6. Nat \subseteq Typed
    <3> HIDE DEF Typed
    <3>1. QED
      BY <2>4, <2>5, SetInduction
  <2>7. Len(seqs) - 1 \in Nat /\ (Len(seqs) - 1) + 1 = Len(seqs)
    BY <1>2
  <2>8. QED
    BY <2>2, <2>6, <2>7
<1>3. QED
  BY <1>1, <1>2

-----------------------------------------------------------------------------
(* Sums of the community modules, which take the elements of a finite set  *)
(* in the order that CHOOSE gives.                                         *)

First(s) == CHOOSE x \in s : TRUE

Summed(sum, f, S) ==
    sum = [s \in SUBSET S |-> IF s = {} THEN 0 ELSE f[First(s)] + sum[s \ {First(s)}]]

\* The order does not matter: any element can be taken out first.
Adds(sum, f, S) ==
    /\ sum \in [SUBSET S -> Int] /\ sum[{}] = 0
    /\ \A s \in SUBSET S : \A t \in s : sum[s] = f[t] + sum[s \ {t}]

LEMMA FirstIn ==
    ASSUME NEW s, s # {}
    PROVE  First(s) \in s
BY DEF First

LEMMA Smaller ==
    ASSUME NEW S, IsFiniteSet(S), NEW s \in SUBSET S, NEW x \in s
    PROVE  /\ s \ {x} \in SUBSET S /\ Cardinality(s) \in Nat
           /\ Cardinality(s \ {x}) \in Nat /\ Cardinality(s \ {x}) = Cardinality(s) - 1
<1>1. IsFiniteSet(s)
  BY FS_Subset
<1>2. QED
  BY <1>1, FS_RemoveElement, FS_CardinalityType

\* As many rounds as the set has elements are enough.
LEMMA SummedExists ==
    ASSUME NEW S, IsFiniteSet(S), NEW f, \A x \in S : f[x] \in Int
    PROVE  \E sum : Summed(sum, f, S)
<1> DEFINE T == [SUBSET S -> Int]
           N == Cardinality(S)
           round(g) == [s \in SUBSET S |-> IF s = {} THEN 0 ELSE f[First(s)] + g[s \ {First(s)}]]
           step == [n \in 1..(N + 1) |-> [g \in T |-> round(g)]]
           base == [s \in SUBSET S |-> 0]
<1>1. N \in Nat /\ N + 1 \in Nat
  BY FS_CardinalityType
<1> HIDE DEF N
<1>2. ASSUME NEW g \in T PROVE round(g) \in T
  <2>1. ASSUME NEW s \in SUBSET S, s # {} PROVE f[First(s)] + g[s \ {First(s)}] \in Int
    BY <2>1, FirstIn
  <2>2. QED
    BY <2>1
<1>3. base \in T /\ step \in [1..(N + 1) -> [T -> T]]
  <2>1. base \in T
    OBVIOUS
  <2> HIDE DEF T, round, base
  <2>2. QED
    BY <1>2, <2>1
<1>4. PICK h : History(h, N + 1, T, base, step)
  <2> HIDE DEF step, base, T
  <2>1. QED
    BY <1>1, <1>3, LoopHistory
<1>5. /\ h \in [0..(N + 1) -> T] /\ h[0] = base
      /\ \A n \in 1..(N + 1) : h[n] = step[n][h[n - 1]]
  BY <1>4, Zenon DEF History
<1>6. ASSUME NEW n \in 1..(N + 1) PROVE h[n] = round(h[n - 1]) /\ h[n - 1] \in T
  <2>1. n - 1 \in 0..(N + 1)
    BY <1>1
  <2>2. h[n - 1] \in T
    BY <1>5, <2>1
  <2> HIDE DEF T
  <2>3. QED
    BY <1>5, <2>2
<1>7. \A n \in 1..(N + 1) : \A s \in SUBSET S :
        h[n][s] = IF s = {} THEN 0 ELSE f[First(s)] + h[n - 1][s \ {First(s)}]
  BY <1>6
<1> HIDE DEF step
<1>8. \A s \in SUBSET S : h[0][s] = 0
  BY <1>5
<1> HIDE DEF base, round, T
<1> DEFINE Settled == {n \in Nat : n <= N =>
              \A s \in SUBSET S : Cardinality(s) <= n => h[n + 1][s] = h[n][s]}
<1>9. 0 \in Settled
  <2> SUFFICES ASSUME NEW s \in SUBSET S, Cardinality(s) <= 0 PROVE h[0 + 1][s] = h[0][s]
    OBVIOUS
  <2>1. s = {}
    BY FS_Subset, FS_EmptySet, FS_CardinalityType
  <2>2. 1 \in 1..(N + 1)
    BY <1>1
  <2>3. QED
    BY <1>7, <1>8, <2>1, <2>2
<1>10. ASSUME NEW n \in Nat, n \in Settled PROVE n + 1 \in Settled
  <2> SUFFICES ASSUME n + 1 <= N, NEW s \in SUBSET S, Cardinality(s) <= n + 1
               PROVE  h[(n + 1) + 1][s] = h[n + 1][s]
    OBVIOUS
  <2>1. n + 1 \in 1..(N + 1) /\ (n + 1) + 1 \in 1..(N + 1) /\ (n + 1) - 1 = n /\ ((n + 1) + 1) - 1 = n + 1
    BY <1>1
  <2>2. CASE s = {}
    BY <1>7, <2>1, <2>2
  <2>3. CASE s # {}
    <3> DEFINE x == First(s)
    <3>1. s \ {x} \in SUBSET S /\ Cardinality(s \ {x}) <= n
      <4>1. x \in s
        BY <2>3, FirstIn
      <4> HIDE DEF x
      <4>2. QED
        BY <4>1, Smaller
    <3>2. h[n + 1][s \ {x}] = h[n][s \ {x}]
      <4>1. n <= N
        BY <1>1
      <4> HIDE DEF x
      <4>2. QED
        BY <1>10, <3>1, <4>1
    <3>3. h[(n + 1) + 1][s] = f[x] + h[n + 1][s \ {x}] /\ h[n + 1][s] = f[x] + h[n][s \ {x}]
      BY <1>7, <2>1, <2>3
    <3>4. QED
      BY <3>2, <3>3
  <2>4. QED
    BY <2>2, <2>3
<1>11. Nat \subseteq Settled
  <2> HIDE DEF Settled
  <2>1. QED
    BY <1>9, <1>10, SetInduction
<1>12. \A s \in SUBSET S : Cardinality(s) <= N
  BY FS_Subset DEF N
<1>13. \A s \in SUBSET S : h[N + 1][s] = h[N][s]
  BY <1>1, <1>11, <1>12
<1>14. \A s \in SUBSET S : s = {} \/ s \ {First(s)} \in SUBSET S
  OBVIOUS
<1>15. N + 1 \in 1..(N + 1) /\ (N + 1) - 1 = N
  BY <1>1
<1>16. \A s \in SUBSET S : h[N + 1][s] = IF s = {} THEN 0 ELSE f[First(s)] + h[N + 1][s \ {First(s)}]
  <2> SUFFICES ASSUME NEW s \in SUBSET S
               PROVE  h[N + 1][s] = IF s = {} THEN 0 ELSE f[First(s)] + h[N + 1][s \ {First(s)}]
    OBVIOUS
  <2>1. h[N + 1][s] = IF s = {} THEN 0 ELSE f[First(s)] + h[N][s \ {First(s)}]
    BY <1>7, <1>15
  <2>2. QED
    BY <1>13, <2>1
<1>17. h[N + 1] \in [SUBSET S -> Int]
  <2>1. N + 1 \in 0..(N + 1)
    BY <1>1
  <2>2. QED
    BY <1>5, <2>1 DEF T
<1>18. Summed(h[N + 1], f, S)
  BY <1>16, <1>17 DEF Summed
<1>19. QED
  BY <1>18

LEMMA SummedType ==
    ASSUME NEW S, IsFiniteSet(S), NEW f, \A x \in S : f[x] \in Int, NEW sum, Summed(sum, f, S)
    PROVE  sum \in [SUBSET S -> Int]
<1>1. \A s \in SUBSET S : sum[s] = IF s = {} THEN 0 ELSE f[First(s)] + sum[s \ {First(s)}]
  BY Zenon DEF Summed
<1>0. sum[{}] \in Int
  <2>1. {} \in SUBSET S
    OBVIOUS
  <2>2. sum[{}] = IF {} = {} THEN 0 ELSE f[First({})] + sum[{} \ {First({})}]
    BY <1>1, <2>1, Zenon
  <2>3. sum[{}] = 0
    BY <2>2, Zenon
  <2>4. QED
    BY <2>3
<1> DEFINE Typed == {n \in Nat : \A s \in SUBSET S : Cardinality(s) <= n => sum[s] \in Int}
<1>2. 0 \in Typed
  <2> SUFFICES ASSUME NEW s \in SUBSET S, Cardinality(s) <= 0 PROVE sum[s] \in Int
    OBVIOUS
  <2>1. s = {}
    BY FS_Subset, FS_EmptySet, FS_CardinalityType
  <2>2. QED
    BY <1>0, <2>1
<1>3. ASSUME NEW n \in Nat, n \in Typed PROVE n + 1 \in Typed
  <2> SUFFICES ASSUME NEW s \in SUBSET S, Cardinality(s) <= n + 1 PROVE sum[s] \in Int
    OBVIOUS
  <2>1. CASE s = {}
    BY <1>0, <2>1
  <2>2. CASE s # {}
    <3>1. PICK x : x = First(s)
      OBVIOUS
    <3>2. x \in s /\ sum[s] = f[x] + sum[s \ {x}]
      BY <1>1, <2>2, <3>1, FirstIn
    <3>3. s \ {x} \in SUBSET S /\ Cardinality(s \ {x}) <= n
      BY <3>2, Smaller
    <3>4. sum[s \ {x}] \in Int
      BY <1>3, <3>3
    <3>5. QED
      BY <3>2, <3>4
  <2>3. QED
    BY <2>1, <2>2
<1>4. Nat \subseteq Typed
  <2> HIDE DEF Typed
  <2>1. QED
    BY <1>2, <1>3, SetInduction
<1>5. ASSUME NEW s \in SUBSET S PROVE sum[s] \in Int
  <2>1. Cardinality(s) \in Nat
    BY FS_Subset, FS_CardinalityType
  <2>2. Cardinality(s) \in Typed
    BY <1>4, <2>1
  <2>3. QED
    BY <2>1, <2>2
<1>6. DOMAIN sum = SUBSET S /\ sum = [s \in SUBSET S |-> sum[s]]
  BY Zenon DEF Summed
<1>7. QED
  BY <1>5, <1>6

LEMMA SumOfAny ==
    ASSUME NEW S, IsFiniteSet(S), NEW f, \A x \in S : f[x] \in Int,
           NEW sum, Summed(sum, f, S)
    PROVE  Adds(sum, f, S)
<1>0. sum \in [SUBSET S -> Int]
  BY SummedType
<1>1. \A s \in SUBSET S : sum[s] = IF s = {} THEN 0 ELSE f[First(s)] + sum[s \ {First(s)}]
  BY Zenon DEF Summed
<1>2. sum[{}] = 0
  <2>1. {} \in SUBSET S
    OBVIOUS
  <2>2. sum[{}] = IF {} = {} THEN 0 ELSE f[First({})] + sum[{} \ {First({})}]
    BY <1>1, <2>1, Zenon
  <2>3. QED
    BY <2>2, Zenon
<1> DEFINE Free == {n \in Nat : \A s \in SUBSET S : Cardinality(s) <= n =>
                     \A t \in s : sum[s] = f[t] + sum[s \ {t}]}
<1>3. 0 \in Free
  <2> SUFFICES ASSUME NEW s \in SUBSET S, Cardinality(s) <= 0, NEW t \in s PROVE FALSE
    OBVIOUS
  <2>1. Cardinality(s) \in Nat /\ Cardinality(s \ {t}) \in Nat /\ Cardinality(s \ {t}) = Cardinality(s) - 1
    BY Smaller
  <2>2. QED
    BY <2>1
<1>4. ASSUME NEW n \in Nat, n \in Free PROVE n + 1 \in Free
  <2> SUFFICES ASSUME NEW s \in SUBSET S, Cardinality(s) <= n + 1, NEW t \in s
               PROVE  sum[s] = f[t] + sum[s \ {t}]
    OBVIOUS
  <2>1. PICK x : x = First(s)
    OBVIOUS
  <2>2. x \in s /\ sum[s] = f[x] + sum[s \ {x}]
    BY <1>1, <2>1, FirstIn
  <2>3. CASE x = t
    BY <2>2, <2>3
  <2>4. CASE x # t
    <3>1. /\ s \ {x} \in SUBSET S /\ Cardinality(s \ {x}) <= n /\ t \in s \ {x}
          /\ s \ {t} \in SUBSET S /\ Cardinality(s \ {t}) <= n /\ x \in s \ {t}
      BY <2>2, <2>4, Smaller
    <3>2. sum[s \ {x}] = f[t] + sum[(s \ {x}) \ {t}] /\ sum[s \ {t}] = f[x] + sum[(s \ {t}) \ {x}]
      BY <1>4, <3>1
    <3>3. (s \ {x}) \ {t} = (s \ {t}) \ {x} /\ (s \ {x}) \ {t} \in SUBSET S
      OBVIOUS
    <3>4. PICK r \in Int : r = sum[(s \ {x}) \ {t}]
      BY <1>0, <3>3
    <3>5. sum[s] = f[x] + (f[t] + r) /\ f[t] + sum[s \ {t}] = f[t] + (f[x] + r)
      BY <2>2, <3>2, <3>3, <3>4
    <3>6. f[x] \in Int /\ f[t] \in Int
      BY <2>2
    <3>7. QED
      BY <3>4, <3>5, <3>6
  <2>5. QED
    BY <2>3, <2>4
<1>5. Nat \subseteq Free
  <2> HIDE DEF Free
  <2>1. QED
    BY <1>3, <1>4, SetInduction
<1>6. ASSUME NEW s \in SUBSET S, NEW t \in s PROVE sum[s] = f[t] + sum[s \ {t}]
  <2>1. Cardinality(s) \in Nat
    BY Smaller
  <2>2. Cardinality(s) \in Free
    BY <1>5, <2>1
  <2>3. QED
    BY <2>1, <2>2
<1>7. QED
  BY <1>0, <1>2, <1>6 DEF Adds

\* What SumFunctionOnSet computes.
LEMMA SumOnSet ==
    ASSUME NEW S, IsFiniteSet(S), NEW f, \A x \in S : f[x] \in Int
    PROVE  \E sum : Adds(sum, f, S) /\ SumFunctionOnSet(f, S) = sum[S]
<1> DEFINE sum == CHOOSE sum : Summed(sum, f, S)
<1>1. \E other : Summed(other, f, S)
  BY SummedExists
<1>2. Summed(sum, f, S)
  BY <1>1, Zenon
<1>3. SumFunctionOnSet(f, S) = sum[S]
  BY Zenon DEF SumFunctionOnSet, FoldFunctionOnSet, MapThenFoldSet, Summed, First
<1> HIDE DEF sum
<1>4. Adds(sum, f, S)
  BY <1>2, SumOfAny
<1>5. QED
  BY <1>3, <1>4, Zenon

LEMMA SumOfOne ==
    ASSUME NEW f, NEW x, f[x] \in Int
    PROVE  SumFunctionOnSet(f, {x}) = f[x]
<1>1. IsFiniteSet({x})
  BY FS_Singleton
<1>2. PICK sum : Adds(sum, f, {x}) /\ SumFunctionOnSet(f, {x}) = sum[{x}]
  BY <1>1, SumOnSet
<1>3. sum[{x}] = f[x] + sum[{x} \ {x}] /\ sum[{}] = 0
  BY <1>2 DEF Adds
<1>4. {x} \ {x} = {}
  OBVIOUS
<1>5. QED
  BY <1>2, <1>3, <1>4

LEMMA SumOfThree ==
    ASSUME NEW f, \A x \in 1..3 : f[x] \in Int
    PROVE  SumFunctionOnSet(f, 1..3) = f[1] + f[2] + f[3]
<1>1. IsFiniteSet(1..3)
  BY FS_Interval, 1 \in Int, 3 \in Int, Zenon
<1>2. PICK sum : Adds(sum, f, 1..3) /\ SumFunctionOnSet(f, 1..3) = sum[1..3]
  BY <1>1, SumOnSet
<1>3. /\ 1..3 \in SUBSET (1..3) /\ {1, 2} \in SUBSET (1..3) /\ {1} \in SUBSET (1..3)
      /\ 3 \in 1..3 /\ 2 \in {1, 2} /\ 1 \in {1}
      /\ (1..3) \ {3} = {1, 2} /\ {1, 2} \ {2} = {1} /\ {1} \ {1} = {}
  OBVIOUS
<1>4. sum[{}] = 0 /\ \A s \in SUBSET (1..3) : \A t \in s : sum[s] = f[t] + sum[s \ {t}]
  BY <1>2, Zenon DEF Adds
<1>5. sum[1..3] = f[3] + sum[{1, 2}]
  <2>1. \A t \in 1..3 : sum[1..3] = f[t] + sum[(1..3) \ {t}]
    BY <1>4, 1..3 \in SUBSET (1..3), Zenon
  <2>2. 3 \in 1..3 /\ (1..3) \ {3} = {1, 2}
    BY <1>3, Zenon
  <2>3. QED
    BY <2>1, <2>2, Zenon
<1>6. sum[{1, 2}] = f[2] + sum[{1}]
  BY <1>3, <1>4
<1>7. sum[{1}] = f[1] + sum[{}]
  BY <1>3, <1>4
<1>8. f[1] \in Int /\ f[2] \in Int /\ f[3] \in Int
  OBVIOUS
<1>9. QED
  BY <1>2, <1>4, <1>5, <1>6, <1>7, <1>8

LEMMA SumOfNone ==
    ASSUME NEW f
    PROVE  SumFunctionOnSet(f, {}) = 0
<1>1. IsFiniteSet({}) /\ \A x \in {} : f[x] \in Int
  BY FS_EmptySet
<1>2. PICK sum : Adds(sum, f, {}) /\ SumFunctionOnSet(f, {}) = sum[{}]
  BY <1>1, SumOnSet
<1>3. QED
  BY <1>2 DEF Adds
=============================================================================
