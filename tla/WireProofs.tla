------------------------------ MODULE WireProofs ------------------------------
(***************************************************************************)
(* What is written is read: theorems about Wire.                           *)
(*                                                                         *)
(* A stream is read as a message (ReadsTo) if some set of readings has     *)
(* that one, and has the readings that each of its readings is made of     *)
(* (Sound): nothing recursive is needed.  From parts to items, fields,     *)
(* messages and messages in messages it is shown what is read of what is   *)
(* written, by a program that knows all of the fields and by one that does *)
(* not, and what is read of what that one writes (SourceGoes).  The        *)
(* invariant then says of every call of merge_from that the rest of its    *)
(* piece of the stream leads from what it has read so far to what there is *)
(* to be read in the end.                                                  *)
(***************************************************************************)
EXTENDS Wire, FiniteSetTheorems, SequenceTheorems, TLAPS

-----------------------------------------------------------------------------
(***************************************************************************)
(* Induction, over sets instead of predicates                              *)
(***************************************************************************)

\* What holds of a set whenever it holds of the set without any one of its elements
\* holds of all finite sets.  The properties are sets, T, so that the lemma can be cited.
LEMMA SetInduct ==
    ASSUME NEW D, IsFiniteSet(D), NEW T,
           {} \in T,
           \A S \in SUBSET D : S # {} /\ (\A x \in S : S \ {x} \in T) => S \in T
    PROVE  \A S \in SUBSET D : S \in T
<1>. DEFINE B == {S \in SUBSET D : S \notin T}
<1>. SUFFICES ASSUME B # {} PROVE FALSE
  OBVIOUS
<1>1. IsWellFoundedOn(StrictSubsetOrdering(D), FiniteSubsetsOf(D))
  BY FS_StrictSubsetOrderingWellFounded
<1>2. B \subseteq FiniteSubsetsOf(D)
  BY FS_Subset DEF FiniteSubsetsOf
<1>3. PICK S \in B : \A U \in B : <<U, S>> \notin StrictSubsetOrdering(D)
  <2>. HIDE DEF B
  <2>. QED BY <1>1, <1>2, WFMin, Zenon
<1>4. ASSUME NEW x \in S PROVE S \ {x} \in T
  <2>1. <<S \ {x}, S>> \in StrictSubsetOrdering(D)
    BY <1>4 DEF StrictSubsetOrdering
  <2>. QED
    BY <1>3, <2>1
<1>. QED
  BY <1>3, <1>4

\* The same for numbers.
LEMMA NatInduct ==
    ASSUME NEW T, 0 \in T, \A n \in Nat : n \in T => n + 1 \in T
    PROVE  Nat \subseteq T
<1>. SUFFICES ASSUME NEW k \in Nat PROVE k \in T
  OBVIOUS
<1>. DEFINE D == 1 .. k
            Q == {S \in SUBSET D : Cardinality(S) \in T}
<1>1. IsFiniteSet(D) /\ Cardinality(D) = k
  BY FS_Interval
<1>2. {} \in Q
  BY FS_EmptySet
<1>3. ASSUME NEW S \in SUBSET D, S # {}, \A x \in S : S \ {x} \in Q
      PROVE  S \in Q
  <2>1. PICK x \in S : TRUE
    BY <1>3
  <2>2. IsFiniteSet(S) /\ Cardinality(S) \in Nat
    BY <1>1, FS_Subset, FS_CardinalityType
  <2>3. Cardinality(S \ {x}) = Cardinality(S) - 1 /\ Cardinality(S \ {x}) \in Nat
    BY <2>1, <2>2, FS_RemoveElement, FS_CardinalityType
  <2>. QED
    BY <1>3, <2>1, <2>2, <2>3
<1>4. \A S \in SUBSET D : S \in Q
  <2>. HIDE DEF Q, D
  <2>. QED BY <1>1, <1>2, <1>3, SetInduct
<1>. QED
  BY <1>1, <1>4

-----------------------------------------------------------------------------
(***************************************************************************)
(* Folds over the values of a function: a sum, or a concatenation          *)
(***************************************************************************)
Pick(S) == CHOOSE x \in S : TRUE

IsFold(iter, sum, g, U) ==
    iter = [s \in U |-> IF s = {} THEN IF sum THEN 0 ELSE << >>
                        ELSE IF sum THEN g[Pick(s)] + iter[s \ {Pick(s)}]
                                    ELSE g[Pick(s)] \o iter[s \ {Pick(s)}]]

\* A fold is defined on every subset of a finite domain.
LEMMA FoldOn ==
    ASSUME NEW g, NEW D, IsFiniteSet(D), NEW sum
    PROVE  \E iter : IsFold(iter, sum, g, SUBSET D)
<1>. DEFINE U(n) == {s \in SUBSET D : Cardinality(s) <= n}
            T == {n \in Nat : \E iter : IsFold(iter, sum, g, U(n))}
<1>0. \A s \in SUBSET D : IsFiniteSet(s) /\ Cardinality(s) \in Nat
  BY FS_Subset, FS_CardinalityType
<1>1. 0 \in T
  <2>1. U(0) = {{}}
    BY <1>0, FS_EmptySet
  <2>2. IsFold([s \in {{}} |-> IF sum THEN 0 ELSE << >>], sum, g, {{}})
    BY DEF IsFold
  <2>. QED
    BY <2>1, <2>2
<1>2. ASSUME NEW n \in Nat, n \in T
      PROVE  n + 1 \in T
  <2>1. PICK iter : IsFold(iter, sum, g, U(n))
    BY <1>2
  <2>. DEFINE next == [s \in U(n + 1) |->
                          IF s = {} THEN IF sum THEN 0 ELSE << >>
                          ELSE IF sum THEN g[Pick(s)] + iter[s \ {Pick(s)}]
                                      ELSE g[Pick(s)] \o iter[s \ {Pick(s)}]]
  <2>2. ASSUME NEW s \in U(n + 1), s # {}
        PROVE  s \ {Pick(s)} \in U(n) /\ s \ {Pick(s)} \in U(n + 1)
    <3>1. Pick(s) \in s
      BY <2>2 DEF Pick
    <3>2. Cardinality(s \ {Pick(s)}) = Cardinality(s) - 1
      BY <3>1, <1>0, FS_RemoveElement
    <3>. QED
      BY <1>0, <3>1, <3>2
  <2>3. \A s \in U(n) : s \in U(n + 1)
    BY <1>0
  <2>4. \A s \in U(n) : next[s] = iter[s]
    BY <2>1, <2>3 DEF IsFold
  <2>5. IsFold(next, sum, g, U(n + 1))
    <3>. SUFFICES next = [s \in U(n + 1) |->
                             IF s = {} THEN IF sum THEN 0 ELSE << >>
                             ELSE IF sum THEN g[Pick(s)] + next[s \ {Pick(s)}]
                                         ELSE g[Pick(s)] \o next[s \ {Pick(s)}]]
      BY DEF IsFold
    <3>. HIDE DEF U
    <3>. QED BY <2>2, <2>4
  <2>6. \E it : IsFold(it, sum, g, U(n + 1))
    <3>. HIDE DEF next, U
    <3>. QED BY <2>5
  <2>7. n + 1 \in Nat
    BY <1>2
  <2>. HIDE DEF next, U
  <2>. QED
    BY <2>6, <2>7
<1>3. Nat \subseteq T
  <2>. HIDE DEF T
  <2>. QED BY <1>1, <1>2, NatInduct
<1>4. Cardinality(D) \in T
  BY <1>3, FS_CardinalityType
<1>5. U(Cardinality(D)) = SUBSET D
  BY FS_Subset, <1>0
<1>. QED
  BY <1>4, <1>5

IsConcat(iter, g, D) == IsFold(iter, FALSE, g, SUBSET D)
IsSum(iter, g, D)    == IsFold(iter, TRUE, g, SUBSET D)

\* One step of a concatenation over a set.
LEMMA ConcatSteps ==
    ASSUME NEW iter, NEW g, NEW D, IsConcat(iter, g, D)
    PROVE  /\ iter[{}] = << >>
           /\ \A s \in SUBSET D : s # {} =>
                Pick(s) \in s /\ iter[s] = g[Pick(s)] \o iter[s \ {Pick(s)}]
<1>1. \A s : s # {} => Pick(s) \in s
  BY DEF Pick
<1>. QED
  BY <1>1 DEF IsConcat, IsSum, IsFold

\* One step of a sum over a set.
LEMMA SumSteps ==
    ASSUME NEW iter, NEW g, NEW D, IsSum(iter, g, D)
    PROVE  /\ iter[{}] = 0
           /\ \A s \in SUBSET D : s # {} =>
                Pick(s) \in s /\ iter[s] = g[Pick(s)] + iter[s \ {Pick(s)}]
<1>1. \A s : s # {} => Pick(s) \in s
  BY DEF Pick
<1>. QED
  BY <1>1 DEF IsConcat, IsSum, IsFold

\* Concat is such a concatenation.
LEMMA ConcatFold ==
    ASSUME NEW g, IsFiniteSet(DOMAIN g)
    PROVE  \E iter : /\ IsConcat(iter, g, DOMAIN g)
                     /\ Concat(g) = iter[DOMAIN g]
<1>. DEFINE it == CHOOSE iter : IsConcat(iter, g, DOMAIN g)
<1>1. IsConcat(it, g, DOMAIN g)
  BY FoldOn DEF IsConcat, IsSum
<1>2. \A iter : IsConcat(iter, g, DOMAIN g) <=>
               iter = [s \in SUBSET DOMAIN g |->
                          IF s = {} THEN << >> ELSE g[Pick(s)] \o iter[s \ {Pick(s)}]]
  BY DEF IsConcat, IsSum, IsFold
<1>3. it = CHOOSE iter : iter = [s \in SUBSET DOMAIN g |->
                          IF s = {} THEN << >> ELSE g[Pick(s)] \o iter[s \ {Pick(s)}]]
  BY <1>2
<1>4. Concat(g) = it[DOMAIN g]
  BY <1>3 DEF Concat, FoldFunction, FoldFunctionOnSet, MapThenFoldSet, Pick, Nothing
<1>. QED
  BY <1>1, <1>4

\* SumFunction is such a sum.
LEMMA SumFold ==
    ASSUME NEW g, IsFiniteSet(DOMAIN g)
    PROVE  \E iter : /\ IsSum(iter, g, DOMAIN g)
                     /\ SumFunction(g) = iter[DOMAIN g]
<1>. DEFINE it == CHOOSE iter : IsSum(iter, g, DOMAIN g)
<1>1. IsSum(it, g, DOMAIN g)
  BY FoldOn DEF IsConcat, IsSum
<1>2. \A iter : IsSum(iter, g, DOMAIN g) <=>
               iter = [s \in SUBSET DOMAIN g |->
                          IF s = {} THEN 0 ELSE g[Pick(s)] + iter[s \ {Pick(s)}]]
  BY DEF IsConcat, IsSum, IsFold
<1>3. it = CHOOSE iter : iter = [s \in SUBSET DOMAIN g |->
                          IF s = {} THEN 0 ELSE g[Pick(s)] + iter[s \ {Pick(s)}]]
  BY <1>2
<1>4. SumFunction(g) = it[DOMAIN g]
  BY <1>3 DEF SumFunction, SumFunctionOnSet, FoldFunctionOnSet, MapThenFoldSet, Pick
<1>. QED
  BY <1>1, <1>4

\* Of nothing, nothing.
LEMMA ConcatEmpty ==
    ASSUME NEW g, DOMAIN g = {}
    PROVE  Concat(g) = << >>
<1>1. IsFiniteSet(DOMAIN g)
  BY FS_EmptySet
<1>2. PICK it : IsConcat(it, g, DOMAIN g) /\ Concat(g) = it[DOMAIN g]
  BY <1>1, ConcatFold
<1>3. it[{}] = << >>
  BY <1>2, ConcatSteps
<1>. QED
  BY <1>2, <1>3

\* A concatenation has every property that the parts have and that lasts.
LEMMA ConcatIn ==
    ASSUME NEW g, IsFiniteSet(DOMAIN g), DOMAIN g # {}, NEW W, NEW Q \in SUBSET Seq(W),
           \A c, d \in Q : c \o d \in Q,
           \A x \in DOMAIN g : g[x] \in Q
    PROVE  Concat(g) \in Q
<1>. DEFINE D == DOMAIN g
<1>1. PICK it : IsConcat(it, g, D) /\ Concat(g) = it[D]
  BY ConcatFold
<1>0. /\ it[{}] = << >>
      /\ \A s \in SUBSET D : s # {} =>
            Pick(s) \in s /\ it[s] = g[Pick(s)] \o it[s \ {Pick(s)}]
  BY <1>1, ConcatSteps
<1>. DEFINE T == {S \in SUBSET D : S = {} \/ it[S] \in Q}
<1>2. {} \in T
  OBVIOUS
<1>3. ASSUME NEW S \in SUBSET D, S # {}, \A x \in S : S \ {x} \in T
      PROVE  S \in T
  <2>1. Pick(S) \in S /\ it[S] = g[Pick(S)] \o it[S \ {Pick(S)}]
    BY <1>0, <1>3
  <2>2. g[Pick(S)] \in Q /\ g[Pick(S)] \in Seq(W)
    BY <2>1
  <2>3. CASE S \ {Pick(S)} = {}
    <3>1. it[S] = g[Pick(S)]
      <4>. DEFINE c == g[Pick(S)]
      <4>1. c \in Seq(W) /\ it[S] = c \o << >>
        BY <1>0, <2>1, <2>2, <2>3
      <4>. HIDE DEF c
      <4>2. c \o << >> = c
        BY <4>1
      <4>. QED BY <4>1, <4>2 DEF c
    <3>. QED BY <2>2, <3>1
  <2>4. CASE S \ {Pick(S)} # {}
    BY <1>3, <2>1, <2>2, <2>4
  <2>. QED
    BY <2>3, <2>4
<1>4. \A S \in SUBSET D : S \in T
  <2>. HIDE DEF T
  <2>. QED BY <1>2, <1>3, SetInduct
<1>. QED
  BY <1>1, <1>4

\* Of functions that agree on a set, the folds do.
LEMMA FoldsAgree ==
    ASSUME NEW i, NEW g, NEW D, IsSum(i, g, D),
           NEW j, NEW h, NEW E, IsSum(j, h, E),
           NEW C, IsFiniteSet(C), C \subseteq D, C \subseteq E,
           \A x \in C : g[x] = h[x]
    PROVE  i[C] = j[C]
<1>. DEFINE T == {S \in SUBSET C : i[S] = j[S]}
<1>0. /\ i[{}] = 0
      /\ \A s \in SUBSET D : s # {} =>
            Pick(s) \in s /\ i[s] = g[Pick(s)] + i[s \ {Pick(s)}]
  BY SumSteps
<1>1. /\ j[{}] = 0
      /\ \A s \in SUBSET E : s # {} =>
            Pick(s) \in s /\ j[s] = h[Pick(s)] + j[s \ {Pick(s)}]
  BY SumSteps
<1>2. {} \in T
  BY <1>0, <1>1
<1>3. ASSUME NEW S \in SUBSET C, S # {}, \A x \in S : S \ {x} \in T
      PROVE  S \in T
  <2>1. Pick(S) \in S /\ i[S] = g[Pick(S)] + i[S \ {Pick(S)}]
    BY <1>3, <1>0
  <2>2. j[S] = h[Pick(S)] + j[S \ {Pick(S)}]
    BY <1>3, <1>1
  <2>. QED
    BY <1>3, <2>1, <2>2
<1>4. \A S \in SUBSET C : S \in T
  <2>. HIDE DEF T
  <2>. QED BY <1>2, <1>3, SetInduct
<1>. QED
  BY <1>4

\* A sum does not depend on the order of its terms.
LEMMA SumOrder ==
    ASSUME NEW i, NEW g, NEW D, IsFiniteSet(D), IsSum(i, g, D),
           \A x \in D : g[x] \in Nat
    PROVE  \A S \in SUBSET D : i[S] \in Nat /\ \A x \in S : i[S] = g[x] + i[S \ {x}]
<1>0. /\ i[{}] = 0
      /\ \A s \in SUBSET D : s # {} =>
            Pick(s) \in s /\ i[s] = g[Pick(s)] + i[s \ {Pick(s)}]
  BY SumSteps
<1>. DEFINE N == {S \in SUBSET D : i[S] \in Nat}
            T == {S \in SUBSET D : \A x \in S : i[S] = g[x] + i[S \ {x}]}
<1>1. {} \in N /\ {} \in T
  BY <1>0
<1>2. ASSUME NEW S \in SUBSET D, S # {}, \A x \in S : S \ {x} \in N
      PROVE  S \in N
  <2>1. PICK p \in S : i[S] = g[p] + i[S \ {p}]
    BY <1>0, <1>2
  <2>2. g[p] \in Nat /\ i[S \ {p}] \in Nat
    BY <1>2
  <2>. QED
    BY <2>1, <2>2
<1>3. \A S \in SUBSET D : i[S] \in Nat
  <2>1. \A S \in SUBSET D : S \in N
    <3>. HIDE DEF N
    <3>. QED BY <1>1, <1>2, SetInduct
  <2>. QED
    BY <2>1
<1>4. ASSUME NEW S \in SUBSET D, S # {}, \A x \in S : S \ {x} \in T
      PROVE  S \in T
  <2>1. PICK p \in S : i[S] = g[p] + i[S \ {p}]
    BY <1>0, <1>4
  <2>2. ASSUME NEW x \in S, x # p
        PROVE  i[S] = g[x] + i[S \ {x}]
    <3>. DEFINE rest == S \ {p, x}
    <3>1. (S \ {p}) \ {x} = rest /\ (S \ {x}) \ {p} = rest
      OBVIOUS
    <3>2. i[S \ {p}] = g[x] + i[rest]
      BY <1>4, <2>2, <3>1
    <3>3. i[S \ {x}] = g[p] + i[rest]
      BY <1>4, <2>2, <3>1
    <3>4. i[rest] \in Nat /\ g[x] \in Nat /\ g[p] \in Nat
      BY <1>3
    <3>. HIDE DEF rest
    <3>. QED
      BY <2>1, <3>2, <3>3, <3>4
  <2>. QED
    BY <2>1, <2>2
<1>5. \A S \in SUBSET D : S \in T
  <2>. HIDE DEF T
  <2>. QED BY <1>1, <1>4, SetInduct
<1>. QED
  BY <1>3, <1>5

\* So that it gains what a value gains.
LEMMA SumAssign ==
    ASSUME NEW g, IsFiniteSet(DOMAIN g), \A x \in DOMAIN g : g[x] \in Nat,
           NEW n, NEW v \in Nat
    PROVE  /\ SumFunction(g) \in Nat
           /\ SumFunction(Assign(g, n, v)) =
                 SumFunction(g) + v - (IF n \in DOMAIN g THEN g[n] ELSE 0)
<1>. DEFINE D == DOMAIN g
            E == D \cup {n}
            h == Assign(g, n, v)
<1>1. DOMAIN h = E /\ h[n] = v /\ (\A x \in D \ {n} : h[x] = g[x]) /\ (\A x \in E : h[x] \in Nat)
  BY DEF Assign
<1>2. IsFiniteSet(D) /\ IsFiniteSet(E) /\ IsFiniteSet(D \ {n})
  BY FS_AddElement, FS_RemoveElement
<1>3. PICK i : IsSum(i, g, D) /\ SumFunction(g) = i[D]
  BY SumFold
<1>4. PICK j : IsSum(j, h, E) /\ SumFunction(h) = j[E]
  BY <1>1, <1>2, SumFold
<1>. HIDE DEF h
<1>5. \A S \in SUBSET D : i[S] \in Nat /\ \A x \in S : i[S] = g[x] + i[S \ {x}]
  <2>1. \A x \in D : g[x] \in Nat
    OBVIOUS
  <2>. HIDE DEF D
  <2>. QED BY <1>2, <1>3, <2>1, SumOrder
<1>6. \A S \in SUBSET E : j[S] \in Nat /\ \A x \in S : j[S] = h[x] + j[S \ {x}]
  <2>1. \A x \in E : h[x] \in Nat
    BY <1>1
  <2>. HIDE DEF E
  <2>. QED BY <1>2, <1>4, <2>1, SumOrder
<1>7. i[D \ {n}] = j[D \ {n}]
  <2>. DEFINE C == D \ {n}
  <2>1. C \subseteq D
    OBVIOUS
  <2>2. C \subseteq E
    OBVIOUS
  <2>4. \A x \in C : g[x] = h[x]
    BY <1>1
  <2>5. IsFiniteSet(C)
    BY <1>2
  <2>6. IsSum(i, g, D)
    BY <1>3
  <2>7. IsSum(j, h, E)
    BY <1>4
  <2>. HIDE DEF C, D, E
  <2>3. i[C] = j[C]
    BY <2>1, <2>2, <2>4, <2>5, <2>6, <2>7, FoldsAgree
  <2>. QED BY <2>3 DEF C
<1>8. E \ {n} = D \ {n} /\ n \in E
  OBVIOUS
<1>9. j[E] = v + i[D \ {n}]
  <2>. HIDE DEF E
  <2>1. j[E] = h[n] + j[E \ {n}]
    BY <1>6, <1>8
  <2>. QED BY <1>1, <1>7, <1>8, <2>1
<1>10. CASE n \in D
  <2>1. i[D] = g[n] + i[D \ {n}]
    BY <1>5, <1>10
  <2>2. i[D] \in Nat /\ i[D \ {n}] \in Nat /\ g[n] \in Nat
    BY <1>5, <1>10
  <2>. QED
    BY <1>3, <1>4, <1>9, <1>10, <2>1, <2>2 DEF h
<1>11. CASE n \notin D
  <2>1. D \ {n} = D /\ i[D] \in Nat
    BY <1>5, <1>11
  <2>. QED
    BY <1>3, <1>4, <1>9, <1>11, <2>1 DEF h
<1>. QED
  BY <1>10, <1>11

\* The length of a concatenation is the sum of the lengths.
LEMMA ConcatLen ==
    ASSUME NEW g, IsFiniteSet(DOMAIN g), NEW S, \A x \in DOMAIN g : g[x] \in Seq(S)
    PROVE  /\ Concat(g) \in Seq(S)
           /\ Len(Concat(g)) = SumFunction([x \in DOMAIN g |-> Len(g[x])])
<1>. DEFINE D == DOMAIN g
            l == [x \in D |-> Len(g[x])]
<1>1. PICK i : IsConcat(i, g, D) /\ Concat(g) = i[D]
  BY ConcatFold
<1>2. DOMAIN l = D /\ \A x \in D : l[x] = Len(g[x])
  OBVIOUS
<1>3. PICK j : IsSum(j, l, D) /\ SumFunction(l) = j[D]
  <2>. HIDE DEF l
  <2>. QED BY <1>2, SumFold
<1>. HIDE DEF D
<1>0. /\ i[{}] = << >>
      /\ \A s \in SUBSET D : s # {} =>
            Pick(s) \in s /\ i[s] = g[Pick(s)] \o i[s \ {Pick(s)}]
  BY <1>1, ConcatSteps
<1>00. /\ j[{}] = 0
       /\ \A s \in SUBSET D : s # {} =>
             Pick(s) \in s /\ j[s] = l[Pick(s)] + j[s \ {Pick(s)}]
  BY <1>3, SumSteps
<1>. DEFINE T == {U \in SUBSET D : i[U] \in Seq(S) /\ Len(i[U]) = j[U]}
<1>. HIDE DEF l
<1>4. {} \in T
  BY <1>0, <1>00, EmptySeq
<1>5. ASSUME NEW U \in SUBSET D, U # {}, \A x \in U : U \ {x} \in T
      PROVE  U \in T
  <2>1. Pick(U) \in U /\ i[U] = g[Pick(U)] \o i[U \ {Pick(U)}]
    BY <1>0, <1>5
  <2>2. j[U] = l[Pick(U)] + j[U \ {Pick(U)}]
    BY <1>00, <1>5
  <2>3. Pick(U) \in D /\ g[Pick(U)] \in Seq(S) /\ i[U \ {Pick(U)}] \in Seq(S) /\ Len(i[U \ {Pick(U)}]) = j[U \ {Pick(U)}]
    BY <1>5, <2>1 DEF D
  <2>4. i[U] \in Seq(S) /\ Len(i[U]) = Len(g[Pick(U)]) + Len(i[U \ {Pick(U)}])
    <3>. DEFINE c == g[Pick(U)]
                d == i[U \ {Pick(U)}]
    <3>1. c \in Seq(S) /\ d \in Seq(S) /\ i[U] = c \o d
      BY <2>1, <2>3
    <3>. HIDE DEF c, d
    <3>2. i[U] \in Seq(S) /\ Len(i[U]) = Len(c) + Len(d)
      BY <3>1, ConcatProperties
    <3>. QED
      BY <3>2 DEF c, d
  <2>. QED
    BY <1>2, <2>1, <2>2, <2>3, <2>4
<1>6. \A U \in SUBSET D : U \in T
  <2>. HIDE DEF T
  <2>. QED BY <1>4, <1>5, SetInduct DEF D
<1>. QED
  BY <1>1, <1>3, <1>6 DEF l, D

\* The elements of an array one after the other.
IsFlat(f, g) ==
    f = [i \in 1 .. Len(g) |-> IF i = 1 THEN g[i] ELSE f[i - 1] \o g[i]]

\* There is a function that concatenates the elements of a sequence in order.
LEMMA FlatExists ==
    ASSUME NEW g, Len(g) \in Nat
    PROVE  \E f : IsFlat(f, g)
<1>. DEFINE F(n, f) == f = [i \in 1 .. n |-> IF i = 1 THEN g[i] ELSE f[i - 1] \o g[i]]
            T == {n \in Nat : \E f : F(n, f)}
<1>1. 0 \in T
  <2>1. F(0, << >>)
    OBVIOUS
  <2>. QED BY <2>1
<1>2. ASSUME NEW n \in Nat, n \in T
      PROVE  n + 1 \in T
  <2>1. PICK f : F(n, f)
    BY <1>2
  <2>. DEFINE h == [i \in 1 .. n + 1 |-> IF i = 1 THEN g[i] ELSE f[i - 1] \o g[i]]
  <2>2. \A i \in 1 .. n : h[i] = f[i]
    <3>1. \A i \in 1 .. n : i \in 1 .. n + 1
      OBVIOUS
    <3>2. \A i \in 1 .. n : h[i] = IF i = 1 THEN g[i] ELSE f[i - 1] \o g[i]
      BY <3>1
    <3>3. \A i \in 1 .. n : f[i] = IF i = 1 THEN g[i] ELSE f[i - 1] \o g[i]
      BY <2>1
    <3>. HIDE DEF h
    <3>. QED BY <3>2, <3>3
  <2>3. F(n + 1, h)
    <3>1. \A i \in 1 .. n + 1 : i # 1 => i - 1 \in 1 .. n
      OBVIOUS
    <3>. QED BY <2>2, <3>1
  <2>4. \E x : F(n + 1, x)
    <3>. HIDE DEF h, F
    <3>. QED BY <2>3
  <2>. HIDE DEF F
  <2>. QED BY <2>4, <1>2
<1>3. Nat \subseteq T
  <2>. HIDE DEF T
  <2>. QED BY <1>1, <1>2, NatInduct
<1>. QED
  BY <1>3 DEF IsFlat

\* FlattenSeq is such a function at the length of the sequence.
LEMMA Flatten ==
    ASSUME NEW g, Len(g) \in Nat \ {0}
    PROVE  \E f : /\ FlattenSeq(g) = f[Len(g)] /\ f[1] = g[1]
                  /\ \A i \in 1 .. Len(g) - 1 : f[i + 1] = f[i] \o g[i + 1]
<1>. DEFINE f == CHOOSE f : IsFlat(f, g)
<1>1. IsFlat(f, g)
  BY FlatExists
<1>2. FlattenSeq(g) = f[Len(g)]
  BY DEF FlattenSeq, IsFlat
<1>. HIDE DEF f
<1>3. f[1] = g[1] /\ \A i \in 1 .. Len(g) - 1 : f[i + 1] = f[i] \o g[i + 1]
  <2>1. \A i \in 1 .. Len(g) - 1 : i + 1 \in 1 .. Len(g) /\ i + 1 # 1 /\ (i + 1) - 1 = i
    OBVIOUS
  <2>2. 1 \in 1 .. Len(g)
    OBVIOUS
  <2>. QED BY <1>1, <2>1, <2>2 DEF IsFlat
<1>. QED
  BY <1>2, <1>3

\* What is kept by concatenation and holds of each piece holds of all together.
LEMMA FlattenIn ==
    ASSUME NEW g, Len(g) \in Nat \ {0}, NEW Q,
           \A c, d \in Q : c \o d \in Q,
           \A i \in 1 .. Len(g) : g[i] \in Q
    PROVE  FlattenSeq(g) \in Q
<1>1. PICK f : /\ FlattenSeq(g) = f[Len(g)] /\ f[1] = g[1]
               /\ \A i \in 1 .. Len(g) - 1 : f[i + 1] = f[i] \o g[i + 1]
  BY Flatten
<1>. DEFINE T == {n \in Nat : n + 1 \in 1 .. Len(g) => f[n + 1] \in Q}
<1>2. 0 \in T
  BY <1>1
<1>3. ASSUME NEW n \in Nat, n \in T
      PROVE  n + 1 \in T
  <2>. SUFFICES ASSUME (n + 1) + 1 \in 1 .. Len(g) PROVE f[(n + 1) + 1] \in Q
    BY <1>3
  <2>1. n + 1 \in 1 .. Len(g) - 1 /\ n + 1 \in 1 .. Len(g)
    OBVIOUS
  <2>2. f[(n + 1) + 1] = f[n + 1] \o g[(n + 1) + 1]
    BY <1>1, <2>1
  <2>. QED
    BY <1>3, <2>1, <2>2
<1>4. Nat \subseteq T
  <2>. HIDE DEF T
  <2>. QED BY <1>2, <1>3, NatInduct
<1>5. Len(g) - 1 \in T
  BY <1>4
<1>. QED
  BY <1>1, <1>5

\* The length of pieces one after the other is the sum of theirs.
LEMMA FlattenLen ==
    ASSUME NEW g, Len(g) \in Nat \ {0}, DOMAIN g = 1 .. Len(g),
           NEW S, \A i \in 1 .. Len(g) : g[i] \in Seq(S)
    PROVE  /\ FlattenSeq(g) \in Seq(S)
           /\ Len(FlattenSeq(g)) = SumFunction([i \in DOMAIN g |-> Len(g[i])])
<1>1. PICK f : /\ FlattenSeq(g) = f[Len(g)] /\ f[1] = g[1]
               /\ \A i \in 1 .. Len(g) - 1 : f[i + 1] = f[i] \o g[i + 1]
  BY Flatten
<1>. DEFINE D == 1 .. Len(g)
            l == [i \in D |-> Len(g[i])]
<1>2. IsFiniteSet(D) /\ DOMAIN l = D
  BY FS_Interval
<1>3. PICK j : IsSum(j, l, D) /\ SumFunction(l) = j[D]
  <2>. HIDE DEF l
  <2>. QED BY <1>2, SumFold
<1>4. \A i \in D : l[i] \in Nat
  BY LenProperties
<1>5. \A U \in SUBSET D : j[U] \in Nat /\ \A x \in U : j[U] = l[x] + j[U \ {x}]
  <2>1. IsFiniteSet(D)
    BY <1>2
  <2>2. IsSum(j, l, D)
    BY <1>3
  <2>. HIDE DEF l, D
  <2>. QED BY <2>1, <2>2, <1>4, SumOrder
<1>6. j[{}] = 0
  <2>. HIDE DEF l
  <2>. QED BY <1>3, SumSteps
<1>. DEFINE T == {n \in Nat : n + 1 \in D => f[n + 1] \in Seq(S) /\ Len(f[n + 1]) = j[1 .. n + 1]}
<1>7. 0 \in T
  <2>1. 1 .. 0 + 1 = {1} /\ {1} \ {1} = {} /\ {1} \in SUBSET D /\ 1 \in D
    OBVIOUS
  <2>2. j[{1}] = l[1] + j[{}]
    BY <1>5, <2>1
  <2>. QED
    BY <1>1, <1>4, <1>6, <2>1, <2>2
<1>8. ASSUME NEW n \in Nat, n \in T
      PROVE  n + 1 \in T
  <2>. DEFINE k == n + 1
  <2>. SUFFICES ASSUME k + 1 \in D
                PROVE  f[k + 1] \in Seq(S) /\ Len(f[k + 1]) = j[1 .. k + 1]
    BY <1>8
  <2>1. k \in 1 .. Len(g) - 1 /\ k \in D
    OBVIOUS
  <2>2. f[k + 1] = f[k] \o g[k + 1]
    BY <1>1, <2>1
  <2>3. f[k] \in Seq(S) /\ Len(f[k]) = j[1 .. k]
    BY <1>8, <2>1
  <2>4. (1 .. k + 1) \ {k + 1} = 1 .. k /\ (1 .. k + 1) \in SUBSET D /\ k + 1 \in 1 .. k + 1
    OBVIOUS
  <2>5. j[1 .. k + 1] = l[k + 1] + j[1 .. k]
    <3>. HIDE DEF l, k, D
    <3>. QED BY <1>5, <2>4
  <2>6. f[k + 1] \in Seq(S) /\ Len(f[k + 1]) = Len(f[k]) + Len(g[k + 1])
    <3>. DEFINE c == f[k]
                d == g[k + 1]
    <3>1. c \in Seq(S) /\ d \in Seq(S) /\ f[k + 1] = c \o d
      BY <2>2, <2>3
    <3>. HIDE DEF c, d, k
    <3>2. f[k + 1] \in Seq(S) /\ Len(f[k + 1]) = Len(c) + Len(d)
      BY <3>1, ConcatProperties
    <3>. QED BY <3>2 DEF c, d
  <2>7. l[k + 1] = Len(g[k + 1]) /\ l[k + 1] \in Nat /\ j[1 .. k] \in Nat
    <3>1. 1 .. k \in SUBSET D
      OBVIOUS
    <3>. QED BY <1>4, <1>5, <3>1
  <2>. HIDE DEF l, k
  <2>. QED
    BY <2>3, <2>5, <2>6, <2>7
<1>9. Nat \subseteq T
  <2>. HIDE DEF T
  <2>. QED BY <1>7, <1>8, NatInduct
<1>10. Len(g) - 1 \in T /\ (Len(g) - 1) + 1 = Len(g) /\ Len(g) \in D
  BY <1>9
<1>11. f[Len(g)] \in Seq(S) /\ Len(f[Len(g)]) = j[D]
  <2>. DEFINE n == Len(g) - 1
  <2>1. n \in T /\ n + 1 = Len(g)
    BY <1>10
  <2>. HIDE DEF n, l
  <2>. QED BY <1>10, <2>1
<1>12. SumFunction([i \in DOMAIN g |-> Len(g[i])]) = j[D]
  BY <1>3
<1>. QED
  BY <1>1, <1>11, <1>12

\* Strings are two parts each: repeated fields are as long as compute_size says.
LEMMA FlattenTwos ==
    ASSUME NEW g, Len(g) \in Nat \ {0}, NEW S,
           \A i \in 1 .. Len(g) : g[i] \in Seq(S) /\ Len(g[i]) = 2
    PROVE  Len(FlattenSeq(g)) = 2 * Len(g)
<1>1. PICK f : /\ FlattenSeq(g) = f[Len(g)] /\ f[1] = g[1]
               /\ \A i \in 1 .. Len(g) - 1 : f[i + 1] = f[i] \o g[i + 1]
  BY Flatten
<1>. DEFINE T == {n \in Nat : n + 1 \in 1 .. Len(g) =>
                                 f[n + 1] \in Seq(S) /\ Len(f[n + 1]) = 2 * (n + 1)}
<1>2. 0 \in T
  <2>1. 1 \in 1 .. Len(g) /\ 0 + 1 = 1 /\ 2 * 1 = 2
    OBVIOUS
  <2>. QED BY <1>1, <2>1
<1>3. ASSUME NEW n \in Nat, n \in T
      PROVE  n + 1 \in T
  <2>. DEFINE k == n + 1
  <2>. SUFFICES ASSUME k + 1 \in 1 .. Len(g)
                PROVE  f[k + 1] \in Seq(S) /\ Len(f[k + 1]) = 2 * (k + 1)
    BY <1>3
  <2>1. k \in 1 .. Len(g) - 1 /\ k \in 1 .. Len(g) /\ k \in Nat
    OBVIOUS
  <2>. DEFINE c == f[k]
              d == g[k + 1]
  <2>2. f[k + 1] = c \o d
    BY <1>1, <2>1
  <2>3. c \in Seq(S) /\ Len(c) = 2 * k
    BY <1>3, <2>1
  <2>4. d \in Seq(S) /\ Len(d) = 2
    OBVIOUS
  <2>. HIDE DEF c, d, k
  <2>5. c \o d \in Seq(S) /\ Len(c \o d) = Len(c) + Len(d)
    BY <2>3, <2>4, ConcatProperties
  <2>. QED
    BY <2>1, <2>2, <2>3, <2>4, <2>5
<1>4. Nat \subseteq T
  <2>. HIDE DEF T
  <2>. QED BY <1>2, <1>3, NatInduct
<1>5. Len(g) - 1 \in Nat /\ (Len(g) - 1) + 1 = Len(g) /\ Len(g) \in 1 .. Len(g)
  OBVIOUS
<1>6. Len(f[Len(g)]) = 2 * Len(g)
  <2>. DEFINE n == Len(g) - 1
  <2>1. n \in T /\ n + 1 = Len(g)
    <3>. HIDE DEF T
    <3>. QED BY <1>4, <1>5
  <2>. HIDE DEF n
  <2>. QED BY <1>5, <2>1
<1>. QED
  BY <1>1, <1>6

-----------------------------------------------------------------------------
(***************************************************************************)
(* What is read                                                            *)
(***************************************************************************)
Flat == {"scalar", "repeated", "packed"}
Deep == {"message", "messages", "map"}

\* The fields of a type that the program knows that reads hop h, if the relay lacks L.
Known(L, h) == [t \in DOMAIN ours |-> {f \in DOMAIN ours[t] : h # 1 \/ <<t, f>> \notin L}]

\* The field that a tag stands for.
Hit(K, t, tag) == {f \in K[t] : Matches(ours[t][f], tag)}

\* What an older program wrote under the number of a field is of that field.
Fair(t, f) ==
    earlier /\ type # "NetworkDeviceList" =>
        \A g \in DOMAIN theirs[t] :
            theirs[t][g].num = ours[t][f].num => theirs[t][g] = ours[t][f]

\* A tag and the parts that it announces.
IsItem(tag, parts) ==
    /\ tag \in Part /\ "num" \in DOMAIN tag
    /\ parts \in Seq(Part) /\ Len(parts) = Extent(tag) - 1

Item(tag, parts) == <<tag>> \o parts

\* What a field without messages in it gets from an item.
ScalarValue(field, tag, parts, old) ==
    LET one == IF tag.wt = "len" THEN parts[1].raw ELSE tag.v
        raws == [i \in 1 .. tag.v |-> parts[i].raw]
    IN  CASE field.kind = "scalar"   -> one
          [] field.kind = "repeated" -> Append(old, one)
          [] field.kind = "packed"   -> IF tag.wt = "len" THEN old \o raws
                                        ELSE Append(old, tag.v)

\* An item that makes m of a message and that no call is made for; in an entry of a
\* map, what is not known is dropped.
Passes(K, tag, parts, way, m, n) ==
    /\ m.type \in DOMAIN ours
    /\ \/ /\ Hit(K, m.type, tag) = {}
          /\ n = IF way = "entry" THEN m ELSE Keep(m, tag.num, Item(tag, parts))
       \/ \E f : /\ Hit(K, m.type, tag) = {f} /\ (way = "message" => Fair(m.type, f))
                 /\ ours[m.type][f].kind \in Flat
                 /\ ours[m.type][f].kind # "packed" /\ tag.wt = "len" => Len(parts) >= 1
                 /\ n = With(m, f, ScalarValue(ours[m.type][f], tag, parts, Old(m, f)))

\* One that is a message, or an entry, of a field.
Enters(K, tag, way, m, f) ==
    /\ m.type \in DOMAIN ours
    /\ Hit(K, m.type, tag) = {f} /\ (way = "message" => Fair(m.type, f))
    /\ ours[m.type][f].kind \in Deep
    /\ ours[m.type][f].kind = "map" => "value" \in DOMAIN ours[ours[m.type][f].type]

Way(field) == IF field.kind = "map" THEN "entry" ELSE "message"

Start(field) == IF field.kind = "map" THEN NewEntry(field.type) ELSE default_instance(field.type)

Stored(m, f, x) == With(m, f, Store(Old(m, f), ours[m.type][f], x))

\* A set of readings: of parts, into a message or an entry, that was m and is n then;
\* it has the readings of all that these are made of.
Sound(K, R) ==
    \A r \in R :
        /\ r[1] \in Seq(Part)
        /\ \/ r[1] = << >> /\ r[3] = r[4]
           \/ \E tag, parts, rest :
                 /\ IsItem(tag, parts) /\ rest \in Seq(Part)
                 /\ r[1] = Item(tag, parts) \o rest
                 /\ \/ \E n : /\ Passes(K, tag, parts, r[2], r[3], n)
                              /\ <<rest, r[2], n, r[4]>> \in R
                    \/ \E f, x :
                          /\ Enters(K, tag, r[2], r[3], f)
                          /\ <<parts, Way(ours[r[3].type][f]), Start(ours[r[3].type][f]), x>> \in R
                          /\ <<rest, r[2], Stored(r[3], f, x), r[4]>> \in R

ReadsTo(K, c, way, m, n) == \E R : Sound(K, R) /\ <<c, way, m, n>> \in R

\* Two sets of readings that are sound are sound together.
LEMMA SoundUnion ==
    ASSUME NEW K, NEW Q, NEW R, Sound(K, Q), Sound(K, R)
    PROVE  Sound(K, Q \cup R)
<1>. SUFFICES ASSUME NEW r \in Q \cup R
     PROVE  /\ r[1] \in Seq(Part)
            /\ \/ r[1] = << >> /\ r[3] = r[4]
               \/ \E tag, parts, rest :
                     /\ IsItem(tag, parts) /\ rest \in Seq(Part)
                     /\ r[1] = Item(tag, parts) \o rest
                     /\ \/ \E n : /\ Passes(K, tag, parts, r[2], r[3], n)
                                  /\ <<rest, r[2], n, r[4]>> \in Q \cup R
                        \/ \E f, x :
                              /\ Enters(K, tag, r[2], r[3], f)
                              /\ <<parts, Way(ours[r[3].type][f]), Start(ours[r[3].type][f]), x>>
                                    \in Q \cup R
                              /\ <<rest, r[2], Stored(r[3], f, x), r[4]>> \in Q \cup R
  BY DEF Sound
<1>1. CASE r \in Q
  BY <1>1, Zenon DEF Sound
<1>2. CASE r \in R
  BY <1>2, Zenon DEF Sound
<1>. QED
  BY <1>1, <1>2

\* Readings and one more, made of those.
LEMMA SoundMore ==
    ASSUME NEW K, NEW R, Sound(K, R), NEW c \in Seq(Part), NEW way, NEW m, NEW n,
           \/ c = << >> /\ m = n
           \/ \E tag, parts, rest :
                 /\ IsItem(tag, parts) /\ rest \in Seq(Part)
                 /\ c = Item(tag, parts) \o rest
                 /\ \/ \E m2 : /\ Passes(K, tag, parts, way, m, m2)
                               /\ <<rest, way, m2, n>> \in R
                    \/ \E f, x :
                          /\ Enters(K, tag, way, m, f)
                          /\ <<parts, Way(ours[m.type][f]), Start(ours[m.type][f]), x>> \in R
                          /\ <<rest, way, Stored(m, f, x), n>> \in R
    PROVE  Sound(K, R \cup {<<c, way, m, n>>})
<1>. DEFINE r0 == <<c, way, m, n>>
            Q == R \cup {r0}
<1>1. r0[1] = c /\ r0[2] = way /\ r0[3] = m /\ r0[4] = n
  OBVIOUS
<1>2. R \subseteq Q /\ r0 \in Q /\ \A r \in Q : r \in R \/ r = r0
  OBVIOUS
<1>. SUFFICES ASSUME NEW r \in Q
     PROVE  /\ r[1] \in Seq(Part)
            /\ \/ r[1] = << >> /\ r[3] = r[4]
               \/ \E tag, parts, rest :
                     /\ IsItem(tag, parts) /\ rest \in Seq(Part)
                     /\ r[1] = Item(tag, parts) \o rest
                     /\ \/ \E m2 : /\ Passes(K, tag, parts, r[2], r[3], m2)
                                  /\ <<rest, r[2], m2, r[4]>> \in Q
                        \/ \E f, x :
                              /\ Enters(K, tag, r[2], r[3], f)
                              /\ <<parts, Way(ours[r[3].type][f]), Start(ours[r[3].type][f]), x>>
                                    \in Q
                              /\ <<rest, r[2], Stored(r[3], f, x), r[4]>> \in Q
  BY DEF Sound
<1>. HIDE DEF r0, Q
<1>3. CASE r \in R
  <2>1. \A s : s \in R => s \in Q
    BY <1>2
  <2>. QED BY <1>3, <2>1, Zenon DEF Sound
<1>4. CASE r = r0
  <2>1. \A s : s \in R => s \in Q
    BY <1>2
  <2>2. r[1] = c /\ r[2] = way /\ r[3] = m /\ r[4] = n
    BY <1>1, <1>4
  <2>. QED BY <2>1, <2>2, Zenon
<1>. QED
  BY <1>2, <1>3, <1>4

\* Nothing is read.
LEMMA ReadsNil ==
    ASSUME NEW K, NEW way, NEW m
    PROVE  ReadsTo(K, << >>, way, m, m)
<1>1. Sound(K, {<<<< >>, way, m, m>>})
  <2>1. Sound(K, {})
    BY DEF Sound
  <2>2. << >> \in Seq(Part)
    BY EmptySeq
  <2>3. Sound(K, {} \cup {<<<< >>, way, m, m>>})
    BY <2>1, <2>2, SoundMore
  <2>4. {} \cup {<<<< >>, way, m, m>>} = {<<<< >>, way, m, m>>}
    OBVIOUS
  <2>. QED
    BY <2>3, <2>4
<1>. QED
  BY <1>1 DEF ReadsTo

\* An item, and the rest.
LEMMA ReadsPass ==
    ASSUME NEW K, NEW tag, NEW parts, IsItem(tag, parts), NEW rest \in Seq(Part),
           NEW way, NEW m, NEW m2, NEW n,
           Passes(K, tag, parts, way, m, m2), ReadsTo(K, rest, way, m2, n)
    PROVE  ReadsTo(K, Item(tag, parts) \o rest, way, m, n)
<1>1. PICK R : Sound(K, R) /\ <<rest, way, m2, n>> \in R
  BY DEF ReadsTo
<1>. DEFINE c == Item(tag, parts) \o rest
<1>2. c \in Seq(Part)
  BY ConcatProperties DEF IsItem, Item
<1>. HIDE DEF c
<1>3. Sound(K, R \cup {<<c, way, m, n>>})
  BY <1>1, <1>2, SoundMore, Zenon DEF c
<1>4. ReadsTo(K, c, way, m, n)
  BY <1>3 DEF ReadsTo
<1>. QED
  BY <1>4 DEF c

\* To read a message or an entry is to read what is in it, and then the rest.
LEMMA ReadsEnter ==
    ASSUME NEW K, NEW tag, NEW parts, IsItem(tag, parts), NEW rest \in Seq(Part),
           NEW way, NEW m, NEW f, NEW x, NEW n,
           Enters(K, tag, way, m, f),
           ReadsTo(K, parts, Way(ours[m.type][f]), Start(ours[m.type][f]), x),
           ReadsTo(K, rest, way, Stored(m, f, x), n)
    PROVE  ReadsTo(K, Item(tag, parts) \o rest, way, m, n)
<1>1. PICK R : Sound(K, R) /\ <<rest, way, Stored(m, f, x), n>> \in R
  BY DEF ReadsTo
<1>2. PICK Q : Sound(K, Q) /\ <<parts, Way(ours[m.type][f]), Start(ours[m.type][f]), x>> \in Q
  BY DEF ReadsTo
<1>. DEFINE c == Item(tag, parts) \o rest
            P == Q \cup R
<1>3. c \in Seq(Part)
  BY ConcatProperties DEF IsItem, Item
<1>4. Sound(K, P)
  BY <1>1, <1>2, SoundUnion
<1>5. /\ <<rest, way, Stored(m, f, x), n>> \in P
      /\ <<parts, Way(ours[m.type][f]), Start(ours[m.type][f]), x>> \in P
  BY <1>1, <1>2
<1>. HIDE DEF c, P
<1>6. Sound(K, P \cup {<<c, way, m, n>>})
  BY <1>3, <1>4, <1>5, SoundMore, Zenon DEF c
<1>7. ReadsTo(K, c, way, m, n)
  BY <1>6 DEF ReadsTo
<1>. QED
  BY <1>7 DEF c

\* And nothing else.
LEMMA ReadsUnfold ==
    ASSUME NEW K, NEW c, NEW way, NEW m, NEW n, ReadsTo(K, c, way, m, n)
    PROVE  /\ c \in Seq(Part)
           /\ \/ c = << >> /\ m = n
              \/ \E tag, parts, rest :
                    /\ IsItem(tag, parts) /\ rest \in Seq(Part)
                    /\ c = Item(tag, parts) \o rest
                    /\ \/ \E m2 : /\ Passes(K, tag, parts, way, m, m2)
                                  /\ ReadsTo(K, rest, way, m2, n)
                       \/ \E f, x :
                             /\ Enters(K, tag, way, m, f)
                             /\ ReadsTo(K, parts, Way(ours[m.type][f]), Start(ours[m.type][f]), x)
                             /\ ReadsTo(K, rest, way, Stored(m, f, x), n)
<1>1. PICK R : Sound(K, R) /\ <<c, way, m, n>> \in R
  BY DEF ReadsTo
<1>. DEFINE r == <<c, way, m, n>>
<1>2. r[1] = c /\ r[2] = way /\ r[3] = m /\ r[4] = n
  OBVIOUS
<1>3. \A d, w, x, y : <<d, w, x, y>> \in R => ReadsTo(K, d, w, x, y)
  BY <1>1 DEF ReadsTo
<1>4. r \in R
  BY <1>1
<1>. HIDE DEF r
<1>5. /\ r[1] \in Seq(Part)
      /\ \/ r[1] = << >> /\ r[3] = r[4]
         \/ \E tag, parts, rest :
               /\ IsItem(tag, parts) /\ rest \in Seq(Part)
               /\ r[1] = Item(tag, parts) \o rest
               /\ \/ \E m2 : /\ Passes(K, tag, parts, r[2], r[3], m2)
                             /\ <<rest, r[2], m2, r[4]>> \in R
                  \/ \E f, x :
                        /\ Enters(K, tag, r[2], r[3], f)
                        /\ <<parts, Way(ours[r[3].type][f]), Start(ours[r[3].type][f]), x>> \in R
                        /\ <<rest, r[2], Stored(r[3], f, x), r[4]>> \in R
  BY <1>1, <1>4, Zenon DEF Sound
<1>6. /\ c \in Seq(Part)
      /\ \/ c = << >> /\ m = n
         \/ \E tag, parts, rest :
               /\ IsItem(tag, parts) /\ rest \in Seq(Part)
               /\ c = Item(tag, parts) \o rest
               /\ \/ \E m2 : /\ Passes(K, tag, parts, way, m, m2)
                             /\ <<rest, way, m2, n>> \in R
                  \/ \E f, x :
                        /\ Enters(K, tag, way, m, f)
                        /\ <<parts, Way(ours[m.type][f]), Start(ours[m.type][f]), x>> \in R
                        /\ <<rest, way, Stored(m, f, x), n>> \in R
  BY <1>2, <1>5, Zenon
<1>7. CASE c = << >> /\ m = n
  BY <1>6, <1>7
<1>8. CASE ~(c = << >> /\ m = n)
  <2>1. PICK tag, parts, rest :
               /\ IsItem(tag, parts) /\ rest \in Seq(Part)
               /\ c = Item(tag, parts) \o rest
               /\ \/ \E m2 : /\ Passes(K, tag, parts, way, m, m2)
                             /\ <<rest, way, m2, n>> \in R
                  \/ \E f, x :
                        /\ Enters(K, tag, way, m, f)
                        /\ <<parts, Way(ours[m.type][f]), Start(ours[m.type][f]), x>> \in R
                        /\ <<rest, way, Stored(m, f, x), n>> \in R
    BY <1>6, <1>8, Zenon
  <2>2. CASE \E m2 : Passes(K, tag, parts, way, m, m2) /\ <<rest, way, m2, n>> \in R
    <3>1. \E m2 : Passes(K, tag, parts, way, m, m2) /\ ReadsTo(K, rest, way, m2, n)
      BY <1>3, <2>2
    <3>. QED BY <1>6, <2>1, <3>1, Zenon
  <2>3. CASE \E f, x :
                /\ Enters(K, tag, way, m, f)
                /\ <<parts, Way(ours[m.type][f]), Start(ours[m.type][f]), x>> \in R
                /\ <<rest, way, Stored(m, f, x), n>> \in R
    <3>1. \E f, x :
             /\ Enters(K, tag, way, m, f)
             /\ ReadsTo(K, parts, Way(ours[m.type][f]), Start(ours[m.type][f]), x)
             /\ ReadsTo(K, rest, way, Stored(m, f, x), n)
      BY <1>3, <2>3
    <3>. QED BY <1>6, <2>1, <3>1, Zenon
  <2>. QED BY <2>1, <2>2, <2>3
<1>. QED
  BY <1>7, <1>8

\* What is read after each other is read as one.
LEMMA ReadsTrans ==
    ASSUME NEW K, NEW c, NEW d, NEW way, NEW m, NEW x, NEW n,
           ReadsTo(K, c, way, m, x), ReadsTo(K, d, way, x, n)
    PROVE  ReadsTo(K, c \o d, way, m, n)
<1>1. PICK Q : Sound(K, Q) /\ <<c, way, m, x>> \in Q
  BY DEF ReadsTo
<1>2. PICK R : Sound(K, R) /\ <<d, way, x, n>> \in R
  BY DEF ReadsTo
<1>. DEFINE Q0 == {r \in Q : r[2] = way /\ r[4] = x}
            S == {<<r[1] \o d, way, r[3], n>> : r \in Q0}
            P == (Q \cup R) \cup S
<1>3. Sound(K, Q \cup R)
  BY <1>1, <1>2, SoundUnion
<1>4. d \in Seq(Part)
  BY <1>2 DEF Sound
<1>. HIDE DEF P
<1>5. \A q : q \in Q \cup R => q \in P
  BY DEF P
<1>6. \A e, y : <<e, way, y, x>> \in Q => <<e \o d, way, y, n>> \in P
  <2>. SUFFICES ASSUME NEW e, NEW y, <<e, way, y, x>> \in Q
                PROVE  <<e \o d, way, y, n>> \in S
    BY DEF P
  <2>. DEFINE q == <<e, way, y, x>>
  <2>1. q[1] = e /\ q[2] = way /\ q[3] = y /\ q[4] = x /\ q \in Q
    OBVIOUS
  <2>. HIDE DEF q
  <2>2. q \in Q0
    BY <2>1
  <2>. HIDE DEF Q0
  <2>. QED
    BY <2>1, <2>2
<1>7. Sound(K, P)
  <2>. SUFFICES ASSUME NEW r \in P
       PROVE  /\ r[1] \in Seq(Part)
              /\ \/ r[1] = << >> /\ r[3] = r[4]
                 \/ \E tag, parts, rest :
                       /\ IsItem(tag, parts) /\ rest \in Seq(Part)
                       /\ r[1] = Item(tag, parts) \o rest
                       /\ \/ \E m2 : /\ Passes(K, tag, parts, r[2], r[3], m2)
                                    /\ <<rest, r[2], m2, r[4]>> \in P
                          \/ \E f, y :
                                /\ Enters(K, tag, r[2], r[3], f)
                                /\ <<parts, Way(ours[r[3].type][f]), Start(ours[r[3].type][f]), y>>
                                      \in P
                                /\ <<rest, r[2], Stored(r[3], f, y), r[4]>> \in P
    BY DEF Sound
  <2>1. CASE r \in Q \cup R
    <3>. DEFINE U == Q \cup R
    <3>1. r \in U /\ Sound(K, U) /\ \A q : q \in U => q \in P
      BY <2>1, <1>3, <1>5
    <3>. HIDE DEF U
    <3>. QED BY <3>1, Zenon DEF Sound
  <2>2. CASE r \in S
    <3>1. PICK q \in Q : q[2] = way /\ q[4] = x /\ r = <<q[1] \o d, way, q[3], n>>
      BY <2>2
    <3>. DEFINE e == q[1]
                y == q[3]
    <3>2. r[1] = e \o d /\ r[2] = way /\ r[3] = y /\ r[4] = n /\ e \in Seq(Part)
      BY <3>1, <1>1 DEF Sound
    <3>3. r[1] \in Seq(Part)
      BY <3>2, <1>4, ConcatProperties
    <3>4. CASE e = << >> /\ y = x
      <4>1. r[1] = d /\ r[3] = x
        BY <3>2, <3>4, <1>4, EmptySeq
      <4>2. r = <<d, way, x, n>>
        BY <4>1, <3>1, <3>2
      <4>3. r \in Q \cup R
        BY <4>2, <1>2
      <4>. QED BY <2>1, <4>3
    <3>5. CASE \E tag, parts, rest :
                 /\ IsItem(tag, parts) /\ rest \in Seq(Part)
                 /\ e = Item(tag, parts) \o rest
                 /\ \/ \E m2 : /\ Passes(K, tag, parts, way, y, m2)
                               /\ <<rest, way, m2, x>> \in Q
                    \/ \E f, z :
                          /\ Enters(K, tag, way, y, f)
                          /\ <<parts, Way(ours[y.type][f]), Start(ours[y.type][f]), z>> \in Q
                          /\ <<rest, way, Stored(y, f, z), x>> \in Q
      <4>1. PICK tag, parts, rest :
                 /\ IsItem(tag, parts) /\ rest \in Seq(Part)
                 /\ e = Item(tag, parts) \o rest
                 /\ \/ \E m2 : /\ Passes(K, tag, parts, way, y, m2)
                               /\ <<rest, way, m2, x>> \in Q
                    \/ \E f, z :
                          /\ Enters(K, tag, way, y, f)
                          /\ <<parts, Way(ours[y.type][f]), Start(ours[y.type][f]), z>> \in Q
                          /\ <<rest, way, Stored(y, f, z), x>> \in Q
        BY <3>5, Zenon
      <4>2. Item(tag, parts) \in Seq(Part)
        BY <4>1, ConcatProperties DEF Item, IsItem
      <4>3. e \o d = Item(tag, parts) \o (rest \o d) /\ rest \o d \in Seq(Part)
        <5>. DEFINE i == Item(tag, parts)
        <5>1. i \in Seq(Part) /\ rest \in Seq(Part) /\ d \in Seq(Part) /\ e = i \o rest
          BY <4>1, <4>2, <1>4
        <5>. HIDE DEF i, e
        <5>2. (i \o rest) \o d = i \o (rest \o d)
          BY <5>1
        <5>. QED BY <5>1, <5>2, ConcatProperties DEF i
      <4>4. \A q1 : q1 \in Q => q1 \in P
        BY <1>5
      <4>. HIDE DEF e, y
      <4>5. \/ \E m2 : /\ Passes(K, tag, parts, way, y, m2)
                       /\ <<rest \o d, way, m2, n>> \in P
            \/ \E f, z :
                  /\ Enters(K, tag, way, y, f)
                  /\ <<parts, Way(ours[y.type][f]), Start(ours[y.type][f]), z>> \in P
                  /\ <<rest \o d, way, Stored(y, f, z), n>> \in P
        BY <4>1, <1>6, <4>4, Zenon
      <4>6. rest \o d \in Seq(Part) /\ IsItem(tag, parts) /\ r[1] = Item(tag, parts) \o (rest \o d)
        BY <4>1, <4>3, <3>2
      <4>. QED BY <3>2, <3>3, <4>5, <4>6, Zenon
    <3>6. (e = << >> /\ y = x) \/
             \E tag, parts, rest :
                 /\ IsItem(tag, parts) /\ rest \in Seq(Part)
                 /\ e = Item(tag, parts) \o rest
                 /\ \/ \E m2 : /\ Passes(K, tag, parts, way, y, m2)
                               /\ <<rest, way, m2, x>> \in Q
                    \/ \E f, z :
                          /\ Enters(K, tag, way, y, f)
                          /\ <<parts, Way(ours[y.type][f]), Start(ours[y.type][f]), z>> \in Q
                          /\ <<rest, way, Stored(y, f, z), x>> \in Q
      BY <3>1, <1>1, Zenon DEF Sound
    <3>. QED
      BY <3>4, <3>5, <3>6
  <2>. QED
    BY <2>1, <2>2 DEF P
<1>8. <<c \o d, way, m, n>> \in P
  BY <1>1, <1>6
<1>. QED
  BY <1>7, <1>8 DEF ReadsTo

-----------------------------------------------------------------------------
(***************************************************************************)
(* Pieces of a message, in any order or one after the other                *)
(***************************************************************************)
LEMMA ConcatReads ==
    ASSUME NEW K, NEW g, IsFiniteSet(DOMAIN g), NEW way, NEW st,
           \A x \in DOMAIN g : \A T \in SUBSET DOMAIN g :
              x \notin T => ReadsTo(K, g[x], way, st[T], st[T \cup {x}])
    PROVE  ReadsTo(K, Concat(g), way, st[{}], st[DOMAIN g])
<1>. DEFINE D == DOMAIN g
<1>1. PICK it : IsConcat(it, g, D) /\ Concat(g) = it[D]
  BY ConcatFold
<1>0. /\ it[{}] = << >>
      /\ \A s \in SUBSET D : s # {} =>
            Pick(s) \in s /\ it[s] = g[Pick(s)] \o it[s \ {Pick(s)}]
  BY <1>1, ConcatSteps
<1>. DEFINE P == {S \in SUBSET D : \A T \in SUBSET D : T \cap S = {} =>
                                      ReadsTo(K, it[S], way, st[T], st[T \cup S])}
<1>2. {} \in P
  <2>1. \A T \in SUBSET D : ReadsTo(K, << >>, way, st[T], st[T \cup {}])
    BY ReadsNil
  <2>. QED BY <1>0, <2>1
<1>3. ASSUME NEW S \in SUBSET D, S # {}, \A x \in S : S \ {x} \in P
      PROVE  S \in P
  <2>. DEFINE p == Pick(S)
  <2>1. p \in S /\ it[S] = g[p] \o it[S \ {p}]
    BY <1>0, <1>3
  <2>2. ASSUME NEW T \in SUBSET D, T \cap S = {}
        PROVE  ReadsTo(K, it[S], way, st[T], st[T \cup S])
    <3>1. ReadsTo(K, g[p], way, st[T], st[T \cup {p}])
      BY <2>1, <2>2
    <3>2. (T \cup {p}) \cap (S \ {p}) = {} /\ (T \cup {p}) \in SUBSET D
      BY <2>1, <2>2
    <3>3. (T \cup {p}) \cup (S \ {p}) = T \cup S
      BY <2>1
    <3>4. ReadsTo(K, it[S \ {p}], way, st[T \cup {p}], st[T \cup S])
      <4>1. S \ {p} \in P
        BY <1>3, <2>1
      <4>. DEFINE S2 == S \ {p}
                  T2 == T \cup {p}
      <4>2. S2 \in P /\ T2 \in SUBSET D /\ T2 \cap S2 = {}
        BY <4>1, <3>2
      <4>. HIDE DEF S2, T2, D
      <4>3. ReadsTo(K, it[S2], way, st[T2], st[T2 \cup S2])
        BY <4>2
      <4>4. T2 \cup S2 = T \cup S
        BY <3>3 DEF S2, T2
      <4>. QED BY <4>3, <4>4 DEF S2, T2
    <3>. HIDE DEF p
    <3>5. ReadsTo(K, g[p] \o it[S \ {p}], way, st[T], st[T \cup S])
      BY <3>1, <3>4, ReadsTrans
    <3>. QED
      BY <2>1, <3>5
  <2>. QED
    BY <2>2
<1>4. \A S \in SUBSET D : S \in P
  <2>. HIDE DEF P
  <2>. QED BY <1>2, <1>3, SetInduct
<1>5. {} \cup D = D /\ {} \cap D = {}
  OBVIOUS
<1>. QED
  BY <1>1, <1>4, <1>5

\* Pieces one after the other are read one after the other.
LEMMA FlattenReads ==
    ASSUME NEW K, NEW g, Len(g) \in Nat \ {0}, NEW way, NEW st,
           \A i \in 1 .. Len(g) : ReadsTo(K, g[i], way, st[i - 1], st[i])
    PROVE  ReadsTo(K, FlattenSeq(g), way, st[0], st[Len(g)])
<1>1. PICK f : /\ FlattenSeq(g) = f[Len(g)] /\ f[1] = g[1]
               /\ \A i \in 1 .. Len(g) - 1 : f[i + 1] = f[i] \o g[i + 1]
  BY Flatten
<1>. DEFINE T == {n \in Nat : n + 1 \in 1 .. Len(g) => ReadsTo(K, f[n + 1], way, st[0], st[n + 1])}
<1>2. 0 \in T
  <2>1. 1 \in 1 .. Len(g) /\ 1 - 1 = 0 /\ 0 + 1 = 1
    OBVIOUS
  <2>2. ReadsTo(K, g[1], way, st[0], st[1])
    BY <2>1
  <2>. QED BY <1>1, <2>1, <2>2
<1>3. ASSUME NEW n \in Nat, n \in T
      PROVE  n + 1 \in T
  <2>. DEFINE k == n + 1
  <2>. SUFFICES ASSUME k + 1 \in 1 .. Len(g) PROVE ReadsTo(K, f[k + 1], way, st[0], st[k + 1])
    BY <1>3
  <2>1. k \in 1 .. Len(g) - 1 /\ k \in 1 .. Len(g) /\ (k + 1) - 1 = k
    OBVIOUS
  <2>2. f[k + 1] = f[k] \o g[k + 1]
    BY <1>1, <2>1
  <2>3. ReadsTo(K, f[k], way, st[0], st[k])
    BY <1>3, <2>1
  <2>4. ReadsTo(K, g[k + 1], way, st[k], st[k + 1])
    BY <2>1
  <2>. QED
    BY <2>2, <2>3, <2>4, ReadsTrans
<1>4. Nat \subseteq T
  <2>. HIDE DEF T
  <2>. QED BY <1>2, <1>3, NatInduct
<1>5. Len(g) - 1 \in T /\ (Len(g) - 1) + 1 = Len(g) /\ Len(g) \in 1 .. Len(g)
  <2>1. Len(g) - 1 \in Nat /\ (Len(g) - 1) + 1 = Len(g) /\ Len(g) \in 1 .. Len(g)
    OBVIOUS
  <2>. HIDE DEF T
  <2>. QED BY <1>4, <2>1
<1>6. ReadsTo(K, f[Len(g)], way, st[0], st[Len(g)])
  <2>. DEFINE n == Len(g) - 1
  <2>1. n \in T /\ n + 1 = Len(g)
    BY <1>5
  <2>. HIDE DEF n
  <2>. QED BY <1>5, <2>1
<1>. QED
  BY <1>1, <1>6

-----------------------------------------------------------------------------
(***************************************************************************)
(* Messages                                                                *)
(***************************************************************************)
Msg(t, F, U) == [type |-> t, fields |-> F, unknown |-> U]

IsMsg(m, t) == m = Msg(t, m.fields, m.unknown)

\* The components of a message.
LEMMA MsgFields ==
    ASSUME NEW t, NEW F, NEW U
    PROVE  /\ Msg(t, F, U).type = t /\ Msg(t, F, U).fields = F /\ Msg(t, F, U).unknown = U
           /\ IsMsg(Msg(t, F, U), t)
           /\ \A f, v : With(Msg(t, F, U), f, v) = Msg(t, Assign(F, f, v), U)
           /\ \A n, c : Keep(Msg(t, F, U), n, c) =
                 Msg(t, F, Assign(U, n, (IF n \in DOMAIN U THEN U[n] ELSE << >>) \o c))
           /\ \A f : Old(Msg(t, F, U), f) = IF f \in DOMAIN F THEN F[f] ELSE << >>
  BY DEF Msg, IsMsg, With, Keep, Old, Nothing

\* Contents of which a message of type t keeps all under number n.
Skips(K, t, n) ==
    {c \in Seq(Part) : \A F, U :
        (n \in DOMAIN U => U[n] \in Seq(Part)) =>
            ReadsTo(K, c, "message", Msg(t, F, U), Keep(Msg(t, F, U), n, c))}

\* An item is a sequence of parts and never empty.
LEMMA ItemType ==
    ASSUME NEW tag, NEW parts, IsItem(tag, parts)
    PROVE  Item(tag, parts) \in Seq(Part) /\ Item(tag, parts) # << >>
<1>1. <<tag>> \in Seq(Part) /\ parts \in Seq(Part)
  BY DEF IsItem
<1>2. <<tag>> \o parts \in Seq(Part) /\ Len(<<tag>> \o parts) = 1 + Len(parts)
  BY <1>1, ConcatProperties
<1>3. Len(parts) \in Nat
  BY <1>1, LenProperties
<1>. HIDE DEF Part
<1>4. Item(tag, parts) \in Seq(Part) /\ Len(Item(tag, parts)) # 0
  BY <1>2, <1>3 DEF Item
<1>. QED BY <1>4

\* An item without a message in it is read by itself.
LEMMA ReadsPassOnly ==
    ASSUME NEW K, NEW tag, NEW parts, IsItem(tag, parts), NEW way, NEW m, NEW n,
           Passes(K, tag, parts, way, m, n)
    PROVE  ReadsTo(K, Item(tag, parts), way, m, n)
<1>1. << >> \in Seq(Part) /\ Item(tag, parts) \o << >> = Item(tag, parts)
  BY EmptySeq, ItemType
<1>2. ReadsTo(K, << >>, way, n, n)
  BY ReadsNil
<1>3. ReadsTo(K, Item(tag, parts) \o << >>, way, m, n)
  BY <1>1, <1>2, ReadsPass
<1>. QED BY <1>1, <1>3

\* An item with a message in it is read by itself.
LEMMA ReadsEnterOnly ==
    ASSUME NEW K, NEW tag, NEW parts, IsItem(tag, parts), NEW way, NEW m, NEW f, NEW x,
           Enters(K, tag, way, m, f),
           ReadsTo(K, parts, Way(ours[m.type][f]), Start(ours[m.type][f]), x)
    PROVE  ReadsTo(K, Item(tag, parts), way, m, Stored(m, f, x))
<1>1. << >> \in Seq(Part) /\ Item(tag, parts) \o << >> = Item(tag, parts)
  BY EmptySeq, ItemType
<1>2. ReadsTo(K, << >>, way, Stored(m, f, x), Stored(m, f, x))
  BY ReadsNil
<1>3. ReadsTo(K, Item(tag, parts) \o << >>, way, m, Stored(m, f, x))
  BY <1>1, <1>2, ReadsEnter
<1>. QED BY <1>1, <1>3

\* An item that stands for no field is skipped.
LEMMA ItemSkips ==
    ASSUME NEW K, NEW tag, NEW parts, IsItem(tag, parts), NEW t \in DOMAIN ours, Hit(K, t, tag) = {}
    PROVE  Item(tag, parts) \in Skips(K, t, tag.num)
<1>1. ASSUME NEW F, NEW U
      PROVE  ReadsTo(K, Item(tag, parts), "message", Msg(t, F, U),
                     Keep(Msg(t, F, U), tag.num, Item(tag, parts)))
  <2>1. Passes(K, tag, parts, "message", Msg(t, F, U), Keep(Msg(t, F, U), tag.num, Item(tag, parts)))
    BY MsgFields DEF Passes
  <2>. QED BY <2>1, ReadsPassOnly
<1>. QED
  BY <1>1, ItemType DEF Skips

\* Pieces that are skipped are skipped together.
LEMMA SkipsMore ==
    ASSUME NEW K, NEW t, NEW n, NEW c \in Skips(K, t, n), NEW d \in Skips(K, t, n)
    PROVE  c \o d \in Skips(K, t, n)
<1>1. c \in Seq(Part) /\ d \in Seq(Part)
  BY DEF Skips
<1>2. c \o d \in Seq(Part)
  BY <1>1, ConcatProperties
<1>3. ASSUME NEW F, NEW U, n \in DOMAIN U => U[n] \in Seq(Part)
      PROVE  ReadsTo(K, c \o d, "message", Msg(t, F, U), Keep(Msg(t, F, U), n, c \o d))
  <2>. DEFINE o == IF n \in DOMAIN U THEN U[n] ELSE << >>
              V == Assign(U, n, o \o c)
  <2>1. o \in Seq(Part)
    BY <1>3, EmptySeq
  <2>2. o \o c \in Seq(Part) /\ (o \o c) \o d = o \o (c \o d)
    <3>. HIDE DEF o
    <3>. QED BY <1>1, <2>1, ConcatProperties
  <2>3. Keep(Msg(t, F, U), n, c) = Msg(t, F, V)
    BY MsgFields
  <2>4. n \in DOMAIN V /\ V[n] = o \o c
    BY DEF Assign
  <2>5. ReadsTo(K, c, "message", Msg(t, F, U), Msg(t, F, V))
    BY <1>3, <2>3 DEF Skips
  <2>6. ReadsTo(K, d, "message", Msg(t, F, V), Keep(Msg(t, F, V), n, d))
    <3>. HIDE DEF V, o
    <3>. QED BY <2>2, <2>4 DEF Skips
  <2>7. Keep(Msg(t, F, V), n, d) = Msg(t, F, Assign(V, n, (o \o c) \o d))
    <3>. HIDE DEF V, o
    <3>1. Keep(Msg(t, F, V), n, d) =
             Msg(t, F, Assign(V, n, (IF n \in DOMAIN V THEN V[n] ELSE << >>) \o d))
      BY MsgFields
    <3>. QED BY <2>4, <3>1
  <2>8. Keep(Msg(t, F, U), n, c \o d) = Msg(t, F, Assign(U, n, o \o (c \o d)))
    BY MsgFields
  <2>9. \A e : Assign(V, n, e) = Assign(U, n, e)
    BY DEF Assign
  <2>. HIDE DEF V, o
  <2>. QED
    BY <2>2, <2>5, <2>6, <2>7, <2>8, <2>9, ReadsTrans
<1>. QED
  BY <1>2, <1>3 DEF Skips

-----------------------------------------------------------------------------
(***************************************************************************)
(* Fields: what is written of one                                          *)
(***************************************************************************)
Raw == {Zero, a}

GoodEntry(entry) == IsEntry(entry) /\ entry.key \in FieldType /\ entry.value \in FieldType

\* The values of a map, if the messages in it are in X.
EntryValues(entry, X) == IF entry.value.kind = "message" THEN X ELSE Raw

GoodField(field) ==
    /\ field \in FieldType
    /\ field.kind \in {"repeated", "message", "messages", "map"} => field.wt = "len"
    /\ field.kind = "packed" => field.wt # "len"
    /\ field.kind = "map" => GoodEntry(ours[field.type])

\* The values of a field, if the messages in them are in X.
Value(field, v, X) ==
    /\ field.kind = "scalar" => v \in Raw
    /\ field.kind \in {"repeated", "packed"} => v \in Seq(Raw) /\ v # << >>
    /\ field.kind = "message" => v \in X
    /\ field.kind = "messages" => v \in Seq(X) /\ v # << >>
    /\ field.kind = "map" =>
          /\ v = [k \in DOMAIN v |-> v[k]]
          /\ IsFiniteSet(DOMAIN v) /\ DOMAIN v # {} /\ DOMAIN v \subseteq Raw
          /\ \A k \in DOMAIN v :
                v[k] \in EntryValues(ours[field.type], X)

\* The sizes and the parts of the messages in X fit.
Fit(X, size, sub) == \A x \in X : sub[x] \in Seq(Part) /\ size[x] = Len(sub[x])

OneTag(field, value) ==
    IF field.wt = "len" THEN [num |-> field.num, wt |-> "len", v |-> 1]
    ELSE [num |-> field.num, wt |-> field.wt, v |-> value]

OneParts(field, value) == IF field.wt = "len" THEN <<[raw |-> value]>> ELSE << >>

\* The tag and the contents of a single value, and its size.
LEMMA OneItem ==
    ASSUME NEW field \in FieldType, NEW value \in Raw
    PROVE  /\ One(field, value) = Item(OneTag(field, value), OneParts(field, value))
           /\ IsItem(OneTag(field, value), OneParts(field, value))
           /\ OneTag(field, value).num = field.num /\ OneTag(field, value).wt = field.wt
           /\ Len(One(field, value)) = OneSize(field)
<1>0. field.num \in Nat \ {0} /\ field.wt \in {"len", "varint", "fixed64"}
  BY DEF FieldType
<1>. DEFINE tag == OneTag(field, value)
            parts == OneParts(field, value)
<1>1. CASE field.wt = "len"
  <2>1. tag = [num |-> field.num, wt |-> "len", v |-> 1] /\ parts = <<[raw |-> value]>>
    BY <1>1 DEF OneTag, OneParts
  <2>2. tag \in Part /\ [raw |-> value] \in Part
    BY <1>0, <2>1 DEF Part, Raw
  <2>3. parts \in Seq(Part) /\ Len(parts) = 1
    BY <2>1, <2>2
  <2>4. "num" \in DOMAIN tag /\ tag.num = field.num /\ tag.wt = "len" /\ tag.v = 1
    BY <2>1
  <2>5. Extent(tag) = 2
    BY <2>4 DEF Extent
  <2>6. One(field, value) = <<tag>> \o parts
    BY <1>1, <2>1 DEF One
  <2>7. Len(<<tag>> \o parts) = 2
    <3>. DEFINE c == <<tag>>
    <3>1. c \in Seq(Part) /\ Len(c) = 1
      BY <2>2
    <3>. HIDE DEF tag, parts, c
    <3>2. Len(c \o parts) = Len(c) + Len(parts)
      BY <2>3, <3>1, ConcatProperties
    <3>. QED BY <2>3, <3>1, <3>2 DEF c
  <2>. HIDE DEF tag, parts
  <2>8. IsItem(tag, parts)
    BY <2>2, <2>3, <2>4, <2>5 DEF IsItem
  <2>. QED
    BY <1>1, <2>4, <2>6, <2>7, <2>8 DEF OneSize, Item, tag, parts
<1>2. CASE field.wt # "len"
  <2>1. tag = [num |-> field.num, wt |-> field.wt, v |-> value] /\ parts = << >>
    BY <1>2 DEF OneTag, OneParts
  <2>2. tag \in Part
    BY <1>0, <1>2, <2>1 DEF Part, Raw
  <2>3. parts \in Seq(Part) /\ Len(parts) = 0
    BY <2>1
  <2>4. "num" \in DOMAIN tag /\ tag.num = field.num /\ tag.wt = field.wt
    BY <2>1
  <2>5. Extent(tag) = 1
    BY <1>2, <2>4 DEF Extent
  <2>6. One(field, value) = <<tag>> /\ <<tag>> = <<tag>> \o parts /\ Len(<<tag>>) = 1
    BY <1>2, <2>1 DEF One
  <2>. HIDE DEF tag, parts
  <2>8. IsItem(tag, parts)
    BY <2>2, <2>3, <2>4, <2>5 DEF IsItem
  <2>. QED
    BY <1>2, <2>4, <2>6, <2>8 DEF OneSize, Item, tag, parts
<1>. QED
  BY <1>1, <1>2

\* A single value is of as many parts as compute_size says.
LEMMA OneType ==
    ASSUME NEW field \in FieldType, NEW value \in Raw
    PROVE  One(field, value) \in Seq(Part) /\ Len(One(field, value)) = OneSize(field)
  BY OneItem, ItemType

LenTag(num, size) == [num |-> num, wt |-> "len", v |-> size]

\* What is announced with its length is an item.
LEMMA AnnouncedItem ==
    ASSUME NEW num \in Nat \ {0}, NEW parts \in Seq(Part), NEW size, size = Len(parts)
    PROVE  /\ Announced(num, size, parts) = Item(LenTag(num, size), parts)
           /\ IsItem(LenTag(num, size), parts)
           /\ LenTag(num, size).num = num /\ LenTag(num, size).wt = "len"
           /\ LenTag(num, size).v = size
           /\ Announced(num, size, parts) \in Seq(Part)
           /\ Len(Announced(num, size, parts)) = 1 + size
<1>. DEFINE tag == LenTag(num, size)
<1>1. size \in Nat
  BY LenProperties
<1>2. /\ tag \in Part /\ "num" \in DOMAIN tag /\ tag.num = num /\ tag.wt = "len" /\ tag.v = size
      /\ tag = [num |-> num, wt |-> "len", v |-> size]
  BY <1>1 DEF LenTag, Part
<1>. HIDE DEF tag
<1>3. Extent(tag) = 1 + size
  BY <1>2 DEF Extent
<1>4. IsItem(tag, parts)
  BY <1>1, <1>2, <1>3 DEF IsItem
<1>5. Announced(num, size, parts) = Item(tag, parts)
  BY <1>2 DEF Announced, Item
<1>6. Len(<<tag>> \o parts) = 1 + Len(parts)
  <2>1. <<tag>> \in Seq(Part) /\ Len(<<tag>>) = 1
    BY <1>2
  <2>. QED BY <2>1, ConcatProperties
<1>. QED
  BY <1>2, <1>4, <1>5, <1>6, ItemType DEF Item, tag

\* The entry of a map: its key and its value.
ValueParts(entry, value, size, sub) ==
    IF entry.value.kind = "message" THEN Announced(entry.value.num, size[value], sub[value])
    ELSE One(entry.value, value)

\* An entry of a map is as long as its announced size.
LEMMA EntryLen ==
    ASSUME NEW entry, GoodEntry(entry), NEW key \in Raw, NEW X, NEW value \in EntryValues(entry, X),
           NEW size, NEW sub, Fit(X, size, sub)
    PROVE  /\ ValueParts(entry, value, size, sub) \in Seq(Part)
           /\ EntryParts(entry, key, value, size, sub) =
                 One(entry.key, key) \o ValueParts(entry, value, size, sub)
           /\ EntryParts(entry, key, value, size, sub) \in Seq(Part)
           /\ EntrySize(entry, value, size) = Len(EntryParts(entry, key, value, size, sub))
           /\ EntrySize(entry, value, size) \in Nat
<1>. DEFINE c == One(entry.key, key)
            d == ValueParts(entry, value, size, sub)
<1>1. c \in Seq(Part) /\ Len(c) = 2
  BY OneType DEF GoodEntry, IsEntry, OneSize
<1>2. d \in Seq(Part) /\ EntrySize(entry, value, size) = 2 + Len(d)
  <2>1. CASE entry.value.kind = "message"
    <3>1. value \in X /\ sub[value] \in Seq(Part) /\ size[value] = Len(sub[value])
      BY <2>1 DEF Fit, EntryValues
    <3>2. d = Announced(entry.value.num, size[value], sub[value])
      BY <2>1 DEF ValueParts
    <3>3. entry.value.num \in Nat \ {0}
      BY DEF GoodEntry, FieldType
    <3>4. d \in Seq(Part) /\ Len(d) = 1 + size[value]
      BY <3>1, <3>2, <3>3, AnnouncedItem
    <3>. QED BY <2>1, <3>4 DEF EntrySize
  <2>2. CASE entry.value.kind # "message"
    <3>1. value \in Raw /\ d = One(entry.value, value) /\ entry.value \in FieldType
      BY <2>2 DEF ValueParts, EntryValues, GoodEntry
    <3>2. d \in Seq(Part) /\ Len(d) = OneSize(entry.value)
      BY <3>1, OneType
    <3>. QED BY <2>2, <3>2 DEF EntrySize
  <2>. QED BY <2>1, <2>2
<1>3. EntryParts(entry, key, value, size, sub) = c \o d
  BY DEF EntryParts, ValueParts
<1>. HIDE DEF c, d
<1>4. c \o d \in Seq(Part) /\ Len(c \o d) = Len(c) + Len(d) /\ Len(d) \in Nat
  BY <1>1, <1>2, ConcatProperties, LenProperties
<1>. QED
  BY <1>1, <1>2, <1>3, <1>4 DEF c, d

\* A function over the places of a list is as long as the list.
LEMMA ListLen ==
    ASSUME NEW S, NEW v \in Seq(S), v # << >>, NEW g, g = [i \in DOMAIN v |-> g[i]]
    PROVE  /\ Len(g) = Len(v) /\ Len(g) \in Nat \ {0}
           /\ DOMAIN v = 1 .. Len(v) /\ DOMAIN g = 1 .. Len(g)
<1>1. DOMAIN v = 1 .. Len(v) /\ Len(v) \in Nat
  OBVIOUS
<1>2. Len(v) # 0
  OBVIOUS
<1>3. DOMAIN g = 1 .. Len(v)
  BY <1>1
<1>4. g \in Seq({g[i] : i \in 1 .. Len(v)})
  <2>. DEFINE W == {g[i] : i \in 1 .. Len(v)}
  <2>1. g \in [1 .. Len(v) -> W]
    BY <1>1
  <2>. HIDE DEF W
  <2>. QED BY <1>1, <2>1
<1>5. Len(g) \in Nat /\ DOMAIN g = 1 .. Len(g)
  <2>. DEFINE W == {g[i] : i \in 1 .. Len(v)}
  <2>1. g \in Seq(W)
    BY <1>4
  <2>. HIDE DEF W
  <2>. QED BY <2>1, LenProperties
<1>6. Len(g) = Len(v)
  BY <1>1, <1>3, <1>5
<1>. QED
  BY <1>1, <1>2, <1>5, <1>6

\* What is written of a field is made of items with its number and its wire type.
LEMMA FieldItems ==
    ASSUME NEW field, GoodField(field), NEW X, NEW size, NEW sub, Fit(X, size, sub),
           NEW v, Value(field, v, X),
           NEW Q \in SUBSET Seq(Part), \A c, d \in Q : c \o d \in Q,
           \A tag, parts : /\ IsItem(tag, parts)
                           /\ tag.num = field.num /\ tag.wt = Written_wt(field)
                           => Item(tag, parts) \in Q
    PROVE  FieldParts(field, v, size, sub) \in Q
<1>0. field \in FieldType /\ field.num \in Nat \ {0}
  BY DEF GoodField, FieldType
<1>1. ASSUME field.wt = Written_wt(field), NEW w \in Raw
      PROVE  One(field, w) \in Q
  BY <1>0, <1>1, OneItem
<1>2. ASSUME Written_wt(field) = "len", NEW parts \in Seq(Part), NEW n, n = Len(parts)
      PROVE  Announced(field.num, n, parts) \in Q
  BY <1>0, <1>2, AnnouncedItem
<1>3. CASE field.kind = "scalar"
  BY <1>1, <1>3 DEF Value, FieldParts, Written_wt
<1>4. CASE field.kind = "message"
  BY <1>2, <1>4 DEF Value, FieldParts, Written_wt, Fit
<1>5. CASE field.kind = "repeated"
  <2>. DEFINE g == [i \in DOMAIN v |-> One(field, v[i])]
  <2>1. v \in Seq(Raw) /\ v # << >> /\ field.wt = Written_wt(field)
    BY <1>5 DEF Value, Written_wt, GoodField
  <2>2. \A i \in DOMAIN v : g[i] \in Q
    BY <1>1, <2>1
  <2>3. g = [i \in DOMAIN v |-> g[i]]
    OBVIOUS
  <2>4. FieldParts(field, v, size, sub) = FlattenSeq(g)
    BY <1>5 DEF FieldParts
  <2>. HIDE DEF g
  <2>5. Len(g) \in Nat \ {0} /\ \A i \in 1 .. Len(g) : g[i] \in Q
    BY <2>1, <2>2, <2>3, ListLen
  <2>. QED BY <2>4, <2>5, FlattenIn
<1>6. CASE field.kind = "messages"
  <2>. DEFINE g == [i \in DOMAIN v |-> Announced(field.num, size[v[i]], sub[v[i]])]
  <2>1. v \in Seq(X) /\ v # << >> /\ "len" = Written_wt(field)
    BY <1>6 DEF Value, Written_wt
  <2>2. \A i \in DOMAIN v : g[i] \in Q
    BY <1>2, <2>1 DEF Fit
  <2>3. g = [i \in DOMAIN v |-> g[i]]
    OBVIOUS
  <2>4. FieldParts(field, v, size, sub) = FlattenSeq(g)
    BY <1>6 DEF FieldParts
  <2>. HIDE DEF g
  <2>5. Len(g) \in Nat \ {0} /\ \A i \in 1 .. Len(g) : g[i] \in Q
    BY <2>1, <2>2, <2>3, ListLen
  <2>. QED BY <2>4, <2>5, FlattenIn
<1>7. CASE field.kind = "packed"
  <2>. DEFINE raws == [i \in DOMAIN v |-> [raw |-> v[i]]]
  <2>1. v \in Seq(Raw) /\ v # << >> /\ "len" = Written_wt(field)
    BY <1>7 DEF Value, Written_wt
  <2>2. raws \in Seq(Part) /\ Len(raws) = Len(v)
    <3>1. DOMAIN v = 1 .. Len(v) /\ Len(v) \in Nat /\ \A i \in DOMAIN v : v[i] \in Raw
      BY <2>1
    <3>2. \A i \in DOMAIN v : [raw |-> v[i]] \in Part
      BY <3>1 DEF Part, Raw
    <3>3. raws \in [1 .. Len(v) -> Part]
      BY <3>1, <3>2
    <3>. HIDE DEF raws
    <3>. QED BY <3>1, <3>3
  <2>3. FieldParts(field, v, size, sub) = Announced(field.num, Len(v), raws)
    BY <1>7 DEF FieldParts
  <2>. QED BY <1>2, <2>1, <2>2, <2>3
<1>8. CASE field.kind = "map"
  <2>. DEFINE entry == ours[field.type]
              g == [k \in DOMAIN v |-> Announced(field.num, EntrySize(entry, v[k], size),
                                                 EntryParts(entry, k, v[k], size, sub))]
  <2>1. /\ IsFiniteSet(DOMAIN v) /\ DOMAIN v # {} /\ DOMAIN v \subseteq Raw
        /\ "len" = Written_wt(field)
        /\ \A k \in DOMAIN v : v[k] \in EntryValues(entry, X)
    BY <1>8 DEF Value, Written_wt
  <2>2. GoodEntry(entry)
    BY <1>8 DEF GoodField
  <2>3. FieldParts(field, v, size, sub) = Concat(g)
    BY <1>8 DEF FieldParts
  <2>4. ASSUME NEW k \in DOMAIN v PROVE g[k] \in Q
    <3>. HIDE DEF entry
    <3>. DEFINE w == v[k]
    <3>0. k \in Raw /\ w \in EntryValues(entry, X)
      BY <2>1
    <3>. HIDE DEF w
    <3>1. /\ EntryParts(entry, k, w, size, sub) \in Seq(Part)
          /\ EntrySize(entry, w, size) = Len(EntryParts(entry, k, w, size, sub))
      BY <2>2, <3>0, EntryLen
    <3>. USE DEF w
    <3>. QED BY <1>2, <2>1, <3>1
  <2>5. DOMAIN g = DOMAIN v
    OBVIOUS
  <2>. HIDE DEF g
  <2>. QED BY <2>1, <2>3, <2>4, <2>5, ConcatIn
<1>. QED
  BY <1>0, <1>3, <1>4, <1>5, <1>6, <1>7, <1>8 DEF FieldType

\* A field that is set is written, as parts.
LEMMA FieldType2 ==
    ASSUME NEW field, GoodField(field), NEW X, NEW size, NEW sub, Fit(X, size, sub),
           NEW v, Value(field, v, X)
    PROVE  FieldParts(field, v, size, sub) \in Seq(Part) \ {<< >>}
<1>. DEFINE Q == Seq(Part) \ {<< >>}
<1>1. \A c, d \in Q : c \o d \in Q
  <2>. SUFFICES ASSUME NEW c \in Q, NEW d \in Q PROVE c \o d \in Q
    OBVIOUS
  <2>1. c \o d \in Seq(Part) /\ Len(c \o d) = Len(c) + Len(d)
    BY ConcatProperties
  <2>2. Len(c) \in Nat /\ Len(d) \in Nat /\ Len(c) # 0
    OBVIOUS
  <2>3. Len(c \o d) # 0
    BY <2>1, <2>2
  <2>. QED BY <2>1, <2>3
<1>2. \A tag, parts : IsItem(tag, parts) => Item(tag, parts) \in Q
  BY ItemType
<1>3. Q \in SUBSET Seq(Part)
  OBVIOUS
<1>. HIDE DEF Q
<1>4. FieldParts(field, v, size, sub) \in Q
  BY <1>1, <1>2, <1>3, FieldItems
<1>. QED BY <1>4 DEF Q

\* And is of the size that is announced.
LEMMA FieldLen ==
    ASSUME NEW field, GoodField(field), NEW X, NEW size, NEW sub, Fit(X, size, sub),
           NEW v, Value(field, v, X)
    PROVE  FieldSize(field, v, size) = Len(FieldParts(field, v, size, sub))
<1>0. field \in FieldType /\ field.num \in Nat \ {0}
  BY DEF GoodField, FieldType
<1>3. CASE field.kind = "scalar"
  BY <1>0, <1>3, OneType DEF Value, FieldParts, FieldSize
<1>4. CASE field.kind = "message"
  BY <1>0, <1>4, AnnouncedItem DEF Value, FieldParts, FieldSize, Fit
<1>5. CASE field.kind = "repeated"
  <2>. DEFINE g == [i \in DOMAIN v |-> One(field, v[i])]
  <2>1. v \in Seq(Raw) /\ v # << >> /\ field.wt = "len"
    BY <1>5 DEF Value, GoodField
  <2>2. \A i \in DOMAIN v : g[i] \in Seq(Part) /\ Len(g[i]) = 2
    BY <1>0, <2>1, OneType DEF OneSize
  <2>3. g = [i \in DOMAIN v |-> g[i]]
    OBVIOUS
  <2>4. FieldParts(field, v, size, sub) = FlattenSeq(g)
    BY <1>5 DEF FieldParts
  <2>. HIDE DEF g
  <2>5. /\ Len(g) \in Nat \ {0} /\ DOMAIN g = 1 .. Len(g) /\ Len(g) = Len(v)
        /\ \A i \in 1 .. Len(g) : g[i] \in Seq(Part) /\ Len(g[i]) = 2
    BY <2>1, <2>2, <2>3, ListLen
  <2>6. Len(FlattenSeq(g)) = 2 * Len(g)
    BY <2>5, FlattenTwos
  <2>. QED BY <1>5, <2>4, <2>5, <2>6 DEF FieldSize
<1>6. CASE field.kind = "messages"
  <2>. DEFINE g == [i \in DOMAIN v |-> Announced(field.num, size[v[i]], sub[v[i]])]
              l == [i \in DOMAIN v |-> 1 + size[v[i]]]
  <2>1. v \in Seq(X) /\ v # << >>
    BY <1>6 DEF Value
  <2>2. \A i \in DOMAIN v : g[i] \in Seq(Part) /\ Len(g[i]) = l[i]
    <3>1. \A i \in DOMAIN v : sub[v[i]] \in Seq(Part) /\ size[v[i]] = Len(sub[v[i]])
      BY <2>1 DEF Fit
    <3>. QED BY <1>0, <3>1, AnnouncedItem
  <2>3. g = [i \in DOMAIN v |-> g[i]] /\ l = [i \in DOMAIN v |-> l[i]] /\ DOMAIN g = DOMAIN v
    OBVIOUS
  <2>4. FieldParts(field, v, size, sub) = FlattenSeq(g) /\ FieldSize(field, v, size) = SumFunction(l)
    BY <1>6 DEF FieldParts, FieldSize
  <2>. HIDE DEF g, l
  <2>5. /\ Len(g) \in Nat \ {0} /\ DOMAIN g = 1 .. Len(g)
        /\ \A i \in 1 .. Len(g) : g[i] \in Seq(Part)
    BY <2>1, <2>2, <2>3, ListLen
  <2>6. Len(FlattenSeq(g)) = SumFunction([i \in DOMAIN g |-> Len(g[i])])
    BY <2>5, FlattenLen
  <2>7. [i \in DOMAIN g |-> Len(g[i])] = l
    BY <2>2, <2>3
  <2>. QED BY <2>4, <2>6, <2>7
<1>7. CASE field.kind = "packed"
  <2>. DEFINE raws == [i \in DOMAIN v |-> [raw |-> v[i]]]
  <2>1. v \in Seq(Raw) /\ v # << >>
    BY <1>7 DEF Value
  <2>2. raws \in Seq(Part) /\ Len(raws) = Len(v)
    <3>1. DOMAIN v = 1 .. Len(v) /\ Len(v) \in Nat /\ \A i \in DOMAIN v : v[i] \in Raw
      BY <2>1
    <3>2. \A i \in DOMAIN v : [raw |-> v[i]] \in Part
      BY <3>1 DEF Part, Raw
    <3>3. raws \in [1 .. Len(v) -> Part]
      BY <3>1, <3>2
    <3>. HIDE DEF raws
    <3>. QED BY <3>1, <3>3
  <2>3. FieldParts(field, v, size, sub) = Announced(field.num, Len(v), raws)
    BY <1>7 DEF FieldParts
  <2>. HIDE DEF raws
  <2>. QED BY <1>0, <1>7, <2>2, <2>3, AnnouncedItem DEF FieldSize
<1>8. CASE field.kind = "map"
  <2>. DEFINE entry == ours[field.type]
              g == [k \in DOMAIN v |-> Announced(field.num, EntrySize(entry, v[k], size),
                                                 EntryParts(entry, k, v[k], size, sub))]
              l == [k \in DOMAIN v |-> 1 + EntrySize(entry, v[k], size)]
  <2>1. /\ IsFiniteSet(DOMAIN v) /\ DOMAIN v # {} /\ DOMAIN v \subseteq Raw
        /\ \A k \in DOMAIN v : v[k] \in EntryValues(entry, X)
    BY <1>8 DEF Value
  <2>2. GoodEntry(entry)
    BY <1>8 DEF GoodField
  <2>3. FieldParts(field, v, size, sub) = Concat(g) /\ FieldSize(field, v, size) = SumFunction(l)
    BY <1>8 DEF FieldParts, FieldSize
  <2>4. ASSUME NEW k \in DOMAIN v PROVE g[k] \in Seq(Part) /\ Len(g[k]) = l[k]
    <3>. HIDE DEF entry
    <3>. DEFINE w == v[k]
    <3>0. k \in Raw /\ w \in EntryValues(entry, X)
      BY <2>1
    <3>. HIDE DEF w
    <3>1. /\ EntryParts(entry, k, w, size, sub) \in Seq(Part)
          /\ EntrySize(entry, w, size) = Len(EntryParts(entry, k, w, size, sub))
      BY <2>2, <3>0, EntryLen
    <3>. USE DEF w
    <3>. QED BY <1>0, <3>1, AnnouncedItem
  <2>5. DOMAIN g = DOMAIN v /\ l = [k \in DOMAIN v |-> l[k]]
    OBVIOUS
  <2>. HIDE DEF g, l
  <2>6. Len(Concat(g)) = SumFunction([k \in DOMAIN g |-> Len(g[k])])
    BY <2>1, <2>4, <2>5, ConcatLen
  <2>7. [k \in DOMAIN g |-> Len(g[k])] = l
    BY <2>4, <2>5
  <2>. QED BY <2>3, <2>6, <2>7
<1>. QED
  BY <1>0, <1>3, <1>4, <1>5, <1>6, <1>7, <1>8 DEF FieldType

-----------------------------------------------------------------------------
(***************************************************************************)
(* Fields: what is written of one is read as it was                        *)
(***************************************************************************)
Numbered(K, t) ==
    /\ t \in DOMAIN ours /\ K[t] \subseteq DOMAIN ours[t]
    /\ \A f, g \in DOMAIN ours[t] : ours[t][f].num = ours[t][g].num => f = g

Readable(K, t, f) == f \in K[t] /\ Numbered(K, t) /\ Fair(t, f) /\ GoodField(ours[t][f])

\* Contents that set a field, which was not set.
ReadsField(K, t, f, c, w) ==
    \A F, U : f \notin DOMAIN F =>
        ReadsTo(K, c, "message", Msg(t, F, U), Msg(t, Assign(F, f, w), U))

\* The messages in X, of type u, are read as im says.
ReadsAll(K, X, sub, u, im) ==
    \A x \in X : ReadsTo(K, sub[x], "message", default_instance(u), im[x])

\* And so are those in entries of a map.
ReadsValues(K, X, sub, entry, im) ==
    entry.value.kind = "message" => ReadsAll(K, X, sub, entry.value.type, im)

\* The tag of a field that is known stands for that field alone.
LEMMA HitField ==
    ASSUME NEW K, NEW t, Numbered(K, t), NEW f \in K[t], NEW tag,
           tag.num = ours[t][f].num, tag.wt \in Tags(ours[t][f])
    PROVE  Hit(K, t, tag) = {f}
  BY DEF Hit, Numbered, Matches

\* The tag that a field is written with is one that it is read by.
LEMMA WrittenTag ==
    ASSUME NEW field \in FieldType
    PROVE  Written_wt(field) \in Tags(field)
<1>. field.kind \in {"scalar", "repeated", "packed", "message", "messages", "map"}
  BY DEF FieldType
<1>. QED
  BY DEF Written_wt, Tags

\* One value of a field that is not packed.
LEMMA OneReads ==
    ASSUME NEW K, NEW t, NEW f, Numbered(K, t), f \in K[t], NEW way, way = "message" => Fair(t, f),
           ours[t][f] \in FieldType, ours[t][f].kind \in {"scalar", "repeated"},
           ours[t][f].kind = "repeated" => ours[t][f].wt = "len", NEW v \in Raw, NEW F, NEW U
    PROVE  LET old == IF f \in DOMAIN F THEN F[f] ELSE << >>
               w == IF ours[t][f].kind = "scalar" THEN v ELSE Append(old, v)
           IN  ReadsTo(K, One(ours[t][f], v), way, Msg(t, F, U), Msg(t, Assign(F, f, w), U))
<1>. DEFINE field == ours[t][f]
            tag == OneTag(field, v)
            parts == OneParts(field, v)
            old == IF f \in DOMAIN F THEN F[f] ELSE << >>
            w == IF field.kind = "scalar" THEN v ELSE Append(old, v)
<1>1. /\ One(field, v) = Item(tag, parts) /\ IsItem(tag, parts)
      /\ tag.num = field.num /\ tag.wt = field.wt
  BY OneItem
<1>2. tag.wt \in Tags(field)
  BY <1>1 DEF Tags
<1>3. Hit(K, t, tag) = {f}
  BY <1>1, <1>2, HitField
<1>4. tag.wt = "len" => Len(parts) >= 1 /\ parts[1].raw = v
  <2>. SUFFICES ASSUME tag.wt = "len" PROVE Len(parts) >= 1 /\ parts[1].raw = v
    OBVIOUS
  <2>1. parts = <<[raw |-> v]>>
    BY <1>1 DEF OneParts
  <2>. QED BY <2>1
<1>5. tag.wt # "len" => tag.v = v
  BY <1>1 DEF OneTag
<1>6. ScalarValue(field, tag, parts, old) = w
  BY <1>4, <1>5 DEF ScalarValue
<1>7. With(Msg(t, F, U), f, w) = Msg(t, Assign(F, f, w), U) /\ Old(Msg(t, F, U), f) = old
      /\ Msg(t, F, U).type = t
  BY MsgFields
<1>. HIDE DEF tag, parts, old, w
<1>8. Passes(K, tag, parts, way, Msg(t, F, U), Msg(t, Assign(F, f, w), U))
  <2>1. t \in DOMAIN ours
    BY DEF Numbered
  <2>. QED BY <1>3, <1>4, <1>6, <1>7, <2>1 DEF Passes, Flat
<1>. QED
  BY <1>1, <1>8, ReadsPassOnly DEF w, old

\* A scalar is read as it was written.
LEMMA ScalarReads ==
    ASSUME NEW K, NEW t, NEW f, Readable(K, t, f), ours[t][f].kind = "scalar", NEW v \in Raw
    PROVE  ReadsField(K, t, f, One(ours[t][f], v), v)
  BY OneReads DEF Readable, GoodField, ReadsField

\* An array grows by its elements.
LEMMA Grows ==
    ASSUME NEW S, NEW v \in Seq(S), v # << >>
    PROVE  /\ SubSeq(v, 1, 1) = Append(<< >>, v[1])
           /\ \A i \in 2 .. Len(v) : SubSeq(v, 1, i) = Append(SubSeq(v, 1, i - 1), v[i])
           /\ SubSeq(v, 1, Len(v)) = v
<1>1. Len(v) \in Nat \ {0} /\ DOMAIN v = 1 .. Len(v) /\ \A i \in 1 .. Len(v) : v[i] \in S
  BY EmptySeq, LenProperties
<1>2. \A s \in Seq(S), e \in S : Append(s, e) = s \o <<e>>
  OBVIOUS
<1>3. ASSUME NEW i \in 1 .. Len(v)
      PROVE  SubSeq(v, 1, i) = SubSeq(v, 1, i - 1) \o <<v[i]>> /\ SubSeq(v, 1, i - 1) \in Seq(S)
  <2>1. 1 \in 1 .. Len(v) /\ i \in 1 .. Len(v)
    BY <1>1
  <2>2. SubSeq(v, 1, i) = SubSeq(v, 1, i - 1) \o <<v[i]>>
    BY <2>1, SubSeqRecursiveSecond
  <2>3. SubSeq(v, 1, i - 1) \in Seq(S)
    BY <1>1
  <2>. QED BY <2>2, <2>3
<1>4. SubSeq(v, 1, 0) = << >>
  BY SubSeqEmpty
<1>5. SubSeq(v, 1, 1) = Append(<< >>, v[1])
  <2>1. 1 \in 1 .. Len(v) /\ 1 - 1 = 0 /\ v[1] \in S /\ << >> \in Seq(S)
    BY <1>1
  <2>. QED BY <1>2, <1>3, <1>4, <2>1
<1>6. ASSUME NEW i \in 2 .. Len(v)
      PROVE  SubSeq(v, 1, i) = Append(SubSeq(v, 1, i - 1), v[i])
  <2>1. i \in 1 .. Len(v) /\ v[i] \in S
    BY <1>1
  <2>. QED BY <1>2, <1>3, <2>1
<1>. QED
  BY <1>5, <1>6, SubSeqFull

\* A list of strings is read as it was written.
LEMMA RepeatedReads ==
    ASSUME NEW K, NEW t, NEW f, Readable(K, t, f), ours[t][f].kind = "repeated",
           NEW v \in Seq(Raw), v # << >>
    PROVE  ReadsField(K, t, f, FlattenSeq([i \in DOMAIN v |-> One(ours[t][f], v[i])]), v)
<1>. SUFFICES ASSUME NEW F, NEW U, f \notin DOMAIN F
     PROVE  ReadsTo(K, FlattenSeq([i \in DOMAIN v |-> One(ours[t][f], v[i])]), "message",
                    Msg(t, F, U), Msg(t, Assign(F, f, v), U))
  BY DEF ReadsField
<1>. DEFINE g == [i \in DOMAIN v |-> One(ours[t][f], v[i])]
            have(i) == SubSeq(v, 1, i)
            st == [i \in 0 .. Len(v) |-> IF i = 0 THEN Msg(t, F, U)
                                         ELSE Msg(t, Assign(F, f, have(i)), U)]
<1>1. g = [i \in DOMAIN v |-> g[i]]
  OBVIOUS
<1>2. Len(g) = Len(v) /\ Len(g) \in Nat \ {0} /\ DOMAIN v = 1 .. Len(v) /\ DOMAIN g = 1 .. Len(g)
  <2>. HIDE DEF g
  <2>. QED BY <1>1, ListLen
<1>3. ASSUME NEW i \in 1 .. Len(g)
      PROVE  ReadsTo(K, g[i], "message", st[i - 1], st[i])
  <2>1. v[i] \in Raw /\ i \in DOMAIN v /\ g[i] = One(ours[t][f], v[i])
    BY <1>2
  <2>2. \A G : ReadsTo(K, One(ours[t][f], v[i]), "message", Msg(t, G, U),
              Msg(t, Assign(G, f, Append(IF f \in DOMAIN G THEN G[f] ELSE << >>, v[i])), U))
    BY <2>1, OneReads DEF Readable, GoodField
  <2>3. st[i] = Msg(t, Assign(F, f, have(i)), U)
    BY <1>2
  <2>4. CASE i = 1
    <3>1. st[i - 1] = Msg(t, F, U)
      BY <2>4, <1>2
    <3>2. have(1) = Append(<< >>, v[1])
      BY Grows
    <3>. HIDE DEF st, have, g
    <3>3. Append(IF f \in DOMAIN F THEN F[f] ELSE << >>, v[i]) = have(i)
      BY <2>4, <3>2
    <3>. QED BY <2>1, <2>2, <2>3, <3>1, <3>3
  <2>5. CASE i # 1
    <3>. DEFINE G == Assign(F, f, have(i - 1))
    <3>1. st[i - 1] = Msg(t, G, U)
      BY <2>5, <1>2
    <3>2. have(i) = Append(have(i - 1), v[i])
      <4>1. i \in 2 .. Len(v)
        BY <2>5, <1>2
      <4>. QED BY <4>1, Grows
    <3>3. f \in DOMAIN G /\ G[f] = have(i - 1) /\ \A w : Assign(G, f, w) = Assign(F, f, w)
      <4>. DEFINE e == have(i - 1)
      <4>. HIDE DEF e
      <4>1. f \in DOMAIN Assign(F, f, e) /\ Assign(F, f, e)[f] = e
        BY DEF Assign
      <4>2. \A w : Assign(Assign(F, f, e), f, w) = Assign(F, f, w)
        BY DEF Assign
      <4>. QED BY <4>1, <4>2 DEF e
    <3>. HIDE DEF st, have, g, G
    <3>4. Append(IF f \in DOMAIN G THEN G[f] ELSE << >>, v[i]) = have(i)
      BY <3>2, <3>3
    <3>5. ReadsTo(K, g[i], "message", Msg(t, G, U), Msg(t, Assign(G, f, have(i)), U))
      BY <2>1, <2>2, <3>4
    <3>. QED BY <2>3, <3>1, <3>3, <3>5
  <2>. QED
    BY <2>4, <2>5
<1>4. st[0] = Msg(t, F, U) /\ st[Len(g)] = Msg(t, Assign(F, f, v), U)
  <2>1. SubSeq(v, 1, Len(v)) = v
    BY Grows
  <2>. QED BY <1>2, <2>1
<1>5. ReadsTo(K, FlattenSeq(g), "message", st[0], st[Len(g)])
  <2>. HIDE DEF st, g
  <2>. QED BY <1>2, <1>3, FlattenReads
<1>. QED
  BY <1>4, <1>5

\* A list of numbers, packed, is read as it was written.
LEMMA PackedReads ==
    ASSUME NEW K, NEW t, NEW f, Readable(K, t, f), ours[t][f].kind = "packed",
           NEW v \in Seq(Raw)
    PROVE  ReadsField(K, t, f, Announced(ours[t][f].num, Len(v), [i \in DOMAIN v |-> [raw |-> v[i]]]),
                      v)
<1>. SUFFICES ASSUME NEW F, NEW U, f \notin DOMAIN F
     PROVE  ReadsTo(K, Announced(ours[t][f].num, Len(v), [i \in DOMAIN v |-> [raw |-> v[i]]]),
                    "message", Msg(t, F, U), Msg(t, Assign(F, f, v), U))
  BY DEF ReadsField
<1>. DEFINE field == ours[t][f]
            parts == [i \in DOMAIN v |-> [raw |-> v[i]]]
            tag == LenTag(field.num, Len(v))
<1>0. DOMAIN v = 1 .. Len(v) /\ Len(v) \in Nat /\ \A i \in DOMAIN v : v[i] \in Raw
  OBVIOUS
<1>1. parts \in Seq(Part) /\ Len(parts) = Len(v)
  <2>1. \A i \in DOMAIN v : [raw |-> v[i]] \in Part
    BY <1>0 DEF Part, Raw
  <2>2. parts \in [1 .. Len(v) -> Part]
    BY <1>0, <2>1
  <2>. HIDE DEF parts
  <2>. QED BY <1>0, <2>2
<1>2. field.num \in Nat \ {0}
  BY DEF Readable, GoodField, FieldType
<1>3. /\ Announced(field.num, Len(v), parts) = Item(tag, parts) /\ IsItem(tag, parts)
      /\ tag.num = field.num /\ tag.wt = "len" /\ tag.v = Len(v)
  <2>. HIDE DEF parts, field
  <2>. QED BY <1>1, <1>2, AnnouncedItem
<1>4. Hit(K, t, tag) = {f}
  <2>1. tag.wt \in Tags(field) /\ f \in K[t] /\ Numbered(K, t)
    BY <1>3 DEF Readable, Tags
  <2>. HIDE DEF tag
  <2>. QED BY <1>3, <2>1, HitField
<1>5. << >> \o [i \in 1 .. tag.v |-> parts[i].raw] = v
  <2>1. \A i \in DOMAIN v : parts[i].raw = v[i]
    OBVIOUS
  <2>2. [i \in 1 .. Len(v) |-> parts[i].raw] = v
    BY <1>0, <2>1
  <2>3. << >> \o v = v
    OBVIOUS
  <2>. QED BY <1>3, <2>2, <2>3
<1>6. ScalarValue(field, tag, parts, << >>) = v
  <2>. HIDE DEF parts, tag
  <2>. QED BY <1>3, <1>5 DEF ScalarValue
<1>7. With(Msg(t, F, U), f, v) = Msg(t, Assign(F, f, v), U) /\ Old(Msg(t, F, U), f) = << >>
      /\ Msg(t, F, U).type = t
  BY MsgFields
<1>. HIDE DEF tag, parts
<1>8. Passes(K, tag, parts, "message", Msg(t, F, U), Msg(t, Assign(F, f, v), U))
  <2>1. t \in DOMAIN ours /\ Fair(t, f)
    BY DEF Numbered, Readable
  <2>. QED BY <1>4, <1>6, <1>7, <2>1 DEF Passes, Flat
<1>. QED
  BY <1>3, <1>8, ReadsPassOnly DEF parts

\* A message of a field, whatever the field has.
LEMMA NestedReads ==
    ASSUME NEW K, NEW t, NEW f, Numbered(K, t), f \in K[t], NEW way, way = "message" => Fair(t, f),
           ours[t][f] \in FieldType, ours[t][f].kind \in Deep,
           ours[t][f].kind = "map" => GoodEntry(ours[ours[t][f].type]),
           NEW parts \in Seq(Part), NEW size, size = Len(parts), NEW x,
           ReadsTo(K, parts, Way(ours[t][f]), Start(ours[t][f]), x), NEW F, NEW U
    PROVE  LET old == IF f \in DOMAIN F THEN F[f] ELSE << >>
           IN  ReadsTo(K, Announced(ours[t][f].num, size, parts), way, Msg(t, F, U),
                       Msg(t, Assign(F, f, Store(old, ours[t][f], x)), U))
<1>. DEFINE field == ours[t][f]
            tag == LenTag(field.num, size)
            old == IF f \in DOMAIN F THEN F[f] ELSE << >>
<1>1. field.num \in Nat \ {0}
  BY DEF FieldType
<1>2. /\ Announced(field.num, size, parts) = Item(tag, parts) /\ IsItem(tag, parts)
      /\ tag.num = field.num /\ tag.wt = "len"
  <2>. HIDE DEF field
  <2>. QED BY <1>1, AnnouncedItem
<1>3. tag.wt \in Tags(field)
  BY <1>2 DEF Tags, Deep
<1>4. Hit(K, t, tag) = {f}
  BY <1>2, <1>3, HitField
<1>5. Stored(Msg(t, F, U), f, x) = Msg(t, Assign(F, f, Store(old, field, x)), U)
  BY MsgFields DEF Stored
<1>6. Msg(t, F, U).type = t
  BY MsgFields
<1>. HIDE DEF tag
<1>7. Enters(K, tag, way, Msg(t, F, U), f)
  <2>1. t \in DOMAIN ours
    BY DEF Numbered
  <2>2. field.kind = "map" => "value" \in DOMAIN ours[field.type]
    BY DEF GoodEntry, IsEntry
  <2>. QED BY <1>4, <1>6, <2>1, <2>2 DEF Enters
<1>8. ReadsTo(K, Item(tag, parts), way, Msg(t, F, U), Stored(Msg(t, F, U), f, x))
  BY <1>2, <1>6, <1>7, ReadsEnterOnly
<1>. QED
  BY <1>2, <1>5, <1>8

\* A message in a field is read if its parts are.
LEMMA MessageReads ==
    ASSUME NEW K, NEW t, NEW f, Readable(K, t, f), ours[t][f].kind = "message",
           NEW parts \in Seq(Part), NEW w,
           ReadsTo(K, parts, "message", default_instance(ours[t][f].type), w)
    PROVE  /\ ReadsField(K, t, f, Announced(ours[t][f].num, Len(parts), parts), w)
           /\ \A F, U : ReadsTo(K, Announced(ours[t][f].num, Len(parts), parts), "message",
                                Msg(t, F, U), Msg(t, Assign(F, f, w), U))
<1>1. ASSUME NEW F, NEW U
      PROVE  ReadsTo(K, Announced(ours[t][f].num, Len(parts), parts), "message",
                     Msg(t, F, U), Msg(t, Assign(F, f, w), U))
  <2>1. /\ Numbered(K, t) /\ f \in K[t] /\ Fair(t, f) /\ ours[t][f] \in FieldType
        /\ ours[t][f].kind \in Deep
        /\ Way(ours[t][f]) = "message" /\ Start(ours[t][f]) = default_instance(ours[t][f].type)
    BY DEF Readable, GoodField, Deep, Way, Start
  <2>2. \A old : Store(old, ours[t][f], w) = w
    BY DEF Store
  <2>3. ReadsTo(K, parts, Way(ours[t][f]), Start(ours[t][f]), w)
    BY <2>1
  <2>. DEFINE old == IF f \in DOMAIN F THEN F[f] ELSE << >>
  <2>4. ReadsTo(K, Announced(ours[t][f].num, Len(parts), parts), "message", Msg(t, F, U),
                Msg(t, Assign(F, f, Store(old, ours[t][f], w)), U))
    BY <2>1, <2>3, NestedReads
  <2>. QED BY <2>2, <2>4
<1>. QED
  BY <1>1 DEF ReadsField

\* A list of messages is read, one after the other, if their parts are.
LEMMA MessagesReads ==
    ASSUME NEW K, NEW t, NEW f, Readable(K, t, f), ours[t][f].kind = "messages",
           NEW X, NEW size, NEW sub, Fit(X, size, sub), NEW im,
           ReadsAll(K, X, sub, ours[t][f].type, im),
           NEW v \in Seq(X), v # << >>
    PROVE  ReadsField(K, t, f,
                      FlattenSeq([i \in DOMAIN v |-> Announced(ours[t][f].num, size[v[i]], sub[v[i]])]),
                      [i \in DOMAIN v |-> im[v[i]]])
<1>. DEFINE g == [i \in DOMAIN v |-> Announced(ours[t][f].num, size[v[i]], sub[v[i]])]
            w == [i \in DOMAIN v |-> im[v[i]]]
<1>. SUFFICES ASSUME NEW F, NEW U, f \notin DOMAIN F
     PROVE  ReadsTo(K, FlattenSeq(g), "message", Msg(t, F, U), Msg(t, Assign(F, f, w), U))
  BY DEF ReadsField
<1>. DEFINE have(i) == SubSeq(w, 1, i)
            st == [i \in 0 .. Len(v) |-> IF i = 0 THEN Msg(t, F, U)
                                         ELSE Msg(t, Assign(F, f, have(i)), U)]
            Y == {im[x] : x \in X}
<1>1. g = [i \in DOMAIN v |-> g[i]] /\ w = [i \in DOMAIN v |-> w[i]]
  OBVIOUS
<1>2. Len(g) = Len(v) /\ Len(g) \in Nat \ {0} /\ DOMAIN v = 1 .. Len(v) /\ DOMAIN g = 1 .. Len(g)
  <2>. HIDE DEF g
  <2>. QED BY <1>1, ListLen
<1>3. Len(w) = Len(v) /\ DOMAIN w = 1 .. Len(w)
  <2>. HIDE DEF w
  <2>. QED BY <1>1, ListLen
<1>4. w \in Seq(Y) /\ w # << >>
  <2>1. \A i \in DOMAIN v : w[i] \in Y
    OBVIOUS
  <2>2. w \in [1 .. Len(v) -> Y]
    BY <1>2, <2>1
  <2>. HIDE DEF w, Y
  <2>. QED BY <1>2, <1>3, <2>2
<1>5. ASSUME NEW i \in 1 .. Len(g)
      PROVE  ReadsTo(K, g[i], "message", st[i - 1], st[i])
  <2>1. /\ v[i] \in X /\ i \in DOMAIN v /\ w[i] = im[v[i]]
        /\ g[i] = Announced(ours[t][f].num, size[v[i]], sub[v[i]])
    BY <1>2
  <2>. DEFINE x == v[i]
  <2>2. sub[x] \in Seq(Part) /\ size[x] = Len(sub[x])
    BY <2>1 DEF Fit
  <2>3. /\ Numbered(K, t) /\ f \in K[t] /\ Fair(t, f) /\ ours[t][f] \in FieldType
        /\ ours[t][f].kind \in Deep
        /\ Way(ours[t][f]) = "message" /\ Start(ours[t][f]) = default_instance(ours[t][f].type)
    BY DEF Readable, GoodField, Deep, Way, Start
  <2>4. ReadsTo(K, sub[x], Way(ours[t][f]), Start(ours[t][f]), w[i])
    BY <2>1, <2>3 DEF ReadsAll
  <2>5. \A G : ReadsTo(K, g[i], "message", Msg(t, G, U),
              Msg(t, Assign(G, f, Append(IF f \in DOMAIN G THEN G[f] ELSE << >>, w[i])), U))
    <3>. SUFFICES ASSUME NEW G
         PROVE ReadsTo(K, g[i], "message", Msg(t, G, U),
              Msg(t, Assign(G, f, Append(IF f \in DOMAIN G THEN G[f] ELSE << >>, w[i])), U))
      OBVIOUS
    <3>. DEFINE old == IF f \in DOMAIN G THEN G[f] ELSE << >>
                y == w[i]
    <3>1. Store(old, ours[t][f], y) = Append(old, y)
      BY DEF Store
    <3>. HIDE DEF y, x
    <3>2. ReadsTo(K, Announced(ours[t][f].num, size[x], sub[x]), "message", Msg(t, G, U),
                  Msg(t, Assign(G, f, Store(old, ours[t][f], y)), U))
      BY <2>2, <2>3, <2>4, NestedReads DEF y
    <3>. QED BY <2>1, <3>1, <3>2 DEF x, y
  <2>6. st[i] = Msg(t, Assign(F, f, have(i)), U)
    BY <1>2
  <2>7. CASE i = 1
    <3>1. st[i - 1] = Msg(t, F, U)
      BY <2>7, <1>2
    <3>2. have(1) = Append(<< >>, w[1])
      <4>. HIDE DEF w, Y
      <4>. QED BY <1>4, Grows
    <3>. HIDE DEF st, have, g, w
    <3>3. Append(IF f \in DOMAIN F THEN F[f] ELSE << >>, w[i]) = have(i)
      BY <2>7, <3>2
    <3>. QED BY <2>5, <2>6, <3>1, <3>3
  <2>8. CASE i # 1
    <3>. DEFINE G == Assign(F, f, have(i - 1))
    <3>1. st[i - 1] = Msg(t, G, U)
      BY <2>8, <1>2
    <3>2. have(i) = Append(have(i - 1), w[i])
      <4>1. i \in 2 .. Len(w)
        BY <2>8, <1>2, <1>3
      <4>. HIDE DEF w, Y
      <4>. QED BY <1>4, <4>1, Grows
    <3>3. f \in DOMAIN G /\ G[f] = have(i - 1) /\ \A e : Assign(G, f, e) = Assign(F, f, e)
      <4>. DEFINE e == have(i - 1)
      <4>. HIDE DEF e
      <4>1. f \in DOMAIN Assign(F, f, e) /\ Assign(F, f, e)[f] = e
        BY DEF Assign
      <4>2. \A d : Assign(Assign(F, f, e), f, d) = Assign(F, f, d)
        BY DEF Assign
      <4>. QED BY <4>1, <4>2 DEF e
    <3>. HIDE DEF st, have, g, G, w
    <3>4. Append(IF f \in DOMAIN G THEN G[f] ELSE << >>, w[i]) = have(i)
      BY <3>2, <3>3
    <3>5. ReadsTo(K, g[i], "message", Msg(t, G, U), Msg(t, Assign(G, f, have(i)), U))
      BY <2>5, <3>4
    <3>. QED BY <2>6, <3>1, <3>3, <3>5
  <2>. QED
    BY <2>7, <2>8
<1>6. st[0] = Msg(t, F, U) /\ st[Len(g)] = Msg(t, Assign(F, f, w), U)
  <2>1. have(Len(v)) = w
    <3>1. SubSeq(w, 1, Len(w)) = w
      <4>. HIDE DEF w, Y
      <4>. QED BY <1>4, Grows
    <3>. HIDE DEF w
    <3>. QED BY <1>3, <3>1
  <2>. HIDE DEF have, w, g
  <2>. QED BY <1>2, <2>1
<1>7. ReadsTo(K, FlattenSeq(g), "message", st[0], st[Len(g)])
  <2>. HIDE DEF st, g
  <2>. QED BY <1>2, <1>5, FlattenReads
<1>. QED
  BY <1>6, <1>7

\* The entry of a map, of type u.
ReadableEntry(K, u) == Numbered(K, u) /\ K[u] = {"key", "value"} /\ GoodEntry(ours[u])

\* The value that an entry gets, if im has what is read of messages.
Read(entry, value, im) == IF entry.value.kind = "message" THEN im[value] ELSE value

\* An entry of a map is read as its key and its value.
LEMMA EntryReads ==
    ASSUME NEW K, NEW u, ReadableEntry(K, u), NEW X, NEW size, NEW sub, Fit(X, size, sub), NEW im,
           ReadsValues(K, X, sub, ours[u], im),
           NEW k \in Raw, NEW v \in EntryValues(ours[u], X)
    PROVE  \E x : /\ ReadsTo(K, EntryParts(ours[u], k, v, size, sub), "entry", NewEntry(u), x)
                  /\ x.fields.key = k /\ x.fields.value = Read(ours[u], v, im)
<1>. DEFINE entry == ours[u]
            F0 == [f \in DOMAIN entry |-> IF entry[f].kind = "message"
                                          THEN default_instance(entry[f].type) ELSE Zero]
            F1 == Assign(F0, "key", k)
            w == Read(entry, v, im)
            F2 == Assign(F1, "value", w)
<1>1. NewEntry(u) = Msg(u, F0, << >>)
  BY DEF NewEntry, Msg, Nothing
<1>2. /\ Numbered(K, u) /\ "key" \in K[u] /\ "value" \in K[u]
      /\ entry["key"] \in FieldType /\ entry["value"] \in FieldType
      /\ entry["key"].kind = "scalar" /\ entry["value"].kind \in {"scalar", "message"}
  BY DEF ReadableEntry, GoodEntry, IsEntry
<1>. HIDE DEF F0
<1>3. ReadsTo(K, One(entry["key"], k), "entry", Msg(u, F0, << >>), Msg(u, F1, << >>))
  BY <1>2, OneReads
<1>. HIDE DEF F1
<1>4. ReadsTo(K, ValueParts(entry, v, size, sub), "entry", Msg(u, F1, << >>), Msg(u, F2, << >>))
  <2>1. CASE entry["value"].kind = "scalar"
    <3>1. v \in Raw /\ w = v /\ ValueParts(entry, v, size, sub) = One(entry["value"], v)
      BY <2>1 DEF EntryValues, Read, ValueParts
    <3>2. ReadsTo(K, One(entry["value"], v), "entry", Msg(u, F1, << >>),
                  Msg(u, Assign(F1, "value", v), << >>))
      <4>1. "entry" = "message" => Fair(u, "value")
        OBVIOUS
      <4>2. entry["value"].kind = "repeated" => entry["value"].wt = "len"
        BY <2>1
      <4>3. entry["value"].kind \in {"scalar", "repeated"} /\ v \in Raw
        BY <2>1, <3>1
      <4>. QED BY <1>2, <2>1, <4>1, <4>2, <4>3, OneReads
    <3>. QED BY <3>1, <3>2
  <2>2. CASE entry["value"].kind = "message"
    <3>1. /\ v \in X /\ w = im[v] /\ sub[v] \in Seq(Part) /\ size[v] = Len(sub[v])
          /\ ValueParts(entry, v, size, sub) = Announced(entry["value"].num, size[v], sub[v])
      BY <2>2 DEF EntryValues, Read, ValueParts, Fit
    <3>2. /\ entry["value"].kind \in Deep
          /\ Way(entry["value"]) = "message"
          /\ Start(entry["value"]) = default_instance(entry.value.type)
          /\ \A old : Store(old, entry["value"], w) = w
      BY <2>2 DEF Deep, Way, Start, Store
    <3>3. ReadsTo(K, sub[v], Way(entry["value"]), Start(entry["value"]), w)
      BY <2>2, <3>1, <3>2 DEF ReadsAll, ReadsValues
    <3>. DEFINE old == IF "value" \in DOMAIN F1 THEN F1["value"] ELSE << >>
    <3>. HIDE DEF w
    <3>4. ReadsTo(K, Announced(entry["value"].num, size[v], sub[v]), "entry", Msg(u, F1, << >>),
                  Msg(u, Assign(F1, "value", Store(old, entry["value"], w)), << >>))
      <4>1. "entry" = "message" => Fair(u, "value")
        OBVIOUS
      <4>. QED BY <1>2, <3>1, <3>2, <3>3, <4>1, NestedReads
    <3>. QED BY <3>1, <3>2, <3>4
  <2>. QED BY <1>2, <2>1, <2>2
<1>5. EntryParts(entry, k, v, size, sub) = One(entry["key"], k) \o ValueParts(entry, v, size, sub)
  BY DEF EntryParts, ValueParts
<1>6. ReadsTo(K, EntryParts(entry, k, v, size, sub), "entry", Msg(u, F0, << >>), Msg(u, F2, << >>))
  BY <1>3, <1>4, <1>5, ReadsTrans
<1>7. Msg(u, F2, << >>).fields = F2 /\ F2["key"] = k /\ F2["value"] = w
  BY MsgFields DEF Assign, F1
<1>. QED
  BY <1>1, <1>6, <1>7

\* A map is read as it was written, in whatever order its entries come.
LEMMA MapReads ==
    ASSUME NEW K, NEW t, NEW f, Readable(K, t, f), ours[t][f].kind = "map",
           ReadableEntry(K, ours[t][f].type),
           NEW X, NEW size, NEW sub, Fit(X, size, sub), NEW im,
           ReadsValues(K, X, sub, ours[ours[t][f].type], im),
           NEW v, Value(ours[t][f], v, X)
    PROVE  ReadsField(K, t, f, FieldParts(ours[t][f], v, size, sub),
                      [k \in DOMAIN v |-> Read(ours[ours[t][f].type], v[k], im)])
<1>. DEFINE field == ours[t][f]
            u == field.type
            D == DOMAIN v
            announced(k) == EntrySize(ours[u], v[k], size)
            parts(k) == EntryParts(ours[u], k, v[k], size, sub)
            g == [k \in D |-> Announced(field.num, announced(k), parts(k))]
            w == [k \in D |-> Read(ours[u], v[k], im)]
<1>1. FieldParts(field, v, size, sub) = Concat(g)
  BY DEF FieldParts
<1>. SUFFICES ASSUME NEW F, NEW U, f \notin DOMAIN F
     PROVE  ReadsTo(K, Concat(g), "message", Msg(t, F, U), Msg(t, Assign(F, f, w), U))
  BY <1>1 DEF ReadsField
<1>2. /\ IsFiniteSet(D) /\ D # {} /\ D \subseteq Raw
      /\ \A k \in D : v[k] \in EntryValues(ours[u], X)
  BY DEF Value
<1>. DEFINE have(T) == [k \in T |-> w[k]]
            st == [T \in SUBSET D |-> IF T = {} THEN Msg(t, F, U)
                                      ELSE Msg(t, Assign(F, f, have(T)), U)]
<1>3. ASSUME NEW k \in D, NEW T \in SUBSET D, k \notin T
      PROVE  ReadsTo(K, g[k], "message", st[T], st[T \cup {k}])
  <2>. DEFINE y == v[k]
  <2>0. k \in Raw /\ y \in EntryValues(ours[u], X)
    BY <1>2
  <2>. HIDE DEF y
  <2>1. PICK x : /\ ReadsTo(K, EntryParts(ours[u], k, y, size, sub), "entry", NewEntry(u), x)
                 /\ x.fields.key = k /\ x.fields.value = Read(ours[u], y, im)
    <3>1. /\ ReadableEntry(K, u)
          /\ ReadsValues(K, X, sub, ours[u], im)
      OBVIOUS
    <3>. HIDE DEF u
    <3>. QED BY <2>0, <3>1, EntryReads
  <2>2. /\ EntryParts(ours[u], k, y, size, sub) \in Seq(Part)
        /\ EntrySize(ours[u], y, size) = Len(EntryParts(ours[u], k, y, size, sub))
    BY <2>0, EntryLen DEF ReadableEntry
  <2>3. /\ Numbered(K, t) /\ f \in K[t] /\ Fair(t, f) /\ field \in FieldType
        /\ field.kind \in Deep /\ Way(field) = "entry" /\ Start(field) = NewEntry(u)
        /\ GoodEntry(ours[field.type])
    BY DEF Readable, GoodField, Deep, Way, Start
  <2>4. /\ g[k] = Announced(field.num, EntrySize(ours[u], y, size),
                            EntryParts(ours[u], k, y, size, sub))
        /\ w[k] = Read(ours[u], y, im)
    BY DEF y
  <2>. HIDE DEF g, w, u, field
  <2>5. \A G : ReadsTo(K, g[k], "message", Msg(t, G, U),
              Msg(t, Assign(G, f, Assign(IF f \in DOMAIN G THEN G[f] ELSE << >>, k, w[k])), U))
    <3>. SUFFICES ASSUME NEW G
         PROVE ReadsTo(K, g[k], "message", Msg(t, G, U),
              Msg(t, Assign(G, f, Assign(IF f \in DOMAIN G THEN G[f] ELSE << >>, k, w[k])), U))
      OBVIOUS
    <3>. DEFINE old == IF f \in DOMAIN G THEN G[f] ELSE << >>
                c == EntryParts(ours[u], k, y, size, sub)
                n == EntrySize(ours[u], y, size)
    <3>1. Store(old, field, x) = Assign(old, k, w[k])
      BY <2>1, <2>4 DEF Store, field
    <3>2. c \in Seq(Part) /\ n = Len(c) /\ g[k] = Announced(field.num, n, c)
          /\ ReadsTo(K, c, Way(field), Start(field), x)
      BY <2>1, <2>2, <2>3, <2>4
    <3>. HIDE DEF c, n
    <3>3. ReadsTo(K, Announced(field.num, n, c), "message", Msg(t, G, U),
                  Msg(t, Assign(G, f, Store(old, field, x)), U))
      BY <2>3, <3>2, NestedReads DEF field
    <3>. QED BY <3>1, <3>2, <3>3
  <2>6. st[T \cup {k}] = Msg(t, Assign(F, f, have(T \cup {k})), U)
    OBVIOUS
  <2>7. CASE T = {}
    <3>1. st[T] = Msg(t, F, U)
      BY <2>7
    <3>2. have(T \cup {k}) = Assign(<< >>, k, w[k])
      BY <2>7 DEF Assign
    <3>. HIDE DEF st, have
    <3>3. ReadsTo(K, g[k], "message", Msg(t, F, U), Msg(t, Assign(F, f, Assign(<< >>, k, w[k])), U))
      BY <2>5
    <3>. QED BY <2>6, <3>1, <3>2, <3>3
  <2>8. CASE T # {}
    <3>. DEFINE G == Assign(F, f, have(T))
    <3>1. st[T] = Msg(t, G, U)
      BY <2>8
    <3>2. have(T \cup {k}) = Assign(have(T), k, w[k])
      BY <1>3 DEF Assign
    <3>3. f \in DOMAIN G /\ G[f] = have(T) /\ \A e : Assign(G, f, e) = Assign(F, f, e)
      <4>. DEFINE e == have(T)
      <4>. HIDE DEF e
      <4>1. f \in DOMAIN Assign(F, f, e) /\ Assign(F, f, e)[f] = e
        BY DEF Assign
      <4>2. \A d : Assign(Assign(F, f, e), f, d) = Assign(F, f, d)
        BY DEF Assign
      <4>. QED BY <4>1, <4>2 DEF e
    <3>. HIDE DEF st, have, G
    <3>4. ReadsTo(K, g[k], "message", Msg(t, G, U), Msg(t, Assign(G, f, Assign(have(T), k, w[k])), U))
      BY <2>5, <3>3
    <3>. QED BY <2>6, <3>1, <3>2, <3>3, <3>4
  <2>. QED BY <2>7, <2>8
<1>4. st[{}] = Msg(t, F, U) /\ st[D] = Msg(t, Assign(F, f, w), U)
  <2>1. have(D) = w
    OBVIOUS
  <2>. QED BY <1>2, <2>1
<1>5. DOMAIN g = D
  OBVIOUS
<1>6. ReadsTo(K, Concat(g), "message", st[{}], st[D])
  <2>. HIDE DEF st, g, D
  <2>. QED BY <1>2, <1>3, <1>5, ConcatReads
<1>. QED
  BY <1>4, <1>6

\* What the value of a field becomes, if im has what the messages in it become.
Image(field, v, im) ==
    CASE field.kind = "message"  -> im[v]
      [] field.kind = "messages" -> [i \in DOMAIN v |-> im[v[i]]]
      [] field.kind = "map"      -> [k \in DOMAIN v |-> Read(ours[field.type], v[k], im)]
      [] OTHER -> v

ReadsNested(K, X, sub, field, im) ==
    /\ field.kind \in {"message", "messages"} => ReadsAll(K, X, sub, field.type, im)
    /\ field.kind = "map" => /\ ReadsValues(K, X, sub, ours[field.type], im)
                             /\ ReadableEntry(K, field.type)

\* A field of any kind is read as it was written.
LEMMA FieldReads ==
    ASSUME NEW K, NEW t, NEW f, Readable(K, t, f), NEW X, NEW size, NEW sub, Fit(X, size, sub),
           NEW im, ReadsNested(K, X, sub, ours[t][f], im), NEW v, Value(ours[t][f], v, X)
    PROVE  ReadsField(K, t, f, FieldParts(ours[t][f], v, size, sub), Image(ours[t][f], v, im))
<1>. DEFINE field == ours[t][f]
<1>1. CASE field.kind = "scalar"
  <2>1. v \in Raw /\ FieldParts(field, v, size, sub) = One(field, v) /\ Image(field, v, im) = v
    BY <1>1 DEF Value, FieldParts, Image
  <2>. QED BY <1>1, <2>1, ScalarReads
<1>2. CASE field.kind = "repeated"
  <2>1. /\ v \in Seq(Raw) /\ v # << >> /\ Image(field, v, im) = v
        /\ FieldParts(field, v, size, sub) = FlattenSeq([i \in DOMAIN v |-> One(field, v[i])])
    BY <1>2 DEF Value, FieldParts, Image
  <2>. QED BY <1>2, <2>1, RepeatedReads
<1>3. CASE field.kind = "packed"
  <2>1. /\ v \in Seq(Raw) /\ Image(field, v, im) = v
        /\ FieldParts(field, v, size, sub) =
              Announced(field.num, Len(v), [i \in DOMAIN v |-> [raw |-> v[i]]])
    BY <1>3 DEF Value, FieldParts, Image
  <2>. QED BY <1>3, <2>1, PackedReads
<1>4. CASE field.kind = "message"
  <2>1. /\ v \in X /\ Image(field, v, im) = im[v] /\ sub[v] \in Seq(Part)
        /\ FieldParts(field, v, size, sub) = Announced(field.num, Len(sub[v]), sub[v])
        /\ ReadsTo(K, sub[v], "message", default_instance(field.type), im[v])
    BY <1>4 DEF Value, FieldParts, Image, Fit, ReadsNested, ReadsAll
  <2>. DEFINE w == im[v]
              c == sub[v]
  <2>. HIDE DEF w, c
  <2>2. /\ c \in Seq(Part) /\ ReadsTo(K, c, "message", default_instance(field.type), w)
    BY <2>1 DEF w, c
  <2>3. ReadsField(K, t, f, Announced(field.num, Len(c), c), w)
    BY <1>4, <2>2, MessageReads
  <2>. QED BY <2>1, <2>3 DEF w, c
<1>5. CASE field.kind = "messages"
  <2>1. /\ v \in Seq(X) /\ v # << >> /\ Image(field, v, im) = [i \in DOMAIN v |-> im[v[i]]]
        /\ FieldParts(field, v, size, sub) =
              FlattenSeq([i \in DOMAIN v |-> Announced(field.num, size[v[i]], sub[v[i]])])
        /\ ReadsAll(K, X, sub, field.type, im)
    BY <1>5 DEF Value, FieldParts, Image, ReadsNested
  <2>2. ReadsField(K, t, f,
                   FlattenSeq([i \in DOMAIN v |-> Announced(ours[t][f].num, size[v[i]], sub[v[i]])]),
                   [i \in DOMAIN v |-> im[v[i]]])
    BY <1>5, <2>1, MessagesReads
  <2>. QED BY <2>1, <2>2
<1>6. CASE field.kind = "map"
  <2>1. /\ ReadsValues(K, X, sub, ours[field.type], im) /\ ReadableEntry(K, field.type)
        /\ Image(field, v, im) = [k \in DOMAIN v |-> Read(ours[field.type], v[k], im)]
    BY <1>6 DEF Image, ReadsNested
  <2>. DEFINE w == [k \in DOMAIN v |-> Read(ours[ours[t][f].type], v[k], im)]
              c == FieldParts(ours[t][f], v, size, sub)
  <2>2. ReadsField(K, t, f, c, w)
    <3>1. ours[t][f].kind = "map" /\ Value(ours[t][f], v, X)
          /\ ReadsValues(K, X, sub, ours[ours[t][f].type], im) /\ ReadableEntry(K, ours[t][f].type)
      BY <1>6, <2>1
    <3>. HIDE DEF field
    <3>. QED BY <3>1, MapReads
  <2>. QED BY <2>1, <2>2
<1>. QED
  BY <1>1, <1>2, <1>3, <1>4, <1>5, <1>6 DEF Readable, GoodField, FieldType

\* A field that is not known is skipped as a whole, whatever is in it.
LEMMA FieldSkips ==
    ASSUME NEW K, NEW t \in DOMAIN ours, NEW field, GoodField(field),
           NEW X, NEW size, NEW sub, Fit(X, size, sub), NEW v, Value(field, v, X),
           \A tag : tag.num = field.num /\ tag.wt = Written_wt(field) => Hit(K, t, tag) = {}
    PROVE  FieldParts(field, v, size, sub) \in Skips(K, t, field.num)
<1>. DEFINE Q == Skips(K, t, field.num)
<1>1. Q \in SUBSET Seq(Part)
  BY DEF Skips
<1>2. \A c, d \in Q : c \o d \in Q
  BY SkipsMore
<1>3. \A tag, parts : IsItem(tag, parts) /\ tag.num = field.num /\ tag.wt = Written_wt(field)
                         => Item(tag, parts) \in Q
  BY ItemSkips
<1>. HIDE DEF Q
<1>4. FieldParts(field, v, size, sub) \in Q
  BY <1>1, <1>2, <1>3, FieldItems
<1>. QED BY <1>4 DEF Q

-----------------------------------------------------------------------------
(***************************************************************************)
(* Messages, made of their fields and of what is not known                 *)
(***************************************************************************)
Only(f, S) == [x \in S |-> f[x]]

\* Contents g of fields with the given names that are known, and of those that are not.
OneToOne(name, R) == \A d, e \in R : name[d] = name[e] => d = e

SetsFields(K, t, g, R, name, FF, A) ==
    \A d \in R : name[d] \notin A /\ ReadsField(K, t, name[d], g[d], FF[name[d]])

KeepsFields(K, t, g, S, no, UU, B) ==
    \A d \in S : no[d] \notin B /\ g[d] \in Skips(K, t, no[d]) /\ UU[no[d]] = g[d]

\* A message is read from its fields in any order: those that are known are set, the
\* others kept by their number, and none has to do with another.
LEMMA Assemble ==
    ASSUME NEW K, NEW t, NEW g, IsFiniteSet(DOMAIN g), NEW R \in SUBSET DOMAIN g,
           NEW name, NEW no, NEW FF, NEW UU, NEW A, NEW B,
           SetsFields(K, t, g, R, name, FF, A), OneToOne(name, R),
           KeepsFields(K, t, g, DOMAIN g \ R, no, UU, B), OneToOne(no, DOMAIN g \ R)
    PROVE  ReadsTo(K, Concat(g), "message", Msg(t, Only(FF, A), Only(UU, B)),
                   Msg(t, Only(FF, A \cup {name[d] : d \in R}),
                       Only(UU, B \cup {no[d] : d \in DOMAIN g \ R})))
<1>0. /\ \A d \in R : name[d] \notin A /\ ReadsField(K, t, name[d], g[d], FF[name[d]])
      /\ \A d, e \in R : name[d] = name[e] => d = e
      /\ \A d \in DOMAIN g \ R : no[d] \notin B /\ g[d] \in Skips(K, t, no[d]) /\ UU[no[d]] = g[d]
      /\ \A d, e \in DOMAIN g \ R : no[d] = no[e] => d = e
  BY DEF SetsFields, KeepsFields, OneToOne
<1>. DEFINE D == DOMAIN g
            names(T) == A \cup {name[d] : d \in R \cap T}
            nos(T) == B \cup {no[d] : d \in T \ R}
            st == [T \in SUBSET D |-> Msg(t, Only(FF, names(T)), Only(UU, nos(T)))]
<1>1. ASSUME NEW x \in D, NEW T \in SUBSET D, x \notin T
      PROVE  ReadsTo(K, g[x], "message", st[T], st[T \cup {x}])
  <2>1. /\ st[T] = Msg(t, Only(FF, names(T)), Only(UU, nos(T)))
        /\ st[T \cup {x}] = Msg(t, Only(FF, names(T \cup {x})), Only(UU, nos(T \cup {x})))
    OBVIOUS
  <2>2. CASE x \in R
    <3>1. names(T \cup {x}) = names(T) \cup {name[x]} /\ nos(T \cup {x}) = nos(T)
      BY <2>2
    <3>2. name[x] \notin names(T)
      BY <1>0, <1>1, <2>2
    <3>. HIDE DEF names, nos, st
    <3>3. name[x] \notin DOMAIN Only(FF, names(T))
      BY <3>2 DEF Only
    <3>4. Assign(Only(FF, names(T)), name[x], FF[name[x]]) = Only(FF, names(T) \cup {name[x]})
      BY DEF Assign, Only
    <3>5. ReadsTo(K, g[x], "message", Msg(t, Only(FF, names(T)), Only(UU, nos(T))),
                  Msg(t, Assign(Only(FF, names(T)), name[x], FF[name[x]]), Only(UU, nos(T))))
      BY <1>0, <2>2, <3>3 DEF ReadsField
    <3>. QED BY <2>1, <3>1, <3>4, <3>5
  <2>3. CASE x \notin R
    <3>1. names(T \cup {x}) = names(T) /\ nos(T \cup {x}) = nos(T) \cup {no[x]}
      BY <2>3
    <3>2. no[x] \notin nos(T)
      BY <1>0, <1>1, <2>3
    <3>. DEFINE n == no[x]
                G == Only(FF, names(T))
                V == Only(UU, nos(T))
    <3>. HIDE DEF names, nos, st
    <3>3. n \notin DOMAIN V
      BY <3>2 DEF Only
    <3>4. g[x] \in Skips(K, t, n) /\ UU[n] = g[x] /\ g[x] \in Seq(Part)
      BY <1>0, <2>3 DEF Skips
    <3>5. << >> \o g[x] = g[x]
      BY <3>4, ConcatEmptySeq
    <3>6. Assign(V, n, UU[n]) = Only(UU, nos(T) \cup {n})
      BY DEF Assign, Only
    <3>. HIDE DEF n, G, V
    <3>7. ReadsTo(K, g[x], "message", Msg(t, G, V), Keep(Msg(t, G, V), n, g[x]))
      BY <3>3, <3>4 DEF Skips
    <3>8. Keep(Msg(t, G, V), n, g[x]) = Msg(t, G, Assign(V, n, UU[n]))
      <4>1. Keep(Msg(t, G, V), n, g[x]) =
               Msg(t, G, Assign(V, n, (IF n \in DOMAIN V THEN V[n] ELSE << >>) \o g[x]))
        BY MsgFields
      <4>. QED BY <3>3, <3>4, <3>5, <4>1
    <3>9. Msg(t, G, V) = st[T]
      BY <2>1 DEF G, V
    <3>10. Msg(t, G, Assign(V, n, UU[n])) = st[T \cup {x}]
      BY <2>1, <3>1, <3>6 DEF G, V, n
    <3>. QED BY <3>7, <3>8, <3>9, <3>10
  <2>. QED BY <2>2, <2>3
<1>2. names({}) = A /\ nos({}) = B
  OBVIOUS
<1>3. names(D) = A \cup {name[d] : d \in R} /\ nos(D) = B \cup {no[d] : d \in DOMAIN g \ R}
  OBVIOUS
<1>4. st[{}] = Msg(t, Only(FF, names({})), Only(UU, nos({}))) /\ st[D] = Msg(t, Only(FF, names(D)), Only(UU, nos(D)))
  OBVIOUS
<1>5. ReadsTo(K, Concat(g), "message", st[{}], st[D])
  <2>. HIDE DEF st
  <2>. QED BY <1>1, ConcatReads
<1>. HIDE DEF st, names, nos
<1>. QED
  BY <1>2, <1>3, <1>4, <1>5

-----------------------------------------------------------------------------
(***************************************************************************)
(* From the writer to the relay and on to the reader                       *)
(***************************************************************************)
\* The field of a type that the writer's field stands for, to a reader that knows it.
Meets(t, f, g) ==
    /\ g \in DOMAIN ours[t] /\ ours[t][g].num = theirs[t][f].num
    /\ Written_wt(theirs[t][f]) \in Tags(ours[t][g])

Seen(t, f)   == \E g : Meets(t, f, g)
Target(t, f) == CHOOSE g : Meets(t, f, g)

\* Of the writer's fields in D, those that a reader knows; their names, and numbers.
Seens(K, t, D) == {f \in D : Seen(t, f) /\ Target(t, f) \in K[t]}
Names(t, S)    == {Target(t, f) : f \in S}
Numbers(t, S)  == {theirs[t][f].num : f \in S}

FieldAt(t, D, g)  == CHOOSE f \in D : Seen(t, f) /\ Target(t, f) = g
NumberAt(t, D, n) == CHOOSE f \in D : theirs[t][f].num = n

\* The message that a reader has, of fields with contents c that have become w.
Taken(K, t, D, w, c) ==
    Msg(t, [g \in Names(t, Seens(K, t, D)) |-> w[FieldAt(t, D, g)]],
           [n \in Numbers(t, D \ Seens(K, t, D)) |-> c[NumberAt(t, D, n)]])

\* No number is used twice, neither here nor there.
Regular(t) ==
    /\ t \in DOMAIN ours
    /\ \A f, g \in DOMAIN theirs[t] : theirs[t][f].num = theirs[t][g].num => f = g
    /\ \A f, g \in DOMAIN ours[t] : ours[t][f].num = ours[t][g].num => f = g

\* A field on its way: what the writer wrote is c, the relay and the reader have w1
\* and w2 of it, and what the relay writes is d.
FieldGoes(K1, K2, t, f, c, w1, w2, d) ==
    /\ c \in Seq(Part)
    /\ IF f \in Seens(K1, t, {f}) THEN ReadsField(K1, t, Target(t, f), c, w1)
       ELSE c \in Skips(K1, t, theirs[t][f].num)
    /\ IF f \in Seens(K2, t, {f}) THEN ReadsField(K2, t, Target(t, f), c, w2)
       ELSE c \in Skips(K2, t, theirs[t][f].num)
    /\ f \in Seens(K1, t, {f}) => d \in Seq(Part) /\ ReadsField(K2, t, Target(t, f), d, w2)

\* The field that takes what was written as f.
LEMMA TargetMeets ==
    ASSUME NEW t, NEW f, Seen(t, f)
    PROVE  Meets(t, f, Target(t, f))
  BY DEF Seen, Target

\* There is only one.
LEMMA TargetOne ==
    ASSUME NEW t, Regular(t), NEW f, NEW g, Meets(t, f, g)
    PROVE  Seen(t, f) /\ Target(t, f) = g
<1>1. Seen(t, f)
  BY DEF Seen
<1>2. Meets(t, f, Target(t, f))
  BY <1>1, TargetMeets
<1>. QED
  BY <1>1, <1>2 DEF Regular, Meets

\* No two fields are taken by the same.
LEMMA TargetsDiffer ==
    ASSUME NEW t, Regular(t), NEW f \in DOMAIN theirs[t], NEW e \in DOMAIN theirs[t],
           Seen(t, f), Seen(t, e), Target(t, f) = Target(t, e)
    PROVE  f = e
<1>1. Meets(t, f, Target(t, f)) /\ Meets(t, e, Target(t, e))
  BY TargetMeets
<1>. QED
  BY <1>1 DEF Meets, Regular

\* The field that was written, from the field that took it.
LEMMA FieldAtName ==
    ASSUME NEW t, Regular(t), NEW D \in SUBSET DOMAIN theirs[t], NEW f \in D, Seen(t, f)
    PROVE  FieldAt(t, D, Target(t, f)) = f
<1>. DEFINE e == FieldAt(t, D, Target(t, f))
<1>1. e \in D /\ Seen(t, e) /\ Target(t, e) = Target(t, f)
  BY DEF FieldAt
<1>. HIDE DEF e
<1>2. e = f
  BY <1>1, TargetsDiffer
<1>. QED BY <1>2 DEF e

\* The field that was written, from its number.
LEMMA NumberAtNumber ==
    ASSUME NEW t, Regular(t), NEW D \in SUBSET DOMAIN theirs[t], NEW f \in D
    PROVE  NumberAt(t, D, theirs[t][f].num) = f
<1>. DEFINE e == NumberAt(t, D, theirs[t][f].num)
<1>1. e \in D /\ theirs[t][e].num = theirs[t][f].num
  BY DEF NumberAt
<1>. HIDE DEF e
<1>2. e = f
  BY <1>1 DEF Regular
<1>. QED BY <1>2 DEF e

\* A function of a finite set has finitely many values.
LEMMA FiniteValues ==
    ASSUME NEW p, IsFiniteSet(DOMAIN p)
    PROVE  IsFiniteSet({p[x] : x \in DOMAIN p})
<1>. DEFINE D == DOMAIN p
            T == {S \in SUBSET D : IsFiniteSet({p[x] : x \in S})}
<1>1. {} \in T
  BY FS_EmptySet
<1>2. ASSUME NEW S \in SUBSET D, S # {}, \A x \in S : S \ {x} \in T
      PROVE  S \in T
  <2>1. PICK y \in S : S \ {y} \in T
    BY <1>2
  <2>2. IsFiniteSet({p[x] : x \in S \ {y}} \cup {p[y]})
    BY <2>1, FS_AddElement
  <2>3. {p[x] : x \in S} = {p[x] : x \in S \ {y}} \cup {p[y]}
    OBVIOUS
  <2>. QED BY <2>2, <2>3
<1>3. \A S \in SUBSET D : S \in T
  <2>. HIDE DEF T
  <2>. QED BY <1>1, <1>2, SetInduct
<1>. QED BY <1>3

\* A function of no fields is the empty one.
LEMMA EmptyOnly ==
    ASSUME NEW f PROVE Only(f, {}) = << >>
  BY DEF Only

\* Read from the writer.
LEMMA TakenFirst ==
    ASSUME NEW K, NEW t, Regular(t), NEW D \in SUBSET DOMAIN theirs[t], IsFiniteSet(D),
           NEW w, NEW c, DOMAIN c = D,
           \A f \in D : IF f \in Seens(K, t, {f}) THEN ReadsField(K, t, Target(t, f), c[f], w[f])
                        ELSE c[f] \in Skips(K, t, theirs[t][f].num)
    PROVE  ReadsTo(K, Concat(c), "message", default_instance(t), Taken(K, t, D, w, c))
<1>. DEFINE R == Seens(K, t, D)
            name == [f \in R |-> Target(t, f)]
            no == [f \in D \ R |-> theirs[t][f].num]
            FF == [g \in Names(t, R) |-> w[FieldAt(t, D, g)]]
            UU == [n \in Numbers(t, D \ R) |-> c[NumberAt(t, D, n)]]
<1>1. \A f \in D : f \in R <=> f \in Seens(K, t, {f})
  BY DEF Seens
<1>2. \A f \in R : Seen(t, f)
  BY DEF Seens
<1>3. ASSUME NEW f \in R
      PROVE  name[f] \notin {} /\ ReadsField(K, t, name[f], c[f], FF[name[f]])
  <2>1. f \in D /\ name[f] = Target(t, f) /\ Target(t, f) \in Names(t, R)
    BY DEF Names, Seens
  <2>2. FieldAt(t, D, Target(t, f)) = f
    BY <1>2, <2>1, FieldAtName
  <2>3. FF[name[f]] = w[f]
    BY <2>1, <2>2
  <2>. HIDE DEF FF, name, R
  <2>. QED BY <1>1, <2>1, <2>3
<1>4. \A f, e \in R : name[f] = name[e] => f = e
  <2>1. R \subseteq DOMAIN theirs[t]
    BY DEF Seens
  <2>. HIDE DEF R
  <2>. QED BY <1>2, <2>1, TargetsDiffer
<1>5. ASSUME NEW f \in D \ R
      PROVE  no[f] \notin {} /\ c[f] \in Skips(K, t, no[f]) /\ UU[no[f]] = c[f]
  <2>1. no[f] = theirs[t][f].num /\ no[f] \in Numbers(t, D \ R)
    BY DEF Numbers
  <2>2. NumberAt(t, D, theirs[t][f].num) = f
    BY NumberAtNumber
  <2>3. UU[no[f]] = c[f]
    BY <2>1, <2>2
  <2>. HIDE DEF UU, no, R
  <2>. QED BY <1>1, <2>1, <2>3
<1>6. \A f, e \in D \ R : no[f] = no[e] => f = e
  BY DEF Regular
<1>7. R \in SUBSET D
  BY DEF Seens
<1>8. {name[f] : f \in R} = Names(t, R) /\ {no[f] : f \in D \ R} = Numbers(t, D \ R)
  BY DEF Names, Numbers
<1>9. Only(FF, Names(t, R)) = FF /\ Only(UU, Numbers(t, D \ R)) = UU
  BY DEF Only
<1>. HIDE DEF FF, UU, name, no, R
<1>14. SetsFields(K, t, c, R, name, FF, {}) /\ OneToOne(name, R)
  BY <1>3, <1>4 DEF SetsFields, OneToOne
<1>15. KeepsFields(K, t, c, D \ R, no, UU, {}) /\ OneToOne(no, D \ R)
  BY <1>5, <1>6 DEF KeepsFields, OneToOne
<1>10. ReadsTo(K, Concat(c), "message", Msg(t, Only(FF, {}), Only(UU, {})),
               Msg(t, Only(FF, {} \cup {name[f] : f \in R}),
                   Only(UU, {} \cup {no[f] : f \in D \ R})))
  BY <1>7, <1>14, <1>15, Assemble
<1>11. Msg(t, Only(FF, {}), Only(UU, {})) = default_instance(t)
  BY EmptyOnly DEF Msg, default_instance, Nothing
<1>12. {} \cup Names(t, R) = Names(t, R) /\ {} \cup Numbers(t, D \ R) = Numbers(t, D \ R)
  OBVIOUS
<1>13. Taken(K, t, D, w, c) = Msg(t, FF, UU)
  BY DEF Taken, FF, UU, R
<1>. QED
  BY <1>8, <1>9, <1>10, <1>11, <1>12, <1>13

FieldsGo(K1, K2, t, D, c, w1, w2, d) ==
    \A f \in D : FieldGoes(K1, K2, t, f, c[f], w1[f], w2[f], d[f])

\* What the relay writes of the fields in S.
Rewritten(h, t, S, d) ==
    DOMAIN h = Names(t, S) /\ \A f \in S : h[Target(t, f)] = d[f]

\* Read from the relay, which wrote d of the fields that it has, and then what it did
\* not know.
LEMMA TakenNext ==
    ASSUME NEW K1, NEW K2, NEW t, Regular(t), K1[t] \subseteq K2[t],
           NEW D \in SUBSET DOMAIN theirs[t], IsFiniteSet(D),
           NEW w1, NEW w2, NEW c, DOMAIN c = D, NEW d,
           FieldsGo(K1, K2, t, D, c, w1, w2, d),
           NEW h, Rewritten(h, t, Seens(K1, t, D), d)
    PROVE  ReadsTo(K2, Concat(h) \o Concat(Taken(K1, t, D, w1, c).unknown), "message",
                   default_instance(t), Taken(K2, t, D, w2, c))
<1>. DEFINE R1 == Seens(K1, t, D)
            R2 == Seens(K2, t, D)
            FF == [g \in Names(t, R2) |-> w2[FieldAt(t, D, g)]]
            UU == [n \in Numbers(t, D) |-> c[NumberAt(t, D, n)]]
            V == [n \in Numbers(t, D \ R1) |-> c[NumberAt(t, D, n)]]
<1>0. /\ \A f \in D : FieldGoes(K1, K2, t, f, c[f], w1[f], w2[f], d[f])
      /\ DOMAIN h = Names(t, Seens(K1, t, D))
      /\ \A f \in Seens(K1, t, D) : h[Target(t, f)] = d[f]
  BY DEF FieldsGo, Rewritten
<1>1. R1 \subseteq R2 /\ R2 \subseteq D /\ R1 \subseteq D
  BY DEF Seens
<1>2. \A f \in R2 : Seen(t, f)
  BY DEF Seens
<1>3. \A f \in D : /\ f \in R1 <=> f \in Seens(K1, t, {f})
                   /\ f \in R2 <=> f \in Seens(K2, t, {f})
  BY DEF Seens
<1>4. \A f \in R2 : Target(t, f) \in Names(t, R2) /\ FF[Target(t, f)] = w2[f]
  <2>. SUFFICES ASSUME NEW f \in R2
                PROVE  Target(t, f) \in Names(t, R2) /\ FF[Target(t, f)] = w2[f]
    OBVIOUS
  <2>1. Target(t, f) \in Names(t, R2)
    BY DEF Names
  <2>2. FieldAt(t, D, Target(t, f)) = f
    BY <1>1, <1>2, FieldAtName
  <2>. QED BY <2>1, <2>2
<1>5. \A f \in D : /\ theirs[t][f].num \in Numbers(t, D) /\ UU[theirs[t][f].num] = c[f]
                   /\ NumberAt(t, D, theirs[t][f].num) = f
  <2>. SUFFICES ASSUME NEW f \in D
                PROVE  /\ theirs[t][f].num \in Numbers(t, D) /\ UU[theirs[t][f].num] = c[f]
                       /\ NumberAt(t, D, theirs[t][f].num) = f
    OBVIOUS
  <2>1. theirs[t][f].num \in Numbers(t, D)
    BY DEF Numbers
  <2>2. NumberAt(t, D, theirs[t][f].num) = f
    BY NumberAtNumber
  <2>. QED BY <2>1, <2>2
<1>6. V = Only(UU, Numbers(t, D \ R1)) /\ DOMAIN V = Numbers(t, D \ R1)
  BY <1>1 DEF Only, Numbers
<1>7. Taken(K1, t, D, w1, c).unknown = V
  BY MsgFields DEF Taken
<1>8. Taken(K2, t, D, w2, c) = Msg(t, Only(FF, Names(t, R2)), Only(UU, Numbers(t, D \ R2)))
  <2>1. [n \in Numbers(t, D \ R2) |-> c[NumberAt(t, D, n)]] = Only(UU, Numbers(t, D \ R2))
    BY <1>1 DEF Only, Numbers
  <2>2. FF = Only(FF, Names(t, R2))
    BY DEF Only
  <2>. QED BY <2>1, <2>2 DEF Taken
<1>. HIDE DEF FF, UU, V
<1>9. ReadsTo(K2, Concat(h), "message", default_instance(t),
              Msg(t, Only(FF, Names(t, R1)), Only(UU, {})))
  <2>. DEFINE name == [g \in DOMAIN h |-> g]
              no == << >>
  <2>1. \A g \in DOMAIN h : \E f \in R1 : g = Target(t, f) /\ h[g] = d[f]
    BY <1>0 DEF Names
  <2>2. ASSUME NEW g \in DOMAIN h
        PROVE  name[g] \notin {} /\ ReadsField(K2, t, name[g], h[g], FF[name[g]])
    <3>1. PICK f \in R1 : g = Target(t, f) /\ h[g] = d[f]
      BY <2>1
    <3>2. ReadsField(K2, t, Target(t, f), d[f], w2[f])
      BY <1>0, <1>1, <1>3 DEF FieldGoes
    <3>3. name[g] = g /\ FF[g] = w2[f]
      BY <1>0, <1>1, <1>4, <3>1
    <3>. QED BY <3>1, <3>2, <3>3
  <2>3. \A e, g \in DOMAIN h : name[e] = name[g] => e = g
    OBVIOUS
  <2>4. IsFiniteSet(DOMAIN h)
    <3>1. IsFiniteSet(R1)
      BY <1>1, FS_Subset
    <3>. HIDE DEF R1
    <3>2. IsFiniteSet(Names(t, R1))
      <4>. DEFINE p == [f \in R1 |-> Target(t, f)]
      <4>1. {p[f] : f \in DOMAIN p} = Names(t, R1) /\ IsFiniteSet(DOMAIN p)
        BY <3>1 DEF Names
      <4>. HIDE DEF p
      <4>. QED BY <4>1, FiniteValues
    <3>. QED BY <1>0, <3>2 DEF R1
  <2>5. {name[g] : g \in DOMAIN h} = Names(t, R1) /\ DOMAIN h \ DOMAIN h = {}
    BY <1>0 DEF R1
  <2>. HIDE DEF name, no, R1, R2
  <2>9. SetsFields(K2, t, h, DOMAIN h, name, FF, {}) /\ OneToOne(name, DOMAIN h)
    BY <2>2, <2>3 DEF SetsFields, OneToOne
  <2>10. KeepsFields(K2, t, h, DOMAIN h \ DOMAIN h, no, UU, {}) /\ OneToOne(no, DOMAIN h \ DOMAIN h)
    BY DEF KeepsFields, OneToOne
  <2>6. ReadsTo(K2, Concat(h), "message", Msg(t, Only(FF, {}), Only(UU, {})),
                Msg(t, Only(FF, {} \cup {name[g] : g \in DOMAIN h}),
                    Only(UU, {} \cup {no[g] : g \in DOMAIN h \ DOMAIN h})))
    BY <2>4, <2>9, <2>10, Assemble
  <2>7. Msg(t, Only(FF, {}), Only(UU, {})) = default_instance(t)
    BY EmptyOnly DEF Msg, default_instance, Nothing
  <2>8. /\ {} \cup {name[g] : g \in DOMAIN h} = Names(t, R1)
        /\ {} \cup {no[g] : g \in DOMAIN h \ DOMAIN h} = {}
    BY <2>5
  <2>. QED BY <2>6, <2>7, <2>8
<1>10. ReadsTo(K2, Concat(V), "message", Msg(t, Only(FF, Names(t, R1)), Only(UU, {})),
               Msg(t, Only(FF, Names(t, R2)), Only(UU, Numbers(t, D \ R2))))
  <2>. DEFINE at(n) == NumberAt(t, D, n)
              R == Numbers(t, R2 \ R1)
              name == [n \in R |-> Target(t, at(n))]
              no == [n \in DOMAIN V |-> n]
  <2>1. ASSUME NEW n \in DOMAIN V
        PROVE  \E f \in D \ R1 : n = theirs[t][f].num /\ at(n) = f /\ V[n] = c[f] /\ UU[n] = c[f]
    <3>1. PICK f \in D \ R1 : n = theirs[t][f].num
      BY <1>6 DEF Numbers
    <3>2. V[n] = UU[n]
      BY <1>6 DEF Only
    <3>3. f \in D /\ UU[theirs[t][f].num] = c[f] /\ at(theirs[t][f].num) = f
      BY <1>5
    <3>. QED BY <3>1, <3>2, <3>3
  <2>2. ASSUME NEW n \in R
        PROVE  \E f \in R2 \ R1 : n = theirs[t][f].num /\ at(n) = f
    <3>1. PICK f \in R2 \ R1 : n = theirs[t][f].num
      BY DEF Numbers
    <3>. QED BY <1>1, <1>5, <3>1
  <2>3. R \in SUBSET DOMAIN V
    BY <1>1, <1>6 DEF Numbers
  <2>4. ASSUME NEW n \in DOMAIN V \ R
        PROVE  \E f \in D \ R2 : n = theirs[t][f].num /\ at(n) = f /\ V[n] = c[f] /\ UU[n] = c[f]
    <3>1. PICK f \in D \ R1 : n = theirs[t][f].num /\ at(n) = f /\ V[n] = c[f] /\ UU[n] = c[f]
      BY <2>1
    <3>2. f \notin R2
      BY <2>4, <3>1 DEF Numbers
    <3>. QED BY <3>1, <3>2
  <2>5. ASSUME NEW n \in R
        PROVE  name[n] \notin Names(t, R1) /\ ReadsField(K2, t, name[n], V[n], FF[name[n]])
    <3>1. PICK f \in R2 \ R1 : n = theirs[t][f].num /\ at(n) = f
      BY <2>2
    <3>2. name[n] = Target(t, f)
      BY <3>1
    <3>6. n \in DOMAIN V
      BY <2>3
    <3>7. V[n] = c[f]
      <4>1. V[n] = c[at(n)]
        BY <2>1, <3>6
      <4>. QED BY <3>1, <4>1
    <3>3. Target(t, f) \notin Names(t, R1)
      <4>1. \A e \in R1 : Seen(t, e) /\ e \in DOMAIN theirs[t]
        BY <1>1, <1>2
      <4>2. Seen(t, f) /\ f \in DOMAIN theirs[t]
        BY <1>1, <1>2
      <4>3. \A e \in R1 : Target(t, e) # Target(t, f)
        <5>. HIDE DEF R1, R2
        <5>. QED BY <3>1, <4>1, <4>2, TargetsDiffer
      <4>. QED BY <4>3 DEF Names
    <3>4. ReadsField(K2, t, Target(t, f), c[f], w2[f])
      BY <1>0, <1>1, <1>3 DEF FieldGoes
    <3>5. FF[Target(t, f)] = w2[f]
      BY <1>4
    <3>. HIDE DEF name
    <3>. QED BY <3>2, <3>3, <3>4, <3>5, <3>7
  <2>6. ASSUME NEW m \in R, NEW n \in R, name[m] = name[n]
        PROVE  m = n
    <3>1. PICK f \in R2 \ R1 : m = theirs[t][f].num /\ at(m) = f
      BY <2>2
    <3>2. PICK e \in R2 \ R1 : n = theirs[t][e].num /\ at(n) = e
      BY <2>2
    <3>3. Target(t, f) = Target(t, e)
      BY <2>6, <3>1, <3>2
    <3>4. Seen(t, f) /\ Seen(t, e) /\ f \in DOMAIN theirs[t] /\ e \in DOMAIN theirs[t]
      BY <1>1, <1>2
    <3>5. f = e
      <4>. HIDE DEF R1, R2
      <4>. QED BY <3>3, <3>4, TargetsDiffer
    <3>. QED BY <3>1, <3>2, <3>5
  <2>7. ASSUME NEW n \in DOMAIN V \ R
        PROVE  no[n] \notin {} /\ V[n] \in Skips(K2, t, no[n]) /\ UU[no[n]] = V[n]
    <3>1. PICK f \in D \ R2 : n = theirs[t][f].num /\ at(n) = f /\ V[n] = c[f] /\ UU[n] = c[f]
      BY <2>4
    <3>2. c[f] \in Skips(K2, t, theirs[t][f].num)
      BY <1>0, <1>3 DEF FieldGoes
    <3>. QED BY <3>1, <3>2
  <2>8. \A m, n \in DOMAIN V \ R : no[m] = no[n] => m = n
    OBVIOUS
  <2>9. IsFiniteSet(DOMAIN V)
    <3>. DEFINE S == D \ R1
    <3>1. IsFiniteSet(S)
      BY FS_Subset
    <3>. HIDE DEF S
    <3>2. IsFiniteSet(Numbers(t, S))
      <4>. DEFINE p == [f \in S |-> theirs[t][f].num]
      <4>1. {p[f] : f \in DOMAIN p} = Numbers(t, S) /\ IsFiniteSet(DOMAIN p)
        BY <3>1 DEF Numbers
      <4>. HIDE DEF p
      <4>. QED BY <4>1, FiniteValues
    <3>. QED BY <1>6, <3>2 DEF S
  <2>10. Names(t, R1) \cup {name[n] : n \in R} = Names(t, R2)
    <3>1. \A n \in R : \E f \in R2 : name[n] = Target(t, f)
      BY <2>2
    <3>2. ASSUME NEW f \in R2 \ R1 PROVE \E n \in R : name[n] = Target(t, f)
      <4>1. theirs[t][f].num \in R /\ at(theirs[t][f].num) = f
        BY <1>1, <1>5 DEF Numbers
      <4>. QED BY <4>1
    <3>. HIDE DEF name, R
    <3>. QED BY <1>1, <3>1, <3>2 DEF Names
  <2>11. {no[n] : n \in DOMAIN V \ R} = Numbers(t, D \ R2)
    <3>1. \A n \in DOMAIN V \ R : n \in Numbers(t, D \ R2)
      BY <2>4 DEF Numbers
    <3>2. ASSUME NEW f \in D \ R2 PROVE theirs[t][f].num \in DOMAIN V \ R
      <4>1. theirs[t][f].num \in DOMAIN V
        BY <1>1, <1>6 DEF Numbers
      <4>2. theirs[t][f].num \notin R
        <5>1. at(theirs[t][f].num) = f
          BY <1>5
        <5>. DEFINE n == theirs[t][f].num
        <5>2. n \in R => at(n) \in R2
          BY <2>2
        <5>. HIDE DEF R, at, R2
        <5>. QED BY <5>1, <5>2
      <4>. QED BY <4>1, <4>2
    <3>3. {no[n] : n \in DOMAIN V \ R} = DOMAIN V \ R
      OBVIOUS
    <3>. HIDE DEF no, R, R2
    <3>4. DOMAIN V \ R \subseteq Numbers(t, D \ R2)
      BY <3>1
    <3>5. Numbers(t, D \ R2) \subseteq DOMAIN V \ R
      BY <3>2 DEF Numbers
    <3>. QED BY <3>3, <3>4, <3>5
  <2>. HIDE DEF name, no, R, R1, R2, at
  <2>14. SetsFields(K2, t, V, R, name, FF, Names(t, R1)) /\ OneToOne(name, R)
    BY <2>5, <2>6 DEF SetsFields, OneToOne
  <2>15. KeepsFields(K2, t, V, DOMAIN V \ R, no, UU, {}) /\ OneToOne(no, DOMAIN V \ R)
    BY <2>7, <2>8 DEF KeepsFields, OneToOne
  <2>12. ReadsTo(K2, Concat(V), "message", Msg(t, Only(FF, Names(t, R1)), Only(UU, {})),
                 Msg(t, Only(FF, Names(t, R1) \cup {name[n] : n \in R}),
                     Only(UU, {} \cup {no[n] : n \in DOMAIN V \ R})))
    BY <2>3, <2>9, <2>14, <2>15, Assemble
  <2>13. {} \cup Numbers(t, D \ R2) = Numbers(t, D \ R2)
    OBVIOUS
  <2>. QED BY <2>10, <2>11, <2>12, <2>13
<1>. QED
  BY <1>7, <1>8, <1>9, <1>10, ReadsTrans

-----------------------------------------------------------------------------
(***************************************************************************)
(* Fields on their way                                                     *)
(***************************************************************************)
\* The type of the messages in a field.
SubType(field) == IF field.kind = "map" THEN ours[field.type].value.type ELSE field.type

\* The messages in X, of type u, on their way to the relay, and from there.
Carry(K1, K2, u, X, s0, p0, im1, im2) ==
    \A x \in X : /\ p0[x] \in Seq(Part) /\ s0[x] = Len(p0[x])
                 /\ ReadsTo(K1, p0[x], "message", default_instance(u), im1[x])
                 /\ ReadsTo(K2, p0[x], "message", default_instance(u), im2[x])

Relay(K2, u, X, im1, s1, p1, im2) ==
    \A x \in X : /\ p1[im1[x]] \in Seq(Part) /\ s1[im1[x]] = Len(p1[im1[x]])
                 /\ ReadsTo(K2, p1[im1[x]], "message", default_instance(u), im2[x])

\* A field on its way, and what is announced of it.
Goes(K1, K2, t, f, v, s0, p0, w1, s1, p1, w2) ==
    LET c == FieldParts(theirs[t][f], v, s0, p0)
        d == FieldParts(ours[t][Target(t, f)], w1, s1, p1)
    IN  /\ FieldGoes(K1, K2, t, f, c, w1, w2, d)
        /\ FieldSize(theirs[t][f], v, s0) = Len(c)
        /\ f \in Seens(K1, t, {f}) => FieldSize(ours[t][Target(t, f)], w1, s1) = Len(d)

\* What is written of an image is what would be written with the images' sizes and parts.
LEMMA ImageParts ==
    ASSUME NEW field \in FieldType, NEW X, NEW v, Value(field, v, X), NEW im, NEW s, NEW p,
           NEW size, size = [x \in X |-> s[im[x]]], NEW sub, sub = [x \in X |-> p[im[x]]]
    PROVE  /\ FieldParts(field, Image(field, v, im), s, p) = FieldParts(field, v, size, sub)
           /\ FieldSize(field, Image(field, v, im), s) = FieldSize(field, v, size)
<1>. DEFINE w == Image(field, v, im)
<1>0. \A x \in X : size[x] = s[im[x]] /\ sub[x] = p[im[x]]
  OBVIOUS
<1>1. CASE field.kind \in {"scalar", "repeated", "packed"}
  BY <1>1 DEF FieldParts, FieldSize, Image
<1>2. CASE field.kind = "message"
  <2>1. v \in X
    BY <1>2 DEF Value
  <2>. QED BY <1>0, <1>2, <2>1 DEF FieldParts, FieldSize, Image
<1>3. CASE field.kind = "messages"
  <2>1. w = [i \in DOMAIN v |-> im[v[i]]] /\ DOMAIN w = DOMAIN v
    BY <1>3 DEF Image
  <2>2. \A i \in DOMAIN v : v[i] \in X /\ w[i] = im[v[i]]
    BY <1>3, <2>1 DEF Value
  <2>. HIDE DEF w
  <2>3. \A i \in DOMAIN v : size[v[i]] = s[w[i]] /\ sub[v[i]] = p[w[i]]
    BY <1>0, <2>2
  <2>4. [i \in DOMAIN w |-> Announced(field.num, s[w[i]], p[w[i]])] =
           [i \in DOMAIN v |-> Announced(field.num, size[v[i]], sub[v[i]])]
    BY <2>1, <2>3
  <2>5. [i \in DOMAIN w |-> 1 + s[w[i]]] = [i \in DOMAIN v |-> 1 + size[v[i]]]
    BY <2>1, <2>3
  <2>. QED BY <1>3, <2>4, <2>5 DEF FieldParts, FieldSize, w
<1>4. CASE field.kind = "map"
  <2>. DEFINE entry == ours[field.type]
  <2>1. w = [k \in DOMAIN v |-> Read(entry, v[k], im)] /\ DOMAIN w = DOMAIN v
    BY <1>4 DEF Image
  <2>2. \A k \in DOMAIN v : v[k] \in EntryValues(entry, X) /\ w[k] = Read(entry, v[k], im)
    BY <1>4, <2>1 DEF Value
  <2>. HIDE DEF w, entry
  <2>3. ASSUME NEW k \in DOMAIN v
        PROVE  /\ EntrySize(entry, w[k], s) = EntrySize(entry, v[k], size)
               /\ EntryParts(entry, k, w[k], s, p) = EntryParts(entry, k, v[k], size, sub)
    <3>1. CASE entry.value.kind = "message"
      <4>1. w[k] = im[v[k]] /\ v[k] \in X
        BY <2>2, <3>1 DEF Read, EntryValues
      <4>2. size[v[k]] = s[w[k]] /\ sub[v[k]] = p[w[k]]
        BY <1>0, <4>1
      <4>. QED BY <3>1, <4>2 DEF EntrySize, EntryParts
    <3>2. CASE entry.value.kind # "message"
      <4>1. w[k] = v[k]
        BY <2>2, <3>2 DEF Read
      <4>. QED BY <3>2, <4>1 DEF EntrySize, EntryParts
    <3>. QED BY <3>1, <3>2
  <2>4. [k \in DOMAIN w |-> Announced(field.num, EntrySize(entry, w[k], s),
                                      EntryParts(entry, k, w[k], s, p))] =
           [k \in DOMAIN v |-> Announced(field.num, EntrySize(entry, v[k], size),
                                         EntryParts(entry, k, v[k], size, sub))]
    BY <2>1, <2>3
  <2>5. [k \in DOMAIN w |-> 1 + EntrySize(entry, w[k], s)] =
           [k \in DOMAIN v |-> 1 + EntrySize(entry, v[k], size)]
    BY <2>1, <2>3
  <2>6. FieldParts(field, w, s, p) = FieldParts(field, v, size, sub)
    BY <1>4, <2>4 DEF FieldParts, entry
  <2>7. FieldSize(field, w, s) = FieldSize(field, v, size)
    BY <1>4, <2>5 DEF FieldSize, entry
  <2>. QED BY <2>6, <2>7 DEF w
<1>. QED
  BY <1>1, <1>2, <1>3, <1>4 DEF FieldType

\* The messages in an image are the images of those in the value.
LEMMA ImageNested ==
    ASSUME NEW field \in FieldType, NEW v, NEW im
    PROVE  Nested(field, Image(field, v, im)) = {im[x] : x \in Nested(field, v)}
<1>1. CASE field.kind \in {"scalar", "repeated", "packed", "message"}
  BY <1>1 DEF Nested, Image
<1>2. CASE field.kind = "messages"
  <2>1. Image(field, v, im) = [i \in DOMAIN v |-> im[v[i]]]
    BY <1>2 DEF Image
  <2>. QED BY <1>2, <2>1 DEF Nested, ToSet
<1>3. CASE field.kind = "map"
  <2>1. Image(field, v, im) = [k \in DOMAIN v |-> Read(ours[field.type], v[k], im)]
    BY <1>3 DEF Image
  <2>. QED BY <1>3, <2>1 DEF Nested, Read
<1>. QED BY <1>1, <1>2, <1>3 DEF FieldType

\* A value without messages is its image, and so is any whose messages are theirs.
LEMMA ImageSame ==
    ASSUME NEW field \in FieldType, NEW X, NEW v, Value(field, v, X), NEW im
    PROVE  /\ field.kind \in Flat => Image(field, v, im) = v
           /\ field.kind = "messages" => Len(Image(field, v, im)) = Len(v)
           /\ (\A x \in X : im[x] = x) => Image(field, v, im) = v
<1>1. field.kind \in Flat => Image(field, v, im) = v
  BY DEF Flat, Image
<1>2. field.kind = "messages" => Len(Image(field, v, im)) = Len(v)
  <2>. SUFFICES ASSUME field.kind = "messages" PROVE Len(Image(field, v, im)) = Len(v)
    OBVIOUS
  <2>. DEFINE w == Image(field, v, im)
  <2>1. w = [i \in DOMAIN v |-> im[v[i]]] /\ v \in Seq(X) /\ v # << >>
    BY DEF Image, Value
  <2>2. w = [i \in DOMAIN v |-> w[i]]
    BY <2>1
  <2>. HIDE DEF w
  <2>3. Len(w) = Len(v)
    BY <2>1, <2>2, ListLen
  <2>. QED BY <2>3 DEF w
<1>3. ASSUME \A x \in X : im[x] = x PROVE Image(field, v, im) = v
  <2>1. CASE field.kind = "message"
    BY <1>3, <2>1 DEF Image, Value
  <2>2. CASE field.kind = "messages"
    <3>1. Image(field, v, im) = [i \in DOMAIN v |-> im[v[i]]] /\ v \in Seq(X)
      BY <2>2 DEF Image, Value
    <3>2. \A i \in DOMAIN v : im[v[i]] = v[i]
      BY <1>3, <3>1
    <3>3. v = [i \in DOMAIN v |-> v[i]]
      BY <3>1
    <3>. QED BY <3>1, <3>2, <3>3
  <2>3. CASE field.kind = "map"
    <3>1. /\ Image(field, v, im) = [k \in DOMAIN v |-> Read(ours[field.type], v[k], im)]
          /\ v = [k \in DOMAIN v |-> v[k]]
          /\ \A k \in DOMAIN v : v[k] \in EntryValues(ours[field.type], X)
      BY <2>3 DEF Image, Value
    <3>2. \A k \in DOMAIN v : Read(ours[field.type], v[k], im) = v[k]
      BY <1>3, <3>1 DEF Read, EntryValues
    <3>. QED BY <3>1, <3>2
  <2>. QED BY <1>1, <2>1, <2>2, <2>3 DEF FieldType, Flat
<1>. QED BY <1>1, <1>2, <1>3

ReadyEntry(K1, K2, field) ==
    field.kind = "map" => ReadableEntry(K1, field.type) /\ ReadableEntry(K2, field.type)

\* A field that both have is taken by itself.
LEMMA SameTarget ==
    ASSUME NEW t, Regular(t), NEW f, f \in DOMAIN theirs[t], f \in DOMAIN ours[t],
           theirs[t][f] = ours[t][f], theirs[t][f] \in FieldType
    PROVE  Seen(t, f) /\ Target(t, f) = f /\ Fair(t, f)
<1>1. Meets(t, f, f)
  BY WrittenTag DEF Meets
<1>2. Fair(t, f)
  BY DEF Fair, Regular
<1>. QED BY <1>1, <1>2, TargetOne

\* A field that is the same on both sides.
LEMMA SameGoes ==
    ASSUME NEW K1, NEW K2, NEW t, NEW f,
           Regular(t), K1[t] \subseteq K2[t], K2[t] \subseteq DOMAIN ours[t],
           f \in DOMAIN theirs[t], f \in K2[t], theirs[t][f] = ours[t][f], GoodField(ours[t][f]),
           ReadyEntry(K1, K2, ours[t][f]),
           NEW X, NEW v, Value(ours[t][f], v, X),
           NEW s0, NEW p0, NEW s1, NEW p1, NEW im1, NEW im2,
           Carry(K1, K2, SubType(ours[t][f]), X, s0, p0, im1, im2),
           f \in K1[t] => Relay(K2, SubType(ours[t][f]), X, im1, s1, p1, im2)
    PROVE  Goes(K1, K2, t, f, v, s0, p0, Image(ours[t][f], v, im1), s1, p1, Image(ours[t][f], v, im2))
<1>. DEFINE field == ours[t][f]
            c == FieldParts(field, v, s0, p0)
            w1 == Image(field, v, im1)
            w2 == Image(field, v, im2)
            d == FieldParts(field, w1, s1, p1)
<1>1. field \in FieldType /\ f \in DOMAIN ours[t]
  BY DEF GoodField
<1>2. Seen(t, f) /\ Target(t, f) = f /\ Fair(t, f)
  BY <1>1, SameTarget
<1>3. Fit(X, s0, p0)
  BY DEF Fit, Carry
<1>4. /\ c \in Seq(Part) \ {<< >>}
      /\ FieldSize(field, v, s0) = Len(c)
  BY <1>3, FieldType2, FieldLen
<1>5. Numbered(K1, t) /\ Numbered(K2, t)
  BY DEF Regular, Numbered
<1>6. Readable(K2, t, f) /\ (f \in K1[t] => Readable(K1, t, f))
  BY <1>2, <1>5 DEF Readable
<1>7. ReadsNested(K1, X, p0, field, im1) /\ ReadsNested(K2, X, p0, field, im2)
  BY DEF ReadsNested, ReadsAll, ReadsValues, Carry, SubType, ReadyEntry
<1>8. ReadsField(K2, t, f, c, w2)
  BY <1>3, <1>6, <1>7, FieldReads
<1>9. ASSUME f \in K1[t]
      PROVE  /\ ReadsField(K1, t, f, c, w1)
             /\ d \in Seq(Part) /\ ReadsField(K2, t, f, d, w2) /\ FieldSize(field, w1, s1) = Len(d)
  <2>1. ReadsField(K1, t, f, c, w1)
    BY <1>3, <1>6, <1>7, <1>9, FieldReads
  <2>. DEFINE size == [x \in X |-> s1[im1[x]]]
              sub == [x \in X |-> p1[im1[x]]]
  <2>2. Relay(K2, SubType(ours[t][f]), X, im1, s1, p1, im2)
    BY <1>9
  <2>3. Fit(X, size, sub)
    BY <2>2 DEF Fit, Relay
  <2>4. ReadsNested(K2, X, sub, field, im2)
    <3>1. ReadsAll(K2, X, sub, SubType(field), im2)
      BY <2>2 DEF ReadsAll, Relay
    <3>. HIDE DEF sub, field
    <3>. QED BY <3>1 DEF ReadsNested, ReadsValues, SubType, ReadyEntry, field
  <2>5. d = FieldParts(field, v, size, sub) /\ FieldSize(field, w1, s1) = FieldSize(field, v, size)
    BY <1>1, ImageParts
  <2>. HIDE DEF size, sub, w1, d
  <2>6. ReadsField(K2, t, f, d, w2)
    BY <1>6, <2>3, <2>4, <2>5, FieldReads
  <2>7. d \in Seq(Part) /\ FieldSize(field, w1, s1) = Len(d)
    BY <2>3, <2>5, FieldType2, FieldLen
  <2>. QED BY <2>1, <2>6, <2>7
<1>10. ASSUME f \notin K1[t] PROVE c \in Skips(K1, t, field.num)
  <2>1. \A tag : tag.num = field.num /\ tag.wt = Written_wt(field) => Hit(K1, t, tag) = {}
    BY <1>5, <1>10, <1>1 DEF Hit, Matches, Numbered
  <2>2. t \in DOMAIN ours
    BY DEF Regular
  <2>. QED BY <1>3, <2>1, <2>2, FieldSkips
<1>11. /\ f \in Seens(K1, t, {f}) <=> f \in K1[t]
       /\ f \in Seens(K2, t, {f})
  BY <1>2 DEF Seens
<1>. HIDE DEF field, c, d, w1, w2
<1>12. theirs[t][f] = field /\ ours[t][Target(t, f)] = field
  BY <1>2 DEF field
<1>13. FieldGoes(K1, K2, t, f, c, w1, w2, d)
  BY <1>2, <1>4, <1>8, <1>9, <1>10, <1>11, <1>12 DEF FieldGoes
<1>14. Goes(K1, K2, t, f, v, s0, p0, w1, s1, p1, w2)
  BY <1>4, <1>9, <1>11, <1>12, <1>13 DEF Goes, c, d
<1>. QED BY <1>14 DEF w1, w2, field

\* A field that no tag of ours stands for.
LEMMA ForeignGoes ==
    ASSUME NEW K1, NEW K2, NEW t \in DOMAIN ours, NEW f, f \in DOMAIN theirs[t],
           K1[t] \subseteq K2[t], K2[t] \subseteq DOMAIN ours[t],
           GoodField(theirs[t][f]), ~Seen(t, f),
           NEW X, NEW v, Value(theirs[t][f], v, X), NEW s0, NEW p0, Fit(X, s0, p0),
           NEW s1, NEW p1, NEW w1, NEW w2
    PROVE  Goes(K1, K2, t, f, v, s0, p0, w1, s1, p1, w2)
<1>. DEFINE field == theirs[t][f]
            c == FieldParts(field, v, s0, p0)
<1>1. c \in Seq(Part) /\ FieldSize(field, v, s0) = Len(c)
  BY FieldType2, FieldLen
<1>2. \A tag : tag.num = field.num /\ tag.wt = Written_wt(field) =>
                  Hit(K1, t, tag) = {} /\ Hit(K2, t, tag) = {}
  <2>1. \A g : ~Meets(t, f, g)
    BY DEF Seen
  <2>. QED BY <2>1 DEF Hit, Matches, Meets
<1>3. c \in Skips(K1, t, field.num) /\ c \in Skips(K2, t, field.num)
  BY <1>2, FieldSkips
<1>4. f \notin Seens(K1, t, {f}) /\ f \notin Seens(K2, t, {f})
  BY DEF Seens
<1>. QED
  BY <1>1, <1>3, <1>4 DEF Goes, FieldGoes

-----------------------------------------------------------------------------
(***************************************************************************)
(* A map that is read as a message of which no field is known              *)
(***************************************************************************)
\* A message of unknown fields.
Loose(K, u) ==
    {y \in {Msg(u, << >>, U) : U \in UNION {[S -> Seq(Part)] : S \in SUBSET Nat}} :
        /\ IsFiniteSet(DOMAIN y.unknown)
        /\ \A n \in DOMAIN y.unknown : y.unknown[n] \in Skips(K, u, n)}

\* Contents that set a field whatever it was.
Puts(K, t, g, c, w) ==
    \A F, U : ReadsTo(K, c, "message", Msg(t, F, U), Msg(t, Assign(F, g, w), U))

OddWay(K1, K2, t, g, u, c) ==
    \E y \in Loose(K2, u) : (g \in K1[t] => Puts(K1, t, g, c, y)) /\ Puts(K2, t, g, c, y)

\* The odd one: a map of the writer's is a message of ours that has no fields.
Odd(t, f) ==
    /\ theirs[t][f].kind = "map" /\ ours[theirs[t][f].type].value.kind = "scalar"
    /\ Seen(t, f)
    /\ LET new == ours[t][Target(t, f)] IN new.kind = "message" /\ DOMAIN ours[new.type] = {}

\* A message of unknown parts only, each under its number.
LEMMA LooseIs ==
    ASSUME NEW K, NEW u, NEW U, U = [n \in DOMAIN U |-> U[n]], DOMAIN U \subseteq Nat,
           IsFiniteSet(DOMAIN U), \A n \in DOMAIN U : U[n] \in Skips(K, u, n)
    PROVE  Msg(u, << >>, U) \in Loose(K, u)
<1>1. \A n \in DOMAIN U : U[n] \in Seq(Part)
  BY DEF Skips
<1>2. U \in [DOMAIN U -> Seq(Part)]
  BY <1>1
<1>3. U \in UNION {[S -> Seq(Part)] : S \in SUBSET Nat}
  BY <1>2
<1>4. Msg(u, << >>, U).unknown = U
  BY MsgFields
<1>. QED
  BY <1>3, <1>4 DEF Loose

\* It is written as it was, and read so.
LEMMA LooseReads ==
    ASSUME NEW K, NEW u, NEW y \in Loose(K, u)
    PROVE  /\ y.type = u /\ y.fields = << >> /\ Concat(y.unknown) \in Seq(Part)
           /\ unknown_fields_size(y.unknown) = Len(Concat(y.unknown))
           /\ ReadsTo(K, Concat(y.unknown), "message", default_instance(u), y)
<1>0. PICK U \in UNION {[S -> Seq(Part)] : S \in SUBSET Nat} : y = Msg(u, << >>, U)
  BY DEF Loose
<1>1. PICK S \in SUBSET Nat : U \in [S -> Seq(Part)]
  OBVIOUS
<1>2. y.type = u /\ y.fields = << >> /\ y.unknown = U
  BY <1>0, MsgFields
<1>3. IsFiniteSet(DOMAIN U) /\ \A n \in DOMAIN U : U[n] \in Skips(K, u, n)
  BY <1>2 DEF Loose
<1>4. \A n \in DOMAIN U : U[n] \in Seq(Part)
  BY <1>1
<1>5. Concat(U) \in Seq(Part) /\ Len(Concat(U)) = SumFunction([n \in DOMAIN U |-> Len(U[n])])
  BY <1>3, <1>4, ConcatLen
<1>. DEFINE name == << >>
            no == [n \in DOMAIN U |-> n]
            FF == << >>
            R == {}
            A == {}
            B == {}
<1>6. SetsFields(K, u, U, R, name, FF, A) /\ OneToOne(name, R) /\ R \in SUBSET DOMAIN U
  BY DEF SetsFields, OneToOne
<1>7. KeepsFields(K, u, U, DOMAIN U \ R, no, U, B) /\ OneToOne(no, DOMAIN U \ R)
  BY <1>3 DEF KeepsFields, OneToOne
<1>8. /\ A \cup {name[d] : d \in R} = {}
      /\ B \cup {no[d] : d \in DOMAIN U \ R} = DOMAIN U
      /\ A = {} /\ B = {}
  OBVIOUS
<1>10. Only(FF, {}) = << >> /\ Only(U, {}) = << >> /\ Only(U, DOMAIN U) = U
  BY <1>1 DEF Only
<1>. HIDE DEF name, no, FF, R, A, B
<1>9. ReadsTo(K, Concat(U), "message", Msg(u, Only(FF, A), Only(U, B)),
              Msg(u, Only(FF, A \cup {name[d] : d \in R}),
                  Only(U, B \cup {no[d] : d \in DOMAIN U \ R})))
  BY <1>3, <1>6, <1>7, Assemble
<1>11. Msg(u, << >>, << >>) = default_instance(u)
  BY DEF Msg, default_instance, Nothing
<1>. QED
  BY <1>0, <1>2, <1>5, <1>8, <1>9, <1>10, <1>11 DEF unknown_fields_size

\* A value is skipped by a message of which no field is known.
LEMMA OneSkips ==
    ASSUME NEW K, NEW u \in DOMAIN ours, K[u] = {}, NEW field \in FieldType, NEW v \in Raw
    PROVE  One(field, v) \in Skips(K, u, field.num)
<1>1. \A tag : Hit(K, u, tag) = {}
  BY DEF Hit
<1>. DEFINE tag == OneTag(field, v)
            parts == OneParts(field, v)
<1>2. One(field, v) = Item(tag, parts) /\ IsItem(tag, parts) /\ tag.num = field.num
  BY OneItem
<1>. HIDE DEF tag, parts
<1>. QED BY <1>1, <1>2, ItemSkips

\* What is put last remains.
LEMMA PutsMore ==
    ASSUME NEW K, NEW t, NEW g, NEW c, NEW d, NEW y, NEW z, Puts(K, t, g, c, y), Puts(K, t, g, d, z)
    PROVE  Puts(K, t, g, c \o d, z)
<1>. SUFFICES ASSUME NEW F, NEW U
              PROVE  ReadsTo(K, c \o d, "message", Msg(t, F, U), Msg(t, Assign(F, g, z), U))
  BY DEF Puts
<1>1. ReadsTo(K, c, "message", Msg(t, F, U), Msg(t, Assign(F, g, y), U))
  BY DEF Puts
<1>2. ReadsTo(K, d, "message", Msg(t, Assign(F, g, y), U),
              Msg(t, Assign(Assign(F, g, y), g, z), U))
  BY DEF Puts
<1>3. Assign(Assign(F, g, y), g, z) = Assign(F, g, z)
  BY DEF Assign
<1>. QED BY <1>1, <1>2, <1>3, ReadsTrans

\* An entry of a map of numbers, read as a message of which no field is known, is kept
\* there and passed on.
LEMMA OddEntry ==
    ASSUME NEW K1, NEW K2, NEW u \in DOMAIN ours, DOMAIN ours[u] = {}, K1[u] \subseteq DOMAIN ours[u],
           K2[u] \subseteq DOMAIN ours[u],
           NEW entry, GoodEntry(entry), entry.value.kind = "scalar",
           NEW k \in Raw, NEW w \in Raw, NEW size, NEW sub
    PROVE  \E y \in Loose(K2, u) :
              /\ ReadsTo(K1, EntryParts(entry, k, w, size, sub), "message", default_instance(u), y)
              /\ ReadsTo(K2, EntryParts(entry, k, w, size, sub), "message", default_instance(u), y)
<1>. DEFINE c == One(entry.key, k)
            d == One(entry.value, w)
            m == entry.key.num
            n == entry.value.num
            U1 == Assign(<< >>, m, c)
            U2 == Assign(U1, n, d)
<1>1. EntryParts(entry, k, w, size, sub) = c \o d
  BY DEF EntryParts
<1>2. m \in Nat /\ n \in Nat /\ m # n /\ entry.key \in FieldType /\ entry.value \in FieldType
  BY DEF GoodEntry, IsEntry, FieldType
<1>3. c \in Seq(Part) /\ d \in Seq(Part)
  BY <1>2, OneType
<1>4. << >> \o c = c /\ << >> \o d = d
  <2>. HIDE DEF c, d
  <2>. QED BY <1>3
<1>5. \A K : K[u] = {} => c \in Skips(K, u, m) /\ d \in Skips(K, u, n)
  BY <1>2, OneSkips
<1>6. ASSUME NEW K, K[u] = {}
      PROVE  ReadsTo(K, c \o d, "message", default_instance(u), Msg(u, << >>, U2))
  <2>1. c \in Skips(K, u, m) /\ d \in Skips(K, u, n)
    BY <1>5, <1>6
  <2>2. Keep(Msg(u, << >>, << >>), m, c) = Msg(u, << >>, U1)
    <3>. DEFINE V == << >>
                o == IF m \in DOMAIN V THEN V[m] ELSE << >>
    <3>1. o = << >> /\ << >> = V
      OBVIOUS
    <3>. HIDE DEF V, m, c
    <3>2. Keep(Msg(u, << >>, V), m, c) = Msg(u, << >>, Assign(V, m, o \o c))
      BY MsgFields
    <3>. HIDE DEF o
    <3>. QED BY <1>4, <3>1, <3>2
  <2>3. n \notin DOMAIN U1
    BY <1>2 DEF Assign
  <2>4. Keep(Msg(u, << >>, U1), n, d) = Msg(u, << >>, U2)
    <3>. HIDE DEF U1, d, n
    <3>1. Keep(Msg(u, << >>, U1), n, d) =
             Msg(u, << >>, Assign(U1, n, (IF n \in DOMAIN U1 THEN U1[n] ELSE << >>) \o d))
      BY MsgFields
    <3>. QED BY <1>4, <2>3, <3>1
  <2>. HIDE DEF U2, U1, c, d, m, n
  <2>5. ReadsTo(K, c, "message", Msg(u, << >>, << >>), Msg(u, << >>, U1))
    <3>1. m \notin DOMAIN << >>
      OBVIOUS
    <3>. QED BY <2>1, <2>2, <3>1 DEF Skips
  <2>6. ReadsTo(K, d, "message", Msg(u, << >>, U1), Msg(u, << >>, U2))
    BY <2>1, <2>3, <2>4 DEF Skips
  <2>7. Msg(u, << >>, << >>) = default_instance(u)
    BY DEF Msg, default_instance, Nothing
  <2>. QED BY <2>5, <2>6, <2>7, ReadsTrans
<1>7. DOMAIN U2 = {m, n} /\ U2[m] = c /\ U2[n] = d /\ U2 = [x \in DOMAIN U2 |-> U2[x]]
  <2>. HIDE DEF c, d, m, n
  <2>. QED BY <1>2 DEF Assign
<1>8. Msg(u, << >>, U2) \in Loose(K2, u)
  <2>1. IsFiniteSet({m, n})
    <3>. HIDE DEF m, n
    <3>1. IsFiniteSet({m}) /\ {m, n} = {m} \cup {n}
      BY FS_Singleton
    <3>. QED BY <3>1, FS_AddElement
  <2>2. K2[u] = {}
    OBVIOUS
  <2>. HIDE DEF U2, U1, c, d, m, n
  <2>3. \A x \in DOMAIN U2 : U2[x] \in Skips(K2, u, x)
    BY <1>5, <1>7, <2>2
  <2>4. DOMAIN U2 \subseteq Nat /\ IsFiniteSet(DOMAIN U2)
    BY <1>2, <1>7, <2>1
  <2>. QED BY <1>7, <2>3, <2>4, LooseIs
<1>9. K1[u] = {} /\ K2[u] = {}
  OBVIOUS
<1>. HIDE DEF U2, U1, c, d, m, n
<1>. QED BY <1>1, <1>6, <1>8, <1>9

OddCase(K1, K2, t, g, u, field, X, v) ==
    /\ Regular(t) /\ K1[t] \subseteq K2[t] /\ K2[t] \subseteq DOMAIN ours[t]
    /\ GoodField(field) /\ field.kind = "map" /\ ours[field.type].value.kind = "scalar"
    /\ g \in K2[t] /\ Fair(t, g) /\ GoodField(ours[t][g])
    /\ ours[t][g].kind = "message" /\ ours[t][g].num = field.num
    /\ u = ours[t][g].type /\ u \in DOMAIN ours /\ DOMAIN ours[u] = {}
    /\ K1[u] \subseteq DOMAIN ours[u] /\ K2[u] \subseteq DOMAIN ours[u]
    /\ Value(field, v, X)

\* A map of numbers, read as such a message, makes one that holds its last entry.
LEMMA OddReads ==
    ASSUME NEW K1, NEW K2, NEW t, NEW g, NEW u, NEW field, NEW X, NEW v,
           OddCase(K1, K2, t, g, u, field, X, v), NEW size, NEW sub
    PROVE  OddWay(K1, K2, t, g, u, FieldParts(field, v, size, sub))
<1>0. /\ Regular(t) /\ K1[t] \subseteq K2[t] /\ K2[t] \subseteq DOMAIN ours[t]
      /\ GoodField(field) /\ field.kind = "map" /\ ours[field.type].value.kind = "scalar"
      /\ g \in K2[t] /\ Fair(t, g) /\ GoodField(ours[t][g])
      /\ ours[t][g].kind = "message" /\ ours[t][g].num = field.num
      /\ u = ours[t][g].type /\ u \in DOMAIN ours /\ DOMAIN ours[u] = {}
      /\ K1[u] \subseteq DOMAIN ours[u] /\ K2[u] \subseteq DOMAIN ours[u]
      /\ Value(field, v, X)
  BY DEF OddCase
<1>. DEFINE entry == ours[field.type]
            q == [k \in DOMAIN v |-> Announced(field.num, EntrySize(entry, v[k], size),
                                               EntryParts(entry, k, v[k], size, sub))]
            Q == {c \in Seq(Part) : OddWay(K1, K2, t, g, u, c)}
<1>1. FieldParts(field, v, size, sub) = Concat(q)
  BY <1>0 DEF FieldParts
<1>2. GoodEntry(entry)
  BY <1>0 DEF GoodField
<1>3. /\ IsFiniteSet(DOMAIN v) /\ DOMAIN v # {} /\ DOMAIN v \subseteq Raw
      /\ \A k \in DOMAIN v : v[k] \in Raw
  BY <1>0, <1>2 DEF Value, EntryValues
<1>4. Numbered(K1, t) /\ Numbered(K2, t)
  BY <1>0 DEF Regular, Numbered
<1>5. ASSUME NEW c \in Q, NEW d \in Q PROVE c \o d \in Q
  <2>1. c \o d \in Seq(Part)
    BY ConcatProperties
  <2>2. PICK y \in Loose(K2, u) : (g \in K1[t] => Puts(K1, t, g, c, y)) /\ Puts(K2, t, g, c, y)
    BY DEF OddWay
  <2>3. PICK z \in Loose(K2, u) : (g \in K1[t] => Puts(K1, t, g, d, z)) /\ Puts(K2, t, g, d, z)
    BY DEF OddWay
  <2>4. ASSUME NEW K, Puts(K, t, g, c, y), Puts(K, t, g, d, z)
        PROVE  Puts(K, t, g, c \o d, z)
    BY <2>4, PutsMore
  <2>5. OddWay(K1, K2, t, g, u, c \o d)
    BY <2>2, <2>3, <2>4 DEF OddWay
  <2>. QED BY <2>1, <2>5
<1>6. ASSUME NEW k \in DOMAIN v PROVE q[k] \in Q
  <2>. DEFINE w == v[k]
              c == EntryParts(entry, k, w, size, sub)
  <2>1. k \in Raw /\ w \in Raw
    BY <1>3
  <2>2. w \in EntryValues(entry, {})
    BY <1>0, <2>1 DEF EntryValues
  <2>3. Fit({}, size, sub)
    BY DEF Fit
  <2>4. entry.value.kind = "scalar"
    BY <1>0
  <2>. HIDE DEF w, entry
  <2>5. c \in Seq(Part) /\ EntrySize(entry, w, size) = Len(c)
    BY <1>2, <2>1, <2>2, <2>3, EntryLen
  <2>6. PICK y \in Loose(K2, u) : /\ ReadsTo(K1, c, "message", default_instance(u), y)
                                  /\ ReadsTo(K2, c, "message", default_instance(u), y)
    BY <1>0, <1>2, <2>1, <2>4, OddEntry
  <2>7. q[k] = Announced(ours[t][g].num, Len(c), c)
    BY <1>0, <2>5 DEF w
  <2>. HIDE DEF c, q
  <2>8. Readable(K2, t, g) /\ (g \in K1[t] => Readable(K1, t, g))
    BY <1>0, <1>4 DEF Readable
  <2>9. Puts(K2, t, g, q[k], y) /\ (g \in K1[t] => Puts(K1, t, g, q[k], y))
    BY <1>0, <2>5, <2>6, <2>7, <2>8, MessageReads DEF Puts
  <2>10. q[k] \in Seq(Part)
    <3>1. ours[t][g].num \in Nat \ {0}
      BY <1>0 DEF GoodField, FieldType
    <3>. QED BY <2>5, <2>7, <3>1, AnnouncedItem
  <2>. QED BY <2>9, <2>10 DEF OddWay
<1>7. Q \in SUBSET Seq(Part) /\ DOMAIN q = DOMAIN v
  OBVIOUS
<1>. HIDE DEF Q, q
<1>8. Concat(q) \in Q
  BY <1>3, <1>5, <1>6, <1>7, ConcatIn
<1>. QED BY <1>1, <1>8 DEF Q

\* What the relay and the reader have of it.
OddValue(K1, K2, t, f, c, w) ==
    /\ w \in Loose(K2, ours[t][Target(t, f)].type)
    /\ Target(t, f) \in K1[t] => Puts(K1, t, Target(t, f), c, w)
    /\ Puts(K2, t, Target(t, f), c, w)

\* So does number 2 of NetworkDeviceList on its way: nothing after it is shifted.
LEMMA OddGoes ==
    ASSUME NEW K1, NEW K2, NEW t, Regular(t), K1[t] \subseteq K2[t], K2[t] = DOMAIN ours[t],
           NEW f, f \in DOMAIN theirs[t], GoodField(theirs[t][f]), Odd(t, f),
           Fair(t, Target(t, f)), GoodField(ours[t][Target(t, f)]),
           ours[t][Target(t, f)].type \in DOMAIN ours,
           K1[ours[t][Target(t, f)].type] = {}, K2[ours[t][Target(t, f)].type] = {},
           NEW X, NEW v, Value(theirs[t][f], v, X), NEW s0, NEW p0, Fit(X, s0, p0),
           NEW c, c = FieldParts(theirs[t][f], v, s0, p0)
    PROVE  /\ \E w : OddValue(K1, K2, t, f, c, w)
           /\ \A w, s1, p1 :
                 /\ OddValue(K1, K2, t, f, c, w)
                 /\ Target(t, f) \in K1[t] => /\ p1[w] = Concat(w.unknown)
                                              /\ s1[w] = unknown_fields_size(w.unknown)
                 => Goes(K1, K2, t, f, v, s0, p0, w, s1, p1, w)
<1>. DEFINE field == theirs[t][f]
            g == Target(t, f)
            u == ours[t][g].type
<1>1. Meets(t, f, g) /\ Seen(t, f)
  BY TargetMeets DEF Odd
<1>2. /\ g \in K2[t] /\ ours[t][g].num = field.num /\ ours[t][g].kind = "message"
      /\ DOMAIN ours[u] = {} /\ field.kind = "map" /\ ours[field.type].value.kind = "scalar"
  BY <1>1 DEF Meets, Odd
<1>3. OddWay(K1, K2, t, g, u, c)
  <2>1. K2[t] \subseteq DOMAIN ours[t] /\ K1[u] \subseteq DOMAIN ours[u] /\ K2[u] \subseteq DOMAIN ours[u]
    OBVIOUS
  <2>2. OddCase(K1, K2, t, g, u, field, X, v)
    BY <1>2, <2>1 DEF OddCase
  <2>3. c = FieldParts(field, v, s0, p0)
    OBVIOUS
  <2>. HIDE DEF g, u, field
  <2>. QED BY <2>2, <2>3, OddReads
<1>4. \E w : OddValue(K1, K2, t, f, c, w)
  BY <1>3 DEF OddWay, OddValue
<1>5. c \in Seq(Part) /\ FieldSize(field, v, s0) = Len(c)
  BY FieldType2, FieldLen
<1>6. /\ f \in Seens(K1, t, {f}) <=> g \in K1[t]
      /\ f \in Seens(K2, t, {f})
  BY <1>1, <1>2 DEF Seens
<1>7. ASSUME g \notin K1[t] PROVE c \in Skips(K1, t, field.num)
  <2>1. \A tag : tag.num = field.num /\ tag.wt = Written_wt(field) => Hit(K1, t, tag) = {}
    <3>. SUFFICES ASSUME NEW tag, tag.num = field.num, tag.wt = Written_wt(field), NEW e \in Hit(K1, t, tag)
                  PROVE  FALSE
      OBVIOUS
    <3>1. Meets(t, f, e) /\ e \in K1[t]
      BY DEF Hit, Matches, Meets
    <3>2. e = g
      BY <3>1, TargetOne
    <3>. QED BY <1>7, <3>1, <3>2
  <2>2. t \in DOMAIN ours
    BY DEF Regular
  <2>. QED BY <2>1, <2>2, FieldSkips
<1>8. ASSUME NEW w, NEW s1, NEW p1, OddValue(K1, K2, t, f, c, w),
             g \in K1[t] => /\ p1[w] = Concat(w.unknown) /\ s1[w] = unknown_fields_size(w.unknown)
      PROVE  Goes(K1, K2, t, f, v, s0, p0, w, s1, p1, w)
  <2>. DEFINE d == FieldParts(ours[t][g], w, s1, p1)
  <2>1. ReadsField(K2, t, g, c, w) /\ (g \in K1[t] => ReadsField(K1, t, g, c, w))
    BY <1>8 DEF OddValue, Puts, ReadsField
  <2>2. ASSUME g \in K1[t]
        PROVE  /\ d \in Seq(Part) /\ ReadsField(K2, t, g, d, w)
               /\ FieldSize(ours[t][g], w, s1) = Len(d)
    <3>. DEFINE e == Concat(w.unknown)
    <3>1. /\ e \in Seq(Part) /\ s1[w] = Len(e) /\ p1[w] = e
          /\ ReadsTo(K2, e, "message", default_instance(u), w)
      BY <1>8, <2>2, LooseReads DEF OddValue
    <3>2. d = Announced(ours[t][g].num, Len(e), e) /\ FieldSize(ours[t][g], w, s1) = 1 + Len(e)
      BY <1>2, <3>1 DEF FieldParts, FieldSize
    <3>3. Readable(K2, t, g)
      BY <1>2 DEF Readable, Regular, Numbered
    <3>. HIDE DEF e, d
    <3>4. ReadsField(K2, t, g, d, w)
      BY <1>2, <3>1, <3>2, <3>3, MessageReads
    <3>5. ours[t][g].num \in Nat \ {0}
      BY DEF GoodField, FieldType
    <3>. QED BY <3>1, <3>2, <3>4, <3>5, AnnouncedItem
  <2>. HIDE DEF d, g
  <2>3. FieldGoes(K1, K2, t, f, c, w, w, d)
    BY <1>5, <1>6, <1>7, <2>1, <2>2 DEF FieldGoes, g
  <2>. QED BY <1>5, <1>6, <2>2, <2>3 DEF Goes, d, g
<1>. QED BY <1>4, <1>8

-----------------------------------------------------------------------------
(***************************************************************************)
(* Messages on their way                                                   *)
(***************************************************************************)
AllGo(K1, K2, t, V, s0, p0, w1, s1, p1, w2) ==
    \A f \in DOMAIN V : Goes(K1, K2, t, f, V[f], s0, p0, w1[f], s1, p1, w2[f])

\* A message that is written as p, of size s, and becomes G1; this is written as p1, of
\* size s1, and becomes G2.
Journey(K1, K2, t, s, p, G1, s1, p1, G2) ==
    /\ p \in Seq(Part) /\ s = Len(p) /\ p1 \in Seq(Part) /\ s1 = Len(p1)
    /\ ReadsTo(K1, p, "message", default_instance(t), G1)
    /\ ReadsTo(K2, p, "message", default_instance(t), G2)
    /\ ReadsTo(K2, p1, "message", default_instance(t), G2)

\* Nothing unknown is nothing written.
LEMMA NoUnknown ==
    ASSUME NEW U, U = << >>
    PROVE  Concat(U) = << >> /\ unknown_fields_size(U) = 0
<1>1. DOMAIN U = {} /\ IsFiniteSet(DOMAIN U)
  BY FS_EmptySet
<1>. HIDE DEF Part
<1>2. Concat(U) = << >>
  BY <1>1, ConcatEmpty
<1>3. \A x \in DOMAIN U : U[x] \in Seq(Part)
  BY <1>1
<1>4. Len(Concat(U)) = SumFunction([x \in DOMAIN U |-> Len(U[x])])
  BY <1>1, <1>3, ConcatLen
<1>. QED BY <1>2, <1>4 DEF unknown_fields_size

\* What m, which has the values V, becomes when its fields go.
Becomes(K1, K2, t, V, m, s0, p0, c, w1, G1, s1, p1, w2, G2) ==
    /\ Regular(t) /\ K1[t] \subseteq K2[t]
    /\ m = Msg(t, V, << >>) /\ V = [f \in DOMAIN V |-> V[f]]
    /\ IsFiniteSet(DOMAIN V) /\ DOMAIN V \subseteq DOMAIN theirs[t]
    /\ c = [f \in DOMAIN V |-> FieldParts(theirs[t][f], V[f], s0, p0)]
    /\ AllGo(K1, K2, t, V, s0, p0, w1, s1, p1, w2)
    /\ G1 = Taken(K1, t, DOMAIN V, w1, c) /\ G2 = Taken(K2, t, DOMAIN V, w2, c)

\* If each field goes its way, so does the message: of the size that is announced, and
\* as the relay and the reader read it.
LEMMA MessageGoes ==
    ASSUME NEW K1, NEW K2, NEW t, NEW V, NEW m, NEW s0, NEW p0, NEW c, NEW w1, NEW G1,
           NEW s1, NEW p1, NEW w2, NEW G2,
           Becomes(K1, K2, t, V, m, s0, p0, c, w1, G1, s1, p1, w2, G2)
    PROVE  Journey(K1, K2, t, compute_size(m, theirs[t], s0),
                   write_to_with_cached_sizes(m, theirs[t], s0, p0), G1,
                   compute_size(G1, ours[t], s1),
                   write_to_with_cached_sizes(G1, ours[t], s1, p1), G2)
<1>. DEFINE D == DOMAIN V
            d == [f \in D |-> FieldParts(ours[t][Target(t, f)], w1[f], s1, p1)]
            R1 == Seens(K1, t, D)
            N == Names(t, R1)
            h == [g \in N |-> FieldParts(ours[t][g], G1.fields[g], s1, p1)]
            l == [g \in N |-> FieldSize(ours[t][g], G1.fields[g], s1)]
            U == G1.unknown
<1>. USE DEF Becomes
<1>0. D \in SUBSET DOMAIN theirs[t]
  OBVIOUS
<1>1. ASSUME NEW f \in D
      PROVE  /\ FieldGoes(K1, K2, t, f, c[f], w1[f], w2[f], d[f])
             /\ FieldSize(theirs[t][f], V[f], s0) = Len(c[f]) /\ c[f] \in Seq(Part)
             /\ f \in Seens(K1, t, {f}) => /\ FieldSize(ours[t][Target(t, f)], w1[f], s1) = Len(d[f])
                                           /\ d[f] \in Seq(Part)
  <2>1. Goes(K1, K2, t, f, V[f], s0, p0, w1[f], s1, p1, w2[f])
    BY DEF AllGo
  <2>2. c[f] = FieldParts(theirs[t][f], V[f], s0, p0)
        /\ d[f] = FieldParts(ours[t][Target(t, f)], w1[f], s1, p1)
    OBVIOUS
  <2>. HIDE DEF d
  <2>3. FieldGoes(K1, K2, t, f, c[f], w1[f], w2[f], d[f])
    BY <2>1, <2>2 DEF Goes
  <2>. QED BY <2>1, <2>2, <2>3 DEF Goes, FieldGoes
<1>2. m.type = t /\ m.fields = V /\ m.unknown = << >>
  BY MsgFields
<1>3. /\ Concat(c) \in Seq(Part)
      /\ Len(Concat(c)) = SumFunction([f \in D |-> FieldSize(theirs[t][f], V[f], s0)])
  <2>. DEFINE l0 == [f \in D |-> FieldSize(theirs[t][f], V[f], s0)]
  <2>1. DOMAIN c = D /\ \A f \in D : c[f] \in Seq(Part) /\ Len(c[f]) = FieldSize(theirs[t][f], V[f], s0)
    BY <1>1
  <2>2. [f \in DOMAIN c |-> Len(c[f])] = l0
    BY <2>1
  <2>3. c = [f \in DOMAIN c |-> c[f]] /\ IsFiniteSet(DOMAIN c)
    OBVIOUS
  <2>4. \A f \in DOMAIN c : c[f] \in Seq(Part)
    BY <2>1
  <2>. HIDE DEF l0, d, D, h, l, N
  <2>5. Concat(c) \in Seq(Part) /\ Len(Concat(c)) = SumFunction([f \in DOMAIN c |-> Len(c[f])])
    BY <2>3, <2>4, ConcatLen
  <2>. QED BY <2>2, <2>5 DEF l0
<1>4. /\ write_to_with_cached_sizes(m, theirs[t], s0, p0) = Concat(c)
      /\ compute_size(m, theirs[t], s0) = Len(Concat(c))
  <2>1. write_to_with_cached_sizes(m, theirs[t], s0, p0) = Concat(c) \o Concat(<< >>)
    BY <1>2 DEF write_to_with_cached_sizes
  <2>2. Concat(<< >>) = << >> /\ unknown_fields_size(<< >>) = 0
    BY NoUnknown
  <2>. DEFINE e == Concat(c)
  <2>. HIDE DEF e
  <2>3. e \o << >> = e /\ Len(e) \in Nat
    BY <1>3 DEF e
  <2>4. compute_size(m, theirs[t], s0) = Len(e) + 0
    BY <1>2, <1>3, <2>2 DEF compute_size, e
  <2>5. write_to_with_cached_sizes(m, theirs[t], s0, p0) = e
    BY <2>1, <2>2, <2>3 DEF e
  <2>6. compute_size(m, theirs[t], s0) = Len(e)
    BY <2>3, <2>4
  <2>. QED BY <2>5, <2>6 DEF e
<1>5. /\ DOMAIN G1.fields = N /\ G1.type = t
      /\ \A f \in R1 : Target(t, f) \in N /\ G1.fields[Target(t, f)] = w1[f]
      /\ \A g \in N : \E f \in R1 : g = Target(t, f)
      /\ R1 \subseteq D /\ \A f \in R1 : f \in Seens(K1, t, {f})
  <2>1. /\ G1.fields = [g \in N |-> w1[FieldAt(t, D, g)]] /\ G1.type = t
    BY MsgFields DEF Taken
  <2>2. R1 \subseteq D /\ (\A f \in R1 : Seen(t, f)) /\ \A f \in R1 : f \in Seens(K1, t, {f})
    BY DEF Seens
  <2>3. \A f \in R1 : FieldAt(t, D, Target(t, f)) = f
    BY <1>0, <2>2, FieldAtName
  <2>4. (\A f \in R1 : Target(t, f) \in N) /\ \A g \in N : \E f \in R1 : g = Target(t, f)
    BY DEF Names
  <2>. HIDE DEF R1, N, D
  <2>. QED BY <2>1, <2>2, <2>3, <2>4
<1>6. \A g \in N : h[g] \in Seq(Part) /\ Len(h[g]) = l[g]
  <2>. SUFFICES ASSUME NEW g \in N PROVE h[g] \in Seq(Part) /\ Len(h[g]) = l[g]
    OBVIOUS
  <2>1. PICK f \in R1 : g = Target(t, f)
    BY <1>5
  <2>2. G1.fields[g] = w1[f] /\ f \in D /\ f \in Seens(K1, t, {f})
    BY <1>5, <2>1
  <2>3. h[g] = d[f] /\ l[g] = FieldSize(ours[t][Target(t, f)], w1[f], s1)
    BY <2>1, <2>2
  <2>. HIDE DEF h, l, d
  <2>. QED BY <1>1, <2>2, <2>3
<1>7. DOMAIN h = N /\ \A f \in R1 : h[Target(t, f)] = d[f]
  BY <1>5
<1>8. IsFiniteSet(N)
  <2>1. IsFiniteSet(R1)
    BY <1>5, FS_Subset
  <2>. DEFINE p == [f \in R1 |-> Target(t, f)]
  <2>2. {p[f] : f \in DOMAIN p} = N /\ DOMAIN p = R1
    BY DEF Names
  <2>. HIDE DEF p, N, R1
  <2>. QED BY <2>1, <2>2, FiniteValues
<1>9. /\ IsFiniteSet(DOMAIN U) /\ \A n \in DOMAIN U : U[n] \in Seq(Part)
  <2>. DEFINE S == D \ R1
  <2>1. U = [n \in Numbers(t, S) |-> c[NumberAt(t, D, n)]]
    BY MsgFields DEF Taken
  <2>2. \A f \in S : f \in D
    OBVIOUS
  <2>3. IsFiniteSet(Numbers(t, S))
    <3>1. IsFiniteSet(S)
      BY FS_Subset
    <3>. DEFINE p == [f \in S |-> theirs[t][f].num]
    <3>2. {p[f] : f \in DOMAIN p} = Numbers(t, S) /\ DOMAIN p = S
      BY DEF Numbers
    <3>. HIDE DEF p, S
    <3>. QED BY <3>1, <3>2, FiniteValues
  <2>4. \A n \in Numbers(t, S) : NumberAt(t, D, n) \in D
    <3>. SUFFICES ASSUME NEW n \in Numbers(t, S) PROVE NumberAt(t, D, n) \in D
      OBVIOUS
    <3>1. PICK f \in S : n = theirs[t][f].num
      BY DEF Numbers
    <3>. HIDE DEF S
    <3>2. NumberAt(t, D, n) = f
      BY <1>0, <2>2, <3>1, NumberAtNumber
    <3>. QED BY <2>2, <3>2
  <2>. HIDE DEF S, U
  <2>. QED BY <1>1, <2>1, <2>3, <2>4
<1>10. /\ Concat(h) \in Seq(Part) /\ Len(Concat(h)) = SumFunction(l)
       /\ Concat(U) \in Seq(Part) /\ Len(Concat(U)) = unknown_fields_size(U)
  <2>1. [g \in DOMAIN h |-> Len(h[g])] = l
    BY <1>6
  <2>. HIDE DEF h, U
  <2>. QED BY <1>6, <1>7, <1>8, <1>9, <2>1, ConcatLen DEF unknown_fields_size
<1>11. /\ write_to_with_cached_sizes(G1, ours[t], s1, p1) = Concat(h) \o Concat(U)
       /\ compute_size(G1, ours[t], s1) = SumFunction(l) + unknown_fields_size(U)
  <2>1. DOMAIN G1.fields = N
    BY <1>5
  <2>. QED BY <2>1 DEF write_to_with_cached_sizes, compute_size
<1>12. /\ Concat(h) \o Concat(U) \in Seq(Part)
       /\ Len(Concat(h) \o Concat(U)) = SumFunction(l) + unknown_fields_size(U)
  <2>. DEFINE e == Concat(h)
              x == Concat(U)
  <2>1. e \in Seq(Part) /\ x \in Seq(Part) /\ Len(e) = SumFunction(l) /\ Len(x) = unknown_fields_size(U)
    BY <1>10
  <2>. HIDE DEF e, x, l, U
  <2>2. e \o x \in Seq(Part) /\ Len(e \o x) = Len(e) + Len(x)
    BY <2>1, ConcatProperties
  <2>. QED BY <2>1, <2>2 DEF e, x
<1>13. ReadsTo(K1, Concat(c), "message", default_instance(t), G1)
       /\ ReadsTo(K2, Concat(c), "message", default_instance(t), G2)
  <2>1. DOMAIN c = D
    OBVIOUS
  <2>2. \A f \in D : /\ IF f \in Seens(K1, t, {f}) THEN ReadsField(K1, t, Target(t, f), c[f], w1[f])
                        ELSE c[f] \in Skips(K1, t, theirs[t][f].num)
                     /\ IF f \in Seens(K2, t, {f}) THEN ReadsField(K2, t, Target(t, f), c[f], w2[f])
                        ELSE c[f] \in Skips(K2, t, theirs[t][f].num)
    BY <1>1 DEF FieldGoes
  <2>. HIDE DEF D
  <2>3. IsFiniteSet(D)
    BY DEF D
  <2>4. ReadsTo(K1, Concat(c), "message", default_instance(t), Taken(K1, t, D, w1, c))
    BY <1>0, <2>1, <2>2, <2>3, TakenFirst
  <2>5. ReadsTo(K2, Concat(c), "message", default_instance(t), Taken(K2, t, D, w2, c))
    BY <1>0, <2>1, <2>2, <2>3, TakenFirst
  <2>. QED BY <2>4, <2>5 DEF D
<1>14. ReadsTo(K2, Concat(h) \o Concat(U), "message", default_instance(t), G2)
  <2>1. DOMAIN c = D /\ FieldsGo(K1, K2, t, D, c, w1, w2, d)
    BY <1>1 DEF FieldsGo
  <2>2. Rewritten(h, t, Seens(K1, t, D), d)
    BY <1>7 DEF Rewritten
  <2>. HIDE DEF D, h, d
  <2>3. IsFiniteSet(D)
    BY DEF D
  <2>4. ReadsTo(K2, Concat(h) \o Concat(Taken(K1, t, D, w1, c).unknown), "message",
                default_instance(t), Taken(K2, t, D, w2, c))
    BY <1>0, <2>1, <2>2, <2>3, TakenNext
  <2>. QED BY <2>4 DEF D, U
<1>. QED
  BY <1>3, <1>4, <1>11, <1>12, <1>13, <1>14 DEF Journey

-----------------------------------------------------------------------------
(***************************************************************************)
(* The bindings                                                            *)
(***************************************************************************)
Writers == IF earlier THEN EarlierSchema ELSE Schema

Bound ==
    /\ type \in Types /\ earlier \in BOOLEAN /\ (earlier => type \in DOMAIN Earlier)
    /\ theirs = Bindings(Writers, type)
    /\ ours = [t \in DOMAIN theirs \cup DOMAIN Bindings(Schema, type) |-> Schema[t]]

\* The types of the message sent and of those in it.
Inside == WithFields(Writers, WithFields(Writers, {type}))

\* The types of fields of types in T are with T.
LEMMA WithMore ==
    ASSUME NEW W, NEW T
    PROVE  /\ T \subseteq WithFields(W, T)
           /\ \A t \in T : \A f \in DOMAIN W[t] :
                 W[t][f].type \in DOMAIN W => W[t][f].type \in WithFields(W, T)
           /\ \A u \in WithFields(W, T) :
                 u \notin T => u \in DOMAIN W /\ \E t \in T : \E f \in DOMAIN W[t] : u = W[t][f].type
<1>. DEFINE A == UNION {{W[t][f].type : f \in DOMAIN W[t]} : t \in T}
<1>1. WithFields(W, T) = T \cup (A \cap DOMAIN W)
  BY DEF WithFields
<1>2. \A u : u \in A <=> \E t \in T : \E f \in DOMAIN W[t] : u = W[t][f].type
  OBVIOUS
<1>. HIDE DEF A
<1>3. T \subseteq WithFields(W, T)
  BY <1>1
<1>4. \A t \in T : \A f \in DOMAIN W[t] :
         W[t][f].type \in DOMAIN W => W[t][f].type \in WithFields(W, T)
  BY <1>1, <1>2
<1>5. ASSUME NEW u \in WithFields(W, T), u \notin T
      PROVE  u \in DOMAIN W /\ \E t \in T : \E f \in DOMAIN W[t] : u = W[t][f].type
  <2>1. u \in A /\ u \in DOMAIN W
    BY <1>1, <1>5
  <2>. QED BY <1>2, <2>1
<1>. QED BY <1>3, <1>4, <1>5

\* Both schemas are what the generator sees to.
LEMMA Wells ==
    ASSUME Bound
    PROVE  WellFormed(Writers) /\ WellFormed(Schema) /\ DOMAIN Writers = DOMAIN Schema
           /\ type \in DOMAIN Schema /\ (~earlier => Writers = Schema)
  BY SchemaAssumption, WireAssumption DEF Writers, EarlierSchema, Bound

\* The bindings reach as far as the messages that are sent, and those in them.
LEMMA Levels ==
    ASSUME Bound
    PROVE  /\ DOMAIN theirs = WithFields(Writers, WithFields(Writers, Inside))
           /\ \A t \in DOMAIN theirs : theirs[t] = Writers[t] /\ t \in DOMAIN Schema
           /\ DOMAIN theirs \subseteq DOMAIN ours
           /\ \A t \in DOMAIN ours : ours[t] = Schema[t]
           /\ type \in Inside /\ Inside \subseteq DOMAIN theirs
           /\ \A f \in DOMAIN Writers[type] :
                 Writers[type][f].type \in DOMAIN Schema => Writers[type][f].type \in WithFields(Writers, {type})
           /\ \A t \in WithFields(Writers, {type}) : \A f \in DOMAIN Writers[t] :
                 Writers[t][f].type \in DOMAIN Schema => Writers[t][f].type \in Inside
           /\ \A t \in Inside : \A f \in DOMAIN Writers[t] :
                 Writers[t][f].type \in DOMAIN Schema => Writers[t][f].type \in DOMAIN theirs
           /\ \A t \in Inside : t = type \/ \E s \in DOMAIN Schema : \E f \in DOMAIN Writers[s] :
                                               t = Writers[s][f].type
<1>. DEFINE W == Writers
            L1 == WithFields(W, {type})
            L2 == WithFields(W, L1)
            L3 == WithFields(W, L2)
            L4 == WithFields(W, L3)
<1>1. DOMAIN W = DOMAIN Schema /\ type \in DOMAIN Schema
  BY Wells
<1>2. DOMAIN theirs = L4 /\ L2 = Inside /\ theirs = [t \in L4 |-> W[t]]
  BY DEF Bound, Bindings, Inside
<1>3. \A t \in DOMAIN theirs : theirs[t] = W[t]
  BY <1>2
<1>4. DOMAIN theirs \subseteq DOMAIN ours /\ \A t \in DOMAIN ours : ours[t] = Schema[t]
  BY DEF Bound
<1>. HIDE DEF W
<1>5. /\ type \in L1 /\ \A u \in L1 : u \in DOMAIN W
      /\ \A u \in L1 : u = type \/ \E f \in DOMAIN W[type] : u = W[type][f].type
      /\ \A f \in DOMAIN W[type] : W[type][f].type \in DOMAIN W => W[type][f].type \in L1
  BY <1>1, WithMore
<1>. HIDE DEF L1
<1>6. /\ L1 \subseteq L2 /\ \A u \in L2 : u \in DOMAIN W
      /\ \A u \in L2 : u \in L1 \/ \E t \in L1 : \E f \in DOMAIN W[t] : u = W[t][f].type
      /\ \A t \in L1 : \A f \in DOMAIN W[t] : W[t][f].type \in DOMAIN W => W[t][f].type \in L2
  BY <1>5, WithMore
<1>. HIDE DEF L2
<1>7. /\ L2 \subseteq L3 /\ \A u \in L3 : u \in DOMAIN W
      /\ \A t \in L2 : \A f \in DOMAIN W[t] : W[t][f].type \in DOMAIN W => W[t][f].type \in L3
  BY <1>6, WithMore
<1>. HIDE DEF L3
<1>8. /\ L3 \subseteq L4 /\ \A u \in L4 : u \in DOMAIN W
  BY <1>7, WithMore
<1>9. \A t \in L2 : t = type \/ \E s \in DOMAIN W : \E f \in DOMAIN W[s] : t = W[s][f].type
  BY <1>1, <1>5, <1>6
<1>10. DOMAIN theirs = WithFields(W, WithFields(W, Inside))
  BY <1>2 DEF L3
<1>. HIDE DEF L4
<1>11. /\ \A t \in DOMAIN theirs : theirs[t] = W[t] /\ t \in DOMAIN Schema
       /\ type \in Inside /\ Inside \subseteq DOMAIN theirs
  BY <1>1, <1>2, <1>3, <1>5, <1>6, <1>7, <1>8
<1>12. /\ \A f \in DOMAIN W[type] : W[type][f].type \in DOMAIN Schema => W[type][f].type \in L1
       /\ \A t \in L1 : \A f \in DOMAIN W[t] : W[t][f].type \in DOMAIN Schema => W[t][f].type \in Inside
       /\ \A t \in Inside : \A f \in DOMAIN W[t] : W[t][f].type \in DOMAIN Schema => W[t][f].type \in DOMAIN theirs
       /\ \A t \in Inside : t = type \/ \E s \in DOMAIN Schema : \E f \in DOMAIN W[s] : t = W[s][f].type
  BY <1>1, <1>2, <1>5, <1>6, <1>7, <1>8, <1>9
<1>. QED
  BY <1>4, <1>10, <1>11, <1>12 DEF L1, W

\* What is so of an entry.
LEMMA EntryIs ==
    ASSUME Bound, NEW t \in Inside, NEW f \in DOMAIN theirs[t], theirs[t][f].kind = "map"
    PROVE  LET e == theirs[t][f].type IN
           /\ e \in DOMAIN theirs /\ e \in DOMAIN ours /\ ours[e] = Schema[e] /\ theirs[e] = ours[e]
           /\ GoodEntry(ours[e]) /\ e \notin Types
           /\ \A s \in DOMAIN Schema : \A g \in DOMAIN Writers[s] :
                 Writers[s][g].kind \in {"message", "messages"} => Writers[s][g].type # e
<1>. DEFINE e == theirs[t][f].type
<1>1. WellFormed(Writers) /\ DOMAIN Writers = DOMAIN Schema
  BY Wells
<1>2. theirs[t] = Writers[t] /\ t \in DOMAIN Writers
  BY <1>1, Levels
<1>3. /\ e \in DOMAIN Writers /\ IsEntry(Writers[e]) /\ e \notin Types
  BY <1>1, <1>2 DEF WellFormed
<1>4. Writers[e] = Schema[e]
  BY <1>1, <1>3, WireAssumption DEF Writers, EarlierSchema
<1>5. e \in DOMAIN theirs /\ e \in DOMAIN ours /\ ours[e] = Schema[e] /\ theirs[e] = Writers[e]
  BY <1>1, <1>2, <1>3, Levels
<1>6. "key" \in DOMAIN Writers[e] /\ "value" \in DOMAIN Writers[e]
  BY <1>3 DEF IsEntry
<1>7. Writers[e]["key"] \in FieldType /\ Writers[e]["value"] \in FieldType
  BY <1>1, <1>3, <1>6 DEF WellFormed
<1>8. \A s \in DOMAIN Schema : \A g \in DOMAIN Writers[s] :
                 Writers[s][g].kind \in {"message", "messages"} => Writers[s][g].type # e
  <2>. SUFFICES ASSUME NEW s \in DOMAIN Schema, NEW g \in DOMAIN Writers[s],
                       Writers[s][g].kind \in {"message", "messages"}
                PROVE  Writers[s][g].type # e
    OBVIOUS
  <2>1. \A v \in DOMAIN Writers : \A h \in DOMAIN Writers[v] :
                  Writers[v][h].kind = "map" => Writers[v][h].type # Writers[s][g].type
    BY <1>1 DEF WellFormed
  <2>. QED BY <1>2, <2>1
<1>. QED
  BY <1>3, <1>4, <1>5, <1>7, <1>8 DEF GoodEntry

\* In all of these a number stands for one field, and the fields are well formed.
LEMMA FieldsGood ==
    ASSUME Bound, NEW t \in Inside
    PROVE  /\ Regular(t)
           /\ \A f \in DOMAIN theirs[t] : GoodField(theirs[t][f])
           /\ \A g \in DOMAIN ours[t] : ours[t][g] \in FieldType
           /\ \A g \in DOMAIN ours[t] : ours[t][g].kind = "message" => GoodField(ours[t][g])
<1>1. WellFormed(Writers) /\ WellFormed(Schema) /\ DOMAIN Writers = DOMAIN Schema
  BY Wells
<1>2. theirs[t] = Writers[t] /\ t \in DOMAIN Writers /\ ours[t] = Schema[t] /\ t \in DOMAIN ours
  BY <1>1, Levels
<1>3. Regular(t)
  BY <1>1, <1>2 DEF Regular, WellFormed
<1>4. ASSUME NEW f \in DOMAIN theirs[t] PROVE GoodField(theirs[t][f])
  <2>1. /\ theirs[t][f] \in FieldType
        /\ theirs[t][f].kind \in {"repeated", "message", "messages", "map"} => theirs[t][f].wt = "len"
        /\ theirs[t][f].kind = "packed" => theirs[t][f].wt # "len"
    BY <1>1, <1>2 DEF WellFormed
  <2>2. theirs[t][f].kind = "map" => GoodEntry(ours[theirs[t][f].type])
    BY EntryIs
  <2>. QED BY <2>1, <2>2 DEF GoodField
<1>5. ASSUME NEW g \in DOMAIN ours[t]
      PROVE  /\ ours[t][g] \in FieldType
             /\ ours[t][g].kind = "message" => GoodField(ours[t][g])
  <2>1. /\ ours[t][g] \in FieldType
        /\ ours[t][g].kind \in {"repeated", "message", "messages", "map"} => ours[t][g].wt = "len"
        /\ ours[t][g].kind = "packed" => ours[t][g].wt # "len"
    BY <1>1, <1>2 DEF WellFormed
  <2>. QED BY <2>1 DEF GoodField
<1>. QED BY <1>3, <1>4, <1>5

Same(t, f) == f \in DOMAIN ours[t] /\ ours[t][f] = theirs[t][f]

\* Every field of the writer's is one of ours, or none, or the odd one.
LEMMA FieldIs ==
    ASSUME Bound, NEW t \in Inside, NEW f \in DOMAIN theirs[t]
    PROVE  /\ Same(t, f) \/ ~Seen(t, f) \/ Odd(t, f)
           /\ ~earlier => Same(t, f)
           /\ Odd(t, f) /\ ~Same(t, f) =>
                 /\ t = "NetworkDeviceList" /\ t = type
                 /\ ours[t][Target(t, f)].type \in DOMAIN ours
<1>1. WellFormed(Writers) /\ WellFormed(Schema) /\ DOMAIN Writers = DOMAIN Schema /\ (~earlier => Writers = Schema)
  BY Wells
<1>2. theirs[t] = Writers[t] /\ t \in DOMAIN Schema /\ ours[t] = Schema[t] /\ t \in DOMAIN ours
  BY <1>1, Levels
<1>3. CASE ~earlier
  BY <1>1, <1>2, <1>3 DEF Same
<1>4. CASE earlier
  <2>1. Writers = EarlierSchema
    BY <1>4 DEF Writers
  <2>2. CASE t \notin DOMAIN Earlier \/ f \notin DOMAIN Earlier[t]
    BY <1>2, <1>4, <2>1, <2>2 DEF Same, EarlierSchema, EarlierFields
  <2>3. CASE t \in DOMAIN Earlier /\ f \in DOMAIN Earlier[t]
    <3>1. theirs[t][f] = Earlier[t][f]
      BY <1>2, <2>1, <2>3 DEF EarlierSchema, EarlierFields
    <3>2. CASE Seen(t, f)
      <4>. DEFINE g == Target(t, f)
                  old == theirs[t][f]
                  new == ours[t][g]
      <4>1. g \in DOMAIN Schema[t] /\ old.num = Schema[t][g].num /\ Written_wt(old) \in Tags(Schema[t][g])
        BY <1>2, <3>2, TargetMeets DEF Meets
      <4>. HIDE DEF g
      <4>2. /\ t = "NetworkDeviceList" /\ old.kind = "map" /\ Schema[old.type].value.kind = "scalar"
            /\ new.kind = "message" /\ DOMAIN Schema[new.type] = {}
        BY <1>2, <2>3, <3>1, <4>1, EarlierAssumption
      <4>3. ours[old.type] = Schema[old.type]
        BY <4>2, EntryIs
      <4>4. t = type
        BY <1>1, <2>1, <4>2, Levels, EarlierAssumption
      <4>5. new.type \in DOMAIN Schema
        BY <1>1, <1>2, <4>1, <4>2 DEF WellFormed
      <4>6. new.type \in DOMAIN Bindings(Schema, type)
        <5>1. new.type \in WithFields(Schema, {type})
          BY <1>2, <4>1, <4>4, <4>5, WithMore
        <5>. DEFINE A == WithFields(Schema, {type})
                    B == WithFields(Schema, A)
                    C == WithFields(Schema, B)
        <5>2. DOMAIN Bindings(Schema, type) = WithFields(Schema, C)
          BY DEF Bindings
        <5>3. A \subseteq B /\ B \subseteq C /\ C \subseteq WithFields(Schema, C)
          BY WithMore
        <5>. HIDE DEF A, B, C
        <5>. QED BY <5>1, <5>2, <5>3 DEF A
      <4>7. new.type \in DOMAIN ours /\ ours[new.type] = Schema[new.type]
        BY <4>6 DEF Bound
      <4>8. Odd(t, f)
        BY <3>2, <4>2, <4>3, <4>7 DEF Odd, g
      <4>. QED BY <1>4, <4>2, <4>4, <4>7, <4>8 DEF g
    <3>3. CASE ~Seen(t, f)
      BY <1>4, <3>3 DEF Odd
    <3>. QED BY <3>2, <3>3
  <2>. QED BY <2>2, <2>3
<1>. QED BY <1>3, <1>4 DEF Bound

-----------------------------------------------------------------------------
(***************************************************************************)
(* From the writer to the reader                                           *)
(***************************************************************************)
\* A message that a writer has made.
Made(x, t) ==
    /\ x = Msg(t, x.fields, << >>)
    /\ x.fields = [f \in DOMAIN x.fields |-> x.fields[f]]
    /\ IsFiniteSet(DOMAIN x.fields) /\ DOMAIN x.fields \subseteq DOMAIN theirs[t]
    /\ \A f \in DOMAIN x.fields :
          Value(theirs[t][f], x.fields[f], Nested(theirs[t][f], x.fields[f]))

InnerMade(x, t) ==
    /\ Made(x, t)
    /\ \A f \in DOMAIN x.fields : \A y \in Nested(theirs[t][f], x.fields[f]) :
          y = default_instance(SubType(theirs[t][f]))

SourceMade(x) ==
    /\ Made(x, type)
    /\ \A f \in DOMAIN x.fields : \A y \in Nested(theirs[type][f], x.fields[f]) :
          InnerMade(y, SubType(theirs[type][f]))

\* A relay may lack fields of messages; it has those of entries.
Allowed(L) ==
    \A p \in L : \/ p[1] \in Types
                 \/ \E s \in DOMAIN Schema : \E g \in DOMAIN Writers[s] :
                       Writers[s][g].kind \in {"message", "messages"} /\ Writers[s][g].type = p[1]

\* The reader knows all fields, the relay those it does not lack.
LEMMA Knows2 ==
    ASSUME NEW L, NEW t \in DOMAIN ours
    PROVE  /\ Known(L, 1)[t] \subseteq Known(L, 2)[t] /\ Known(L, 2)[t] = DOMAIN ours[t]
           /\ Known(L, 1)[t] = {f \in DOMAIN ours[t] : <<t, f>> \notin L}
  BY DEF Known

\* The relay knows the key and the value of every entry: the fields that it lacks are
\* fields of messages, and no entry is one.
LEMMA EntryReady ==
    ASSUME Bound, NEW L, Allowed(L), NEW t \in Inside, NEW f \in DOMAIN theirs[t]
    PROVE  ReadyEntry(Known(L, 1), Known(L, 2), theirs[t][f])
<1>. SUFFICES ASSUME theirs[t][f].kind = "map"
     PROVE  \A h \in {1, 2} : ReadableEntry(Known(L, h), theirs[t][f].type)
  BY DEF ReadyEntry
<1>. DEFINE e == theirs[t][f].type
<1>1. /\ e \in DOMAIN ours /\ GoodEntry(ours[e]) /\ e \notin Types
      /\ \A s \in DOMAIN Schema : \A g \in DOMAIN Writers[s] :
                 Writers[s][g].kind \in {"message", "messages"} => Writers[s][g].type # e
  BY EntryIs
<1>. HIDE DEF e
<1>2. \A g : <<e, g>> \notin L
  <2>. SUFFICES ASSUME NEW g, <<e, g>> \in L PROVE FALSE
    OBVIOUS
  <2>1. <<e, g>>[1] = e
    OBVIOUS
  <2>. QED BY <1>1, <2>1 DEF Allowed
<1>3. DOMAIN ours[e] = {"key", "value"} /\ ours[e]["key"].num # ours[e]["value"].num
  BY <1>1 DEF GoodEntry, IsEntry
<1>4. \A h \in {1, 2} : Known(L, h)[e] = {"key", "value"}
  BY <1>1, <1>2, <1>3 DEF Known
<1>5. \A h \in {1, 2} : Numbered(Known(L, h), e)
  BY <1>1, <1>3, <1>4 DEF Numbered
<1>. QED BY <1>1, <1>4, <1>5 DEF ReadableEntry, e

\* Of the fields in D, G has those that the reader knows.
HasFields(K, t, D, w, G) ==
    /\ G.type = t /\ DOMAIN G.fields = Names(t, Seens(K, t, D))
    /\ \A f \in Seens(K, t, D) : /\ Target(t, f) \in DOMAIN G.fields
                                 /\ G.fields[Target(t, f)] = w[f]

\* The fields of a message that was read, from those that were written.
LEMMA TakenFields ==
    ASSUME NEW K, NEW t, Regular(t), NEW D \in SUBSET DOMAIN theirs[t], NEW w, NEW c,
           NEW G, G = Taken(K, t, D, w, c)
    PROVE  HasFields(K, t, D, w, G)
<1>. DEFINE R == Seens(K, t, D)
<1>1. G.fields = [g \in Names(t, R) |-> w[FieldAt(t, D, g)]] /\ G.type = t
  BY MsgFields DEF Taken
<1>2. R \subseteq D /\ (\A f \in R : Seen(t, f))
  BY DEF Seens
<1>3. \A f \in R : FieldAt(t, D, Target(t, f)) = f
  BY <1>2, FieldAtName
<1>4. \A f \in R : Target(t, f) \in Names(t, R)
  BY DEF Names
<1>. HIDE DEF R
<1>. QED BY <1>1, <1>3, <1>4 DEF R, HasFields

\* The messages in a field that the relay has are among those in its message.
LEMMA TakenParts ==
    ASSUME NEW K, NEW t, Regular(t), NEW D \in SUBSET DOMAIN theirs[t], NEW w, NEW c,
           NEW f \in Seens(K, t, D), NEW x \in Nested(ours[t][Target(t, f)], w[f])
    PROVE  x \in Parts(1, Taken(K, t, D, w, c))
<1>. DEFINE G == Taken(K, t, D, w, c)
            g == Target(t, f)
<1>0. G = Taken(K, t, D, w, c)
  OBVIOUS
<1>1. G.type = t /\ g \in DOMAIN G.fields /\ G.fields[g] = w[f]
  <2>. HIDE DEF G
  <2>1. HasFields(K, t, D, w, G)
    BY <1>0, TakenFields
  <2>. QED BY <2>1 DEF HasFields
<1>. HIDE DEF G, g
<1>2. FieldsOf(1, t) = ours[t]
  BY DEF FieldsOf
<1>3. x \in Nested(FieldsOf(1, G.type)[g], G.fields[g])
  BY <1>1, <1>2 DEF g
<1>. QED BY <1>1, <1>3 DEF Parts, G

\* When the bindings agree, a reader takes all.
Alike(t, D) ==
    Regular(t) /\ D \in SUBSET DOMAIN theirs[t]
    /\ \A f \in D : Same(t, f) /\ theirs[t][f] \in FieldType

TakesAll(K, t, D, w, G) ==
    /\ DOMAIN G.fields = D \cap K[t]
    /\ \A f \in D \cap K[t] : G.fields[f] = w[f]
    /\ D \subseteq K[t] => G = Msg(t, [f \in D |-> w[f]], << >>)

\* With all fields known it is the message that was written.
LEMMA TakenAll ==
    ASSUME NEW K, NEW t, NEW D, Alike(t, D), NEW w, NEW c, NEW G, G = Taken(K, t, D, w, c)
    PROVE  TakesAll(K, t, D, w, G)
<1>0. /\ Regular(t) /\ D \in SUBSET DOMAIN theirs[t]
      /\ \A f \in D : Same(t, f) /\ theirs[t][f] \in FieldType
  BY DEF Alike
<1>1. \A f \in D : Seen(t, f) /\ Target(t, f) = f
  BY <1>0, SameTarget DEF Same
<1>2. Seens(K, t, D) = D \cap K[t]
  BY <1>1 DEF Seens
<1>3. Names(t, D \cap K[t]) = D \cap K[t]
  BY <1>1 DEF Names
<1>4. \A f \in D : FieldAt(t, D, f) = f
  BY <1>0, <1>1, FieldAtName
<1>5. DOMAIN G.fields = D \cap K[t] /\ \A f \in D \cap K[t] : G.fields[f] = w[f]
  <2>1. HasFields(K, t, D, w, G)
    BY <1>0, TakenFields
  <2>. QED BY <1>1, <1>2, <1>3, <2>1 DEF HasFields
<1>6. ASSUME D \subseteq K[t] PROVE G = Msg(t, [f \in D |-> w[f]], << >>)
  <2>1. Seens(K, t, D) = D /\ Names(t, D) = D /\ Numbers(t, D \ D) = {}
    BY <1>2, <1>3, <1>6 DEF Numbers
  <2>2. [g \in D |-> w[FieldAt(t, D, g)]] = [f \in D |-> w[f]]
    BY <1>4
  <2>3. [n \in Numbers(t, D \ D) |-> c[NumberAt(t, D, n)]] = << >>
    <3>1. \A S : S = {} => [n \in S |-> c[NumberAt(t, D, n)]] = << >>
      OBVIOUS
    <3>. DEFINE S == Numbers(t, D \ D)
    <3>2. S = {}
      BY <2>1
    <3>. HIDE DEF S
    <3>3. [n \in S |-> c[NumberAt(t, D, n)]] = << >>
      BY <3>1, <3>2
    <3>. QED BY <3>3 DEF S
  <2>. QED BY <2>1, <2>2, <2>3 DEF Taken
<1>. QED BY <1>5, <1>6 DEF TakesAll

\* Messages in the one sent are of types that the bindings reach, and no lists of devices.
LEMMA SubTypes ==
    ASSUME Bound, NEW f \in DOMAIN theirs[type], theirs[type][f].kind \in Deep
    PROVE  /\ theirs[type][f].kind # "map" \/ ours[theirs[type][f].type].value.kind = "message" =>
                 SubType(theirs[type][f]) \in Inside
           /\ earlier => SubType(theirs[type][f]) # "NetworkDeviceList"
<1>. DEFINE field == theirs[type][f]
<1>1. WellFormed(Writers) /\ DOMAIN Writers = DOMAIN Schema /\ type \in DOMAIN Schema
  BY Wells
<1>2. theirs[type] = Writers[type] /\ type \in Inside
  BY Levels
<1>3. field.type \in DOMAIN Schema
  BY <1>1, <1>2 DEF WellFormed, Deep
<1>4. field.type \in WithFields(Writers, {type}) /\ field.type \in Inside
  <2>1. field.type \in WithFields(Writers, {type})
    BY <1>2, <1>3, Levels
  <2>2. WithFields(Writers, {type}) \subseteq Inside
    BY WithMore DEF Inside
  <2>. QED BY <2>1, <2>2
<1>5. CASE field.kind # "map"
  <2>1. SubType(field) = field.type
    BY <1>5 DEF SubType
  <2>2. earlier => field.type # "NetworkDeviceList"
    BY <1>1, <1>2, EarlierAssumption DEF Writers
  <2>. QED BY <1>4, <2>1, <2>2
<1>6. CASE field.kind = "map"
  <2>. DEFINE e == field.type
  <2>1. /\ e \in DOMAIN theirs /\ theirs[e] = ours[e] /\ GoodEntry(ours[e])
    BY <1>2, <1>6, EntryIs
  <2>2. theirs[e] = Writers[e] /\ e \in DOMAIN Schema
    BY <2>1, Levels
  <2>3. "value" \in DOMAIN Writers[e] /\ SubType(field) = Writers[e]["value"].type
    BY <1>6, <2>1, <2>2 DEF SubType, GoodEntry, IsEntry
  <2>4. ours[e].value.kind = "message" => Writers[e]["value"].type \in DOMAIN Schema
    BY <1>1, <2>1, <2>2, <2>3 DEF WellFormed
  <2>5. ours[e].value.kind = "message" => SubType(field) \in Inside
    BY <1>4, <2>3, <2>4, Levels
  <2>6. earlier => SubType(field) # "NetworkDeviceList"
    BY <1>1, <2>2, <2>3, EarlierAssumption DEF Writers
  <2>. QED BY <1>6, <2>5, <2>6
<1>. QED BY <1>5, <1>6

\* A message inside the one that is sent, on its way.
InnerJourney(L, u, x, G1, G2) ==
    /\ Journey(Known(L, 1), Known(L, 2), u, cached_size(0, x), InnerParts(0, x), G1,
               cached_size(1, G1), InnerParts(1, G1), G2)
    /\ ~earlier => G2 = x

\* An empty message is written as nothing, and read from it.
LEMMA DefaultReads ==
    ASSUME NEW K, NEW u
    PROVE  << >> \in Seq(Part) /\ Len(<< >>) = 0
           /\ ReadsTo(K, << >>, "message", default_instance(u), default_instance(u))
  BY ReadsNil, EmptySeq

\* A message inside the one that is sent, on its way.
LEMMA InnerGoes ==
    ASSUME Bound, NEW L, Allowed(L), NEW u \in Inside, earlier => u # "NetworkDeviceList",
           NEW x, InnerMade(x, u)
    PROVE  \E G1, G2 : InnerJourney(L, u, x, G1, G2)
<1>. DEFINE K1 == Known(L, 1)
            K2 == Known(L, 2)
            V == x.fields
            D == DOMAIN V
            X == Parts(0, x)
            s0 == [y \in X |-> 0]
            p0 == [y \in X |-> << >>]
            im == [y \in X |-> y]
            w == [f \in D |-> Image(theirs[u][f], V[f], im)]
            c == [f \in D |-> FieldParts(theirs[u][f], V[f], s0, p0)]
            G1 == Taken(K1, u, D, w, c)
            G2 == Taken(K2, u, D, w, c)
            s1 == [y \in Parts(1, G1) |-> 0]
            p1 == [y \in Parts(1, G1) |-> << >>]
<1>1. /\ x = Msg(u, V, << >>) /\ V = [f \in D |-> V[f]] /\ IsFiniteSet(D)
      /\ D \in SUBSET DOMAIN theirs[u]
      /\ \A f \in D : Value(theirs[u][f], V[f], Nested(theirs[u][f], V[f]))
      /\ \A f \in D : \A y \in Nested(theirs[u][f], V[f]) : y = default_instance(SubType(theirs[u][f]))
  BY DEF InnerMade, Made
<1>2. x.type = u /\ FieldsOf(0, u) = theirs[u] /\ FieldsOf(1, u) = ours[u]
  BY <1>1, MsgFields DEF FieldsOf
<1>3. \A f \in D : Nested(theirs[u][f], V[f]) \subseteq X
  BY <1>2 DEF Parts
<1>4. Regular(u) /\ (\A f \in DOMAIN theirs[u] : GoodField(theirs[u][f])) /\ u \in DOMAIN ours
  BY FieldsGood, Levels
<1>5. K1[u] \subseteq K2[u] /\ K2[u] = DOMAIN ours[u]
  BY <1>4, Knows2
<1>6. \A f \in D : Same(u, f) \/ ~Seen(u, f)
  BY <1>1, FieldIs DEF Bound
<1>. HIDE DEF K1, K2, V, X
<1>7. ASSUME NEW f \in D PROVE Goes(K1, K2, u, f, V[f], s0, p0, w[f], s1, p1, w[f])
  <2>. DEFINE Y == Nested(theirs[u][f], V[f])
              v == V[f]
  <2>0. f \in DOMAIN theirs[u]
    BY <1>1
  <2>1. Value(theirs[u][f], v, Y) /\ GoodField(theirs[u][f]) /\ theirs[u][f] \in FieldType
    BY <1>1, <1>4, <2>0 DEF GoodField
  <2>2. \A y \in Y : y \in X /\ y = default_instance(SubType(theirs[u][f]))
    BY <1>1, <1>3
  <2>3. \A y \in Y : s0[y] = 0 /\ p0[y] = << >> /\ im[y] = y
    BY <2>2
  <2>4. w[f] = Image(theirs[u][f], v, im)
    OBVIOUS
  <2>. HIDE DEF s0, p0, im, w, v, Y, s1, p1, G1
  <2>5. CASE Same(u, f)
    <3>1. f \in DOMAIN ours[u] /\ theirs[u][f] = ours[u][f] /\ f \in K2[u]
      BY <1>5, <2>5 DEF Same
    <3>2. ReadyEntry(K1, K2, ours[u][f])
      BY <2>0, <3>1, EntryReady DEF K1, K2
    <3>3. Carry(K1, K2, SubType(ours[u][f]), Y, s0, p0, im, im)
      BY <2>2, <2>3, <3>1, DefaultReads DEF Carry
    <3>4. ASSUME f \in K1[u] PROVE Relay(K2, SubType(ours[u][f]), Y, im, s1, p1, im)
      <4>1. f \in Seens(K1, u, D) /\ Target(u, f) = f
        BY <1>4, <2>0, <2>1, <3>1, <3>4, SameTarget DEF Seens
      <4>2. \A y \in Y : im[y] \in Nested(ours[u][Target(u, f)], w[f])
        BY <2>1, <2>4, <3>1, <4>1, ImageNested DEF Y, v
      <4>3. \A y \in Y : im[y] \in Parts(1, G1)
        BY <1>1, <1>4, <4>1, <4>2, TakenParts DEF G1
      <4>4. \A y \in Y : s1[im[y]] = 0 /\ p1[im[y]] = << >>
        BY <4>3 DEF s1, p1
      <4>. QED BY <2>2, <2>3, <3>1, <4>4, DefaultReads DEF Relay
    <3>5. K2[u] \subseteq DOMAIN ours[u]
      BY <1>5
    <3>6. Goes(K1, K2, u, f, v, s0, p0, Image(ours[u][f], v, im), s1, p1, Image(ours[u][f], v, im))
      BY <1>4, <1>5, <2>0, <2>1, <3>1, <3>2, <3>3, <3>4, <3>5, SameGoes
    <3>. QED BY <2>4, <3>1, <3>6 DEF v
  <2>6. CASE ~Seen(u, f)
    <3>1. Fit(Y, s0, p0)
      BY <2>3, DefaultReads DEF Fit
    <3>2. K2[u] \subseteq DOMAIN ours[u]
      BY <1>5
    <3>3. Goes(K1, K2, u, f, v, s0, p0, w[f], s1, p1, w[f])
      BY <1>4, <1>5, <2>0, <2>1, <2>6, <3>1, <3>2, ForeignGoes
    <3>. QED BY <3>3 DEF v
  <2>. QED BY <1>6, <2>5, <2>6
<1>8. AllGo(K1, K2, u, V, s0, p0, w, s1, p1, w)
  BY <1>7 DEF AllGo
<1>9. Journey(K1, K2, u, compute_size(x, theirs[u], s0),
              write_to_with_cached_sizes(x, theirs[u], s0, p0), G1,
              compute_size(G1, ours[u], s1),
              write_to_with_cached_sizes(G1, ours[u], s1, p1), G2)
  <2>1. c = [f \in DOMAIN V |-> FieldParts(theirs[u][f], V[f], s0, p0)]
    OBVIOUS
  <2>2. G1 = Taken(K1, u, DOMAIN V, w, c)
    OBVIOUS
  <2>3. G2 = Taken(K2, u, DOMAIN V, w, c)
    OBVIOUS
  <2>4. V = [f \in DOMAIN V |-> V[f]]
    BY <1>1
  <2>5. IsFiniteSet(DOMAIN V)
    BY <1>1
  <2>6. DOMAIN V \subseteq DOMAIN theirs[u]
    BY <1>1
  <2>7. x = Msg(u, V, << >>)
    BY <1>1
  <2>8. Regular(u)
    BY <1>4
  <2>9. K1[u] \subseteq K2[u]
    BY <1>5
  <2>. HIDE DEF s0, p0, s1, p1, w, G1, G2, c, D, im
  <2>. QED
    <3>1. Becomes(K1, K2, u, V, x, s0, p0, c, w, G1, s1, p1, w, G2)
      BY <1>8, <2>1, <2>2, <2>3, <2>4, <2>5, <2>6, <2>7, <2>8, <2>9 DEF Becomes
    <3>. QED BY <3>1, MessageGoes
<1>10. /\ cached_size(0, x) = compute_size(x, theirs[u], s0)
       /\ InnerParts(0, x) = write_to_with_cached_sizes(x, theirs[u], s0, p0)
  BY <1>2 DEF cached_size, InnerParts, X, Nothing
<1>11. /\ cached_size(1, G1) = compute_size(G1, ours[u], s1)
       /\ InnerParts(1, G1) = write_to_with_cached_sizes(G1, ours[u], s1, p1)
  <2>0. G1 = Taken(K1, u, D, w, c)
    OBVIOUS
  <2>. HIDE DEF G1
  <2>1. G1.type = u
    <3>1. Regular(u)
      BY <1>4
    <3>2. D \in SUBSET DOMAIN theirs[u]
      BY <1>1
    <3>. HIDE DEF w, c, D, s0, p0, im, G2, s1, p1
    <3>3. HasFields(K1, u, D, w, G1)
      BY <3>1, <3>2, <2>0, TakenFields
    <3>. QED BY <3>3 DEF HasFields
  <2>. QED BY <1>2, <2>1 DEF cached_size, InnerParts, Nothing
<1>12. ASSUME ~earlier PROVE G2 = x
  <2>1. \A f \in D : Same(u, f) /\ theirs[u][f] \in FieldType
    BY <1>1, <1>4, <1>12, FieldIs DEF GoodField
  <2>2. D \subseteq K2[u]
    BY <1>5, <2>1 DEF Same
  <2>3. G2 = Msg(u, [f \in D |-> w[f]], << >>)
    <3>1. D \in SUBSET DOMAIN theirs[u] /\ Regular(u)
      BY <1>1, <1>4
    <3>2. G2 = Taken(K2, u, D, w, c)
      OBVIOUS
    <3>. HIDE DEF w, c, D, G2
    <3>3. Alike(u, D)
      BY <2>1, <3>1 DEF Alike
    <3>4. TakesAll(K2, u, D, w, G2)
      BY <3>2, <3>3, TakenAll
    <3>. QED BY <2>2, <3>4 DEF TakesAll
  <2>4. \A f \in D : w[f] = V[f]
    <3>. SUFFICES ASSUME NEW f \in D PROVE w[f] = V[f]
      OBVIOUS
    <3>. DEFINE v == V[f]
                Y == Nested(theirs[u][f], v)
    <3>1. \A y \in Y : im[y] = y
      BY <1>3
    <3>2. Value(theirs[u][f], v, Y) /\ theirs[u][f] \in FieldType /\ w[f] = Image(theirs[u][f], v, im)
      BY <1>1, <2>1
    <3>. HIDE DEF w, im, v, Y
    <3>. QED BY <3>1, <3>2, ImageSame DEF v
  <2>5. [f \in D |-> w[f]] = V
    <3>. HIDE DEF w
    <3>. QED BY <1>1, <2>4
  <2>. QED BY <1>1, <2>3, <2>5
<1>. HIDE DEF G1, G2, s0, s1, p0, p1
<1>. QED
  BY <1>9, <1>10, <1>11, <1>12 DEF InnerJourney, K1, K2

\* What the relay and the reader have of a message in the one that is sent.
Got1(L, y) == CHOOSE G : \E H : InnerJourney(L, y.type, y, G, H)
Got2(L, y) == CHOOSE H : InnerJourney(L, y.type, y, Got1(L, y), H)

\* What the relay and the reader get of it.
LEMMA Gots ==
    ASSUME Bound, NEW L, Allowed(L), SourceMade(source), NEW f \in DOMAIN source.fields,
           NEW y \in Nested(theirs[type][f], source.fields[f])
    PROVE  /\ y.type = SubType(theirs[type][f])
           /\ InnerJourney(L, y.type, y, Got1(L, y), Got2(L, y))
<1>. DEFINE u == SubType(theirs[type][f])
<1>1. f \in DOMAIN theirs[type] /\ InnerMade(y, u)
  BY DEF SourceMade, Made
<1>2. y.type = u
  BY <1>1, MsgFields DEF InnerMade, Made
<1>3. theirs[type][f].kind \in Deep
      /\ (theirs[type][f].kind # "map" \/ ours[theirs[type][f].type].value.kind = "message")
  <2>1. \/ theirs[type][f].kind \in {"message", "messages"}
        \/ theirs[type][f].kind = "map" /\ ours[theirs[type][f].type].value.kind = "message"
    <3>. DEFINE field == theirs[type][f]
                v == source.fields[f]
    <3>. HIDE DEF field, v
    <3>1. y \in Nested(field, v)
      BY DEF field, v
    <3>2. \/ field.kind \in {"message", "messages"}
          \/ field.kind = "map" /\ ours[field.type].value.kind = "message"
      <4>. SUFFICES ASSUME field.kind # "message", field.kind # "messages",
                           ~(field.kind = "map" /\ ours[field.type].value.kind = "message")
                    PROVE  FALSE
        OBVIOUS
      <4>1. Nested(field, v) = {}
        BY DEF Nested
      <4>. QED BY <3>1, <4>1
    <3>. QED BY <3>2 DEF field
  <2>. QED BY <2>1 DEF Deep
<1>4. u \in Inside /\ (earlier => u # "NetworkDeviceList")
  BY <1>1, <1>3, SubTypes
<1>. HIDE DEF u
<1>5. \E G, H : InnerJourney(L, u, y, G, H)
  BY <1>1, <1>4, InnerGoes
<1>6. \E G : \E H : InnerJourney(L, y.type, y, G, H)
  BY <1>2, <1>5
<1>7. \E H : InnerJourney(L, y.type, y, Got1(L, y), H)
  BY <1>6, Zenon DEF Got1
<1>8. InnerJourney(L, y.type, y, Got1(L, y), Got2(L, y))
  BY <1>7, Zenon DEF Got2
<1>. QED BY <1>2, <1>8 DEF u

\* A message of which no field is known is written as it was read.
LEMMA LooseParts ==
    ASSUME NEW K, NEW u, NEW y \in Loose(K, u)
    PROVE  /\ InnerParts(1, y) = Concat(y.unknown)
           /\ cached_size(1, y) = unknown_fields_size(y.unknown)
<1>1. y.fields = << >> /\ Concat(y.unknown) \in Seq(Part)
      /\ unknown_fields_size(y.unknown) = Len(Concat(y.unknown))
  BY LooseReads
<1>. DEFINE F == FieldsOf(1, y.type)
            size == [x \in Parts(1, y) |-> 0]
            sub == [x \in Parts(1, y) |-> << >>]
            c == Concat(y.unknown)
            g == [f \in DOMAIN y.fields |-> FieldParts(F[f], y.fields[f], size, sub)]
            l == [f \in DOMAIN y.fields |-> FieldSize(F[f], y.fields[f], size)]
<1>2. DOMAIN y.fields = {}
  BY <1>1
<1>3. DOMAIN g = {} /\ DOMAIN l = {} /\ IsFiniteSet(DOMAIN g)
  BY <1>2, FS_EmptySet
<1>4. InnerParts(1, y) = Concat(g) \o c
  BY DEF InnerParts, write_to_with_cached_sizes, Nothing
<1>5. cached_size(1, y) = SumFunction(l) + unknown_fields_size(y.unknown)
  BY DEF cached_size, compute_size
<1>. HIDE DEF g, l, c
<1>6. Concat(g) = << >>
  BY <1>3, ConcatEmpty
<1>7. SumFunction(l) = 0
  <2>1. PICK iter : IsSum(iter, l, DOMAIN l) /\ SumFunction(l) = iter[DOMAIN l]
    BY <1>3, SumFold, FS_EmptySet
  <2>. QED BY <1>3, <2>1, SumSteps
<1>8. c \in Seq(Part) /\ Len(c) \in Nat
  BY <1>1, LenProperties DEF c
<1>9. << >> \o c = c
  <2>. HIDE DEF Part
  <2>. QED BY <1>8
<1>. QED BY <1>1, <1>4, <1>5, <1>6, <1>7, <1>8, <1>9 DEF c

\* What the relay has of the message.
Relayed(L, G) ==
    /\ DOMAIN G.fields = {f \in DOMAIN source.fields : <<type, f>> \notin L}
    /\ \A f \in DOMAIN G.fields :
          /\ ours[type][f].kind \in Flat => G.fields[f] = source.fields[f]
          /\ ours[type][f].kind = "messages" => Len(G.fields[f]) = Len(source.fields[f])

Forwarded(L, G1, G2) ==
    /\ ReadsTo(Known(L, 2), Written(1, G1), "message", default_instance(type), G2)
    /\ ~earlier => G2 = source /\ Relayed(L, G1)

Sent(L, G1, G2) ==
    /\ ReadsTo(Known(L, 1), Written(0, source), "message", default_instance(type), G1)
    /\ Forwarded(L, G1, G2)

\* For every message that a program can make and every set of fields that the relay does
\* not know there is what the relay reads, and what the reader reads of that: if the
\* schemas are the same, the message itself.
LEMMA SourceGoes ==
    ASSUME Bound, SourceMade(source), NEW L, Allowed(L)
    PROVE  \E G1, G2 : Sent(L, G1, G2)
<1>. DEFINE K1 == Known(L, 1)
            K2 == Known(L, 2)
            t == type
            x == source
            V == x.fields
            D == DOMAIN V
            X == Parts(0, x)
            s0 == [y \in X |-> cached_size(0, y)]
            p0 == [y \in X |-> InnerParts(0, y)]
            im1 == [y \in X |-> Got1(L, y)]
            im2 == [y \in X |-> Got2(L, y)]
            c == [f \in D |-> FieldParts(theirs[t][f], V[f], s0, p0)]
            odd(f) == CHOOSE w : OddValue(K1, K2, t, f, c[f], w)
            w1 == [f \in D |-> IF Same(t, f) \/ ~Seen(t, f) THEN Image(theirs[t][f], V[f], im1) ELSE odd(f)]
            w2 == [f \in D |-> IF Same(t, f) \/ ~Seen(t, f) THEN Image(theirs[t][f], V[f], im2) ELSE odd(f)]
            G1 == Taken(K1, t, D, w1, c)
            G2 == Taken(K2, t, D, w2, c)
            s1 == [y \in Parts(1, G1) |-> cached_size(1, y)]
            p1 == [y \in Parts(1, G1) |-> InnerParts(1, y)]
<1>1. /\ x = Msg(t, V, << >>) /\ V = [f \in D |-> V[f]] /\ IsFiniteSet(D)
      /\ D \in SUBSET DOMAIN theirs[t]
      /\ \A f \in D : Value(theirs[t][f], V[f], Nested(theirs[t][f], V[f]))
  BY DEF SourceMade, Made
<1>2. x.type = t /\ FieldsOf(0, t) = theirs[t] /\ FieldsOf(1, t) = ours[t]
  BY <1>1, MsgFields DEF FieldsOf
<1>3. \A f \in D : Nested(theirs[t][f], V[f]) \subseteq X
  BY <1>2 DEF Parts
<1>4. /\ Regular(t) /\ (\A f \in DOMAIN theirs[t] : GoodField(theirs[t][f])) /\ t \in DOMAIN ours
      /\ t \in Inside
      /\ \A g \in DOMAIN ours[t] : ours[t][g].kind = "message" => GoodField(ours[t][g])
  BY FieldsGood, Levels
<1>5. K1[t] \subseteq K2[t] /\ K2[t] = DOMAIN ours[t]
  BY <1>4, Knows2
<1>6. \A f \in D : Same(t, f) \/ ~Seen(t, f) \/ (Odd(t, f) /\ ~Same(t, f) /\ Seen(t, f))
  BY <1>1, <1>4, FieldIs
<1>7. \A f \in D : \A y \in Nested(theirs[t][f], V[f]) :
         /\ y \in X /\ s0[y] = cached_size(0, y) /\ p0[y] = InnerParts(0, y)
         /\ im1[y] = Got1(L, y) /\ im2[y] = Got2(L, y)
         /\ InnerJourney(L, SubType(theirs[t][f]), y, im1[y], im2[y])
  BY <1>3, Gots
<1>. HIDE DEF K1, K2, V, X
<1>8. ASSUME NEW f \in D
      PROVE  /\ Carry(K1, K2, SubType(theirs[t][f]), Nested(theirs[t][f], V[f]), s0, p0, im1, im2)
             /\ Fit(Nested(theirs[t][f], V[f]), s0, p0)
             /\ \A y \in Nested(theirs[t][f], V[f]) :
                   /\ InnerParts(1, im1[y]) \in Seq(Part)
                   /\ cached_size(1, im1[y]) = Len(InnerParts(1, im1[y]))
                   /\ ReadsTo(K2, InnerParts(1, im1[y]), "message",
                              default_instance(SubType(theirs[t][f])), im2[y])
  <2>. DEFINE u == SubType(theirs[t][f])
              Y == Nested(theirs[t][f], V[f])
  <2>1. ASSUME NEW y \in Y
        PROVE  /\ p0[y] \in Seq(Part) /\ s0[y] = Len(p0[y])
               /\ ReadsTo(K1, p0[y], "message", default_instance(u), im1[y])
               /\ ReadsTo(K2, p0[y], "message", default_instance(u), im2[y])
               /\ InnerParts(1, im1[y]) \in Seq(Part)
               /\ cached_size(1, im1[y]) = Len(InnerParts(1, im1[y]))
               /\ ReadsTo(K2, InnerParts(1, im1[y]), "message", default_instance(u), im2[y])
    <3>1. /\ s0[y] = cached_size(0, y) /\ p0[y] = InnerParts(0, y)
          /\ InnerJourney(L, u, y, im1[y], im2[y])
      BY <1>7
    <3>. HIDE DEF s0, p0, im1, im2, u
    <3>. QED BY <3>1 DEF InnerJourney, Journey, K1, K2
  <2>. HIDE DEF s0, p0, im1, im2, u, Y
  <2>2. Carry(K1, K2, u, Y, s0, p0, im1, im2)
    BY <2>1 DEF Carry
  <2>3. Fit(Y, s0, p0)
    BY <2>1 DEF Fit
  <2>. QED BY <2>1, <2>2, <2>3 DEF u, Y
<1>9. ASSUME NEW f \in D PROVE Goes(K1, K2, t, f, V[f], s0, p0, w1[f], s1, p1, w2[f])
  <2>. DEFINE Y == Nested(theirs[t][f], V[f])
              v == V[f]
  <2>0. f \in DOMAIN theirs[t]
    BY <1>1
  <2>1. Value(theirs[t][f], v, Y) /\ GoodField(theirs[t][f]) /\ theirs[t][f] \in FieldType
    BY <1>1, <1>4, <2>0 DEF GoodField
  <2>2. /\ Carry(K1, K2, SubType(theirs[t][f]), Y, s0, p0, im1, im2) /\ Fit(Y, s0, p0)
        /\ \A y \in Y : /\ InnerParts(1, im1[y]) \in Seq(Part)
                        /\ cached_size(1, im1[y]) = Len(InnerParts(1, im1[y]))
                        /\ ReadsTo(K2, InnerParts(1, im1[y]), "message",
                                   default_instance(SubType(theirs[t][f])), im2[y])
    BY <1>8
  <2>3. /\ Same(t, f) => w1[f] = Image(theirs[t][f], v, im1) /\ w2[f] = Image(theirs[t][f], v, im2)
        /\ ~Same(t, f) /\ Seen(t, f) => w1[f] = odd(f) /\ w2[f] = odd(f)
    OBVIOUS
  <2>4. c[f] = FieldParts(theirs[t][f], v, s0, p0)
    OBVIOUS
  <2>5. K2[t] \subseteq DOMAIN ours[t]
    BY <1>5
  <2>6. \A z : z \in Parts(1, G1) => s1[z] = cached_size(1, z) /\ p1[z] = InnerParts(1, z)
    OBVIOUS
  <2>7. G1 = Taken(K1, t, D, w1, c)
    OBVIOUS
  <2>8. odd(f) = CHOOSE w : OddValue(K1, K2, t, f, c[f], w)
    OBVIOUS
  <2>. HIDE DEF s0, p0, im1, im2, w1, w2, v, Y, s1, p1, G1, c, odd
  <2>9. CASE Same(t, f)
    <3>1. f \in DOMAIN ours[t] /\ theirs[t][f] = ours[t][f] /\ f \in K2[t]
      BY <1>5, <2>9 DEF Same
    <3>2. ReadyEntry(K1, K2, ours[t][f])
      BY <1>4, <2>0, <3>1, EntryReady DEF K1, K2
    <3>3. Carry(K1, K2, SubType(ours[t][f]), Y, s0, p0, im1, im2)
      BY <2>2, <3>1
    <3>4. ASSUME f \in K1[t] PROVE Relay(K2, SubType(ours[t][f]), Y, im1, s1, p1, im2)
      <4>1. f \in Seens(K1, t, D) /\ Target(t, f) = f
        BY <1>4, <2>0, <2>1, <3>1, <3>4, SameTarget DEF Seens
      <4>2. \A y \in Y : im1[y] \in Nested(ours[t][Target(t, f)], w1[f])
        BY <2>1, <2>3, <2>9, <3>1, <4>1, ImageNested DEF Y, v
      <4>3. \A y \in Y : im1[y] \in Parts(1, G1)
        BY <1>1, <1>4, <2>7, <4>1, <4>2, TakenParts
      <4>. QED BY <2>2, <2>6, <3>1, <4>3 DEF Relay
    <3>5. Goes(K1, K2, t, f, v, s0, p0, Image(ours[t][f], v, im1), s1, p1, Image(ours[t][f], v, im2))
      BY <1>4, <1>5, <2>0, <2>1, <2>5, <3>1, <3>2, <3>3, <3>4, SameGoes
    <3>. QED BY <2>3, <2>9, <3>1, <3>5 DEF v
  <2>10. CASE ~Seen(t, f)
    <3>1. Goes(K1, K2, t, f, v, s0, p0, w1[f], s1, p1, w2[f])
      BY <1>4, <1>5, <2>0, <2>1, <2>2, <2>5, <2>10, ForeignGoes
    <3>. QED BY <3>1 DEF v
  <2>11. CASE Odd(t, f) /\ ~Same(t, f) /\ Seen(t, f)
    <3>. DEFINE g == Target(t, f)
                u == ours[t][g].type
                w == odd(f)
    <3>1. t = "NetworkDeviceList" /\ u \in DOMAIN ours
      BY <1>4, <2>0, <2>11, FieldIs
    <3>2. Fair(t, g)
      BY <3>1 DEF Fair
    <3>3. g \in DOMAIN ours[t] /\ ours[t][g].kind = "message" /\ DOMAIN ours[u] = {}
      BY <2>11, TargetMeets DEF Odd, Meets
    <3>4. K1[u] = {} /\ K2[u] = {}
      BY <3>1, <3>3, Knows2 DEF K1, K2
    <3>5. GoodField(ours[t][g])
      BY <1>4, <3>3
    <3>6. /\ \E z : OddValue(K1, K2, t, f, c[f], z)
          /\ \A z, s, p :
                 /\ OddValue(K1, K2, t, f, c[f], z)
                 /\ g \in K1[t] => p[z] = Concat(z.unknown) /\ s[z] = unknown_fields_size(z.unknown)
                 => Goes(K1, K2, t, f, v, s0, p0, z, s, p, z)
      BY <1>4, <1>5, <2>0, <2>1, <2>2, <2>4, <2>11, <3>1, <3>2, <3>4, <3>5, OddGoes
    <3>. HIDE DEF w
    <3>7. OddValue(K1, K2, t, f, c[f], w)
      BY <2>8, <3>6, Zenon DEF w
    <3>8. w1[f] = w /\ w2[f] = w
      BY <2>3, <2>11 DEF w
    <3>9. ASSUME g \in K1[t]
          PROVE  p1[w] = Concat(w.unknown) /\ s1[w] = unknown_fields_size(w.unknown)
      <4>1. f \in Seens(K1, t, D)
        BY <2>11, <3>9 DEF Seens
      <4>2. w \in Nested(ours[t][g], w1[f])
        BY <3>3, <3>8 DEF Nested
      <4>3. w \in Parts(1, G1)
        BY <1>1, <1>4, <2>7, <4>1, <4>2, TakenParts
      <4>4. w \in Loose(K2, u)
        BY <3>7 DEF OddValue
      <4>. QED BY <2>6, <4>3, <4>4, LooseParts
    <3>10. Goes(K1, K2, t, f, v, s0, p0, w, s1, p1, w)
      BY <3>6, <3>7, <3>9
    <3>. QED BY <3>8, <3>10 DEF v
  <2>. QED BY <1>6, <2>9, <2>10, <2>11
<1>10. AllGo(K1, K2, t, V, s0, p0, w1, s1, p1, w2)
  BY <1>9 DEF AllGo
<1>11. Journey(K1, K2, t, compute_size(x, theirs[t], s0),
              write_to_with_cached_sizes(x, theirs[t], s0, p0), G1,
              compute_size(G1, ours[t], s1),
              write_to_with_cached_sizes(G1, ours[t], s1, p1), G2)
  <2>1. c = [f \in DOMAIN V |-> FieldParts(theirs[t][f], V[f], s0, p0)]
    OBVIOUS
  <2>2. G1 = Taken(K1, t, DOMAIN V, w1, c)
    OBVIOUS
  <2>3. G2 = Taken(K2, t, DOMAIN V, w2, c)
    OBVIOUS
  <2>4. x = Msg(t, V, << >>) /\ V = [f \in DOMAIN V |-> V[f]] /\ IsFiniteSet(DOMAIN V)
        /\ DOMAIN V \subseteq DOMAIN theirs[t]
    BY <1>1
  <2>5. Regular(t) /\ K1[t] \subseteq K2[t]
    BY <1>4, <1>5
  <2>. HIDE DEF s0, p0, s1, p1, w1, w2, G1, G2, c, D, im1, im2
  <2>6. Becomes(K1, K2, t, V, x, s0, p0, c, w1, G1, s1, p1, w2, G2)
    BY <1>10, <2>1, <2>2, <2>3, <2>4, <2>5 DEF Becomes
  <2>. QED BY <2>6, MessageGoes
<1>12. Written(0, x) = write_to_with_cached_sizes(x, theirs[t], s0, p0)
  BY <1>2 DEF Written, X
<1>13. Written(1, G1) = write_to_with_cached_sizes(G1, ours[t], s1, p1)
  <2>0. G1 = Taken(K1, t, D, w1, c)
    OBVIOUS
  <2>1. Regular(t)
    BY <1>4
  <2>2. D \in SUBSET DOMAIN theirs[t]
    BY <1>1
  <2>. HIDE DEF G1
  <2>3. G1.type = t
    <3>. HIDE DEF w1, w2, c, D, im1, im2, s0, p0
    <3>1. HasFields(K1, t, D, w1, G1)
      BY <2>0, <2>1, <2>2, TakenFields
    <3>. QED BY <3>1 DEF HasFields
  <2>. QED BY <1>2, <2>3 DEF Written
<1>14. ASSUME ~earlier PROVE G2 = x /\ Relayed(L, G1)
  <2>1. \A f \in D : Same(t, f) /\ theirs[t][f] \in FieldType /\ theirs[t][f] = ours[t][f]
    BY <1>1, <1>4, <1>14, FieldIs DEF GoodField, Same
  <2>2. D \subseteq K2[t]
    BY <1>5, <2>1 DEF Same
  <2>3. D \in SUBSET DOMAIN theirs[t] /\ Regular(t)
    BY <1>1, <1>4
  <2>4. G2 = Msg(t, [f \in D |-> w2[f]], << >>)
    <3>1. G2 = Taken(K2, t, D, w2, c)
      OBVIOUS
    <3>. HIDE DEF w1, w2, c, D, G2
    <3>2. Alike(t, D)
      BY <2>1, <2>3 DEF Alike
    <3>3. TakesAll(K2, t, D, w2, G2)
      BY <3>1, <3>2, TakenAll
    <3>. QED BY <2>2, <3>3 DEF TakesAll
  <2>5. DOMAIN G1.fields = D \cap K1[t] /\ \A f \in D \cap K1[t] : G1.fields[f] = w1[f]
    <3>1. G1 = Taken(K1, t, D, w1, c)
      OBVIOUS
    <3>. HIDE DEF w1, w2, c, D, G1
    <3>2. Alike(t, D)
      BY <2>1, <2>3 DEF Alike
    <3>3. TakesAll(K1, t, D, w1, G1)
      BY <3>1, <3>2, TakenAll
    <3>. QED BY <3>3 DEF TakesAll
  <2>6. ASSUME NEW f \in D
        PROVE  /\ w2[f] = V[f]
               /\ theirs[t][f].kind \in Flat => w1[f] = V[f]
               /\ theirs[t][f].kind = "messages" => Len(w1[f]) = Len(V[f])
    <3>. DEFINE v == V[f]
                Y == Nested(theirs[t][f], v)
    <3>1. \A y \in Y : im2[y] = y
      BY <1>7, <1>14 DEF InnerJourney
    <3>2. /\ Value(theirs[t][f], v, Y) /\ theirs[t][f] \in FieldType
          /\ w1[f] = Image(theirs[t][f], v, im1) /\ w2[f] = Image(theirs[t][f], v, im2)
      BY <1>1, <2>1
    <3>. HIDE DEF w1, w2, im1, im2, v, Y
    <3>. QED BY <3>1, <3>2, ImageSame DEF v
  <2>7. [f \in D |-> w2[f]] = V
    <3>. HIDE DEF w2
    <3>. QED BY <1>1, <2>6
  <2>8. D \cap K1[t] = {f \in D : <<t, f>> \notin L}
    BY <1>4, <1>5, <2>2, Knows2 DEF K1
  <2>9. Relayed(L, G1)
    <3>1. \A f \in DOMAIN G1.fields :
              /\ ours[t][f].kind \in Flat => G1.fields[f] = V[f]
              /\ ours[t][f].kind = "messages" => Len(G1.fields[f]) = Len(V[f])
      <4>. HIDE DEF G1, w1, w2, D
      <4>. QED BY <2>1, <2>5, <2>6
    <3>. HIDE DEF G1
    <3>. QED BY <2>5, <2>8, <3>1 DEF Relayed, V
  <2>. QED BY <1>1, <2>4, <2>7, <2>9
<1>. HIDE DEF G1, G2, s0, s1, p0, p1
<1>15. Sent(L, G1, G2)
  BY <1>11, <1>12, <1>13, <1>14 DEF Sent, Forwarded, Journey, K1, K2
<1>. QED BY <1>15

-----------------------------------------------------------------------------
(***************************************************************************)
(* A message only grows                                                    *)
(***************************************************************************)
Lists == {"repeated", "packed", "messages"}

\* What is listed in a message, and what is unknown, are sequences.
Kept(m) ==
    /\ IsMsg(m, m.type)
    /\ \A f \in DOMAIN m.fields : ours[m.type][f].kind \in Lists => \E S : m.fields[f] \in Seq(S)
    /\ IsFiniteSet(DOMAIN m.unknown) /\ \A n \in DOMAIN m.unknown : m.unknown[n] \in Seq(Part)

\* By k parts at the most.
Grown(m, n, k) ==
    /\ n.type = m.type
    /\ \A f \in DOMAIN m.fields : ours[m.type][f].kind \in Lists =>
          f \in DOMAIN n.fields /\ Len(m.fields[f]) <= Len(n.fields[f])
    /\ unknown_fields_size(m.unknown) \in Nat /\ unknown_fields_size(n.unknown) \in Nat
    /\ unknown_fields_size(m.unknown) <= unknown_fields_size(n.unknown)
    /\ unknown_fields_size(n.unknown) <= unknown_fields_size(m.unknown) + k

\* What is kept besides grows by what is kept.
LEMMA UnknownSize ==
    ASSUME NEW U, IsFiniteSet(DOMAIN U), \A n \in DOMAIN U : U[n] \in Seq(Part),
           NEW n, NEW c \in Seq(Part)
    PROVE  LET old == IF n \in DOMAIN U THEN U[n] ELSE << >>
               V == Assign(U, n, old \o c)
           IN  /\ IsFiniteSet(DOMAIN V) /\ \A k \in DOMAIN V : V[k] \in Seq(Part)
               /\ unknown_fields_size(U) \in Nat
               /\ unknown_fields_size(V) = unknown_fields_size(U) + Len(c)
<1>. DEFINE old == IF n \in DOMAIN U THEN U[n] ELSE << >>
            e == old \o c
            V == Assign(U, n, e)
            g == [k \in DOMAIN U |-> Len(U[k])]
            h == [k \in DOMAIN V |-> Len(V[k])]
<1>1. old \in Seq(Part)
  BY EmptySeq
<1>2. e \in Seq(Part) /\ Len(e) = Len(old) + Len(c) /\ Len(e) \in Nat /\ Len(old) \in Nat
      /\ Len(c) \in Nat
  <2>. HIDE DEF old, Part
  <2>. QED BY <1>1, ConcatProperties, LenProperties
<1>3. Len(old) = IF n \in DOMAIN U THEN g[n] ELSE 0
  <2>1. Len(<< >>) = 0
    BY EmptySeq
  <2>. QED BY <2>1
<1>. HIDE DEF e, old
<1>4. /\ DOMAIN V = DOMAIN U \cup {n} /\ V[n] = e /\ \A k \in DOMAIN V : k # n => k \in DOMAIN U /\ V[k] = U[k]
  BY DEF Assign
<1>. HIDE DEF V
<1>5. IsFiniteSet(DOMAIN V) /\ \A k \in DOMAIN V : V[k] \in Seq(Part)
  BY <1>2, <1>4, FS_AddElement
<1>6. h = Assign(g, n, Len(e))
  <2>1. DOMAIN g = DOMAIN U /\ \A k \in DOMAIN U : g[k] = Len(U[k])
    OBVIOUS
  <2>2. \A k \in DOMAIN U \cup {n} : Len(V[k]) = IF k = n THEN Len(e) ELSE g[k]
    BY <1>4, <2>1
  <2>. HIDE DEF g
  <2>. QED BY <1>4, <2>1, <2>2 DEF Assign
<1>7. DOMAIN g = DOMAIN U /\ \A k \in DOMAIN g : g[k] \in Nat
  BY LenProperties
<1>. HIDE DEF g
<1>8. SumFunction(g) \in Nat
      /\ SumFunction(Assign(g, n, Len(e))) = SumFunction(g) + Len(e) - (IF n \in DOMAIN g THEN g[n] ELSE 0)
  BY <1>2, <1>7, SumAssign
<1>9. unknown_fields_size(U) = SumFunction(g) /\ unknown_fields_size(V) = SumFunction(h)
  BY DEF unknown_fields_size, g
<1>. HIDE DEF h
<1>10. unknown_fields_size(V) = unknown_fields_size(U) + Len(c)
  <2>. DEFINE q == IF n \in DOMAIN g THEN g[n] ELSE 0
  <2>1. q = Len(old)
    BY <1>3, <1>7
  <2>. HIDE DEF q
  <2>2. SumFunction(h) = SumFunction(g) + Len(e) - q
    BY <1>6, <1>8 DEF q
  <2>. QED BY <1>2, <1>8, <1>9, <2>1, <2>2
<1>. QED BY <1>5, <1>8, <1>9, <1>10 DEF V, e, old

\* The size of what is unknown is a number.
LEMMA SizeIn ==
    ASSUME NEW m, Kept(m) PROVE unknown_fields_size(m.unknown) \in Nat
  BY UnknownSize, EmptySeq DEF Kept

\* A field gets a value, which is no shorter than it was.
LEMMA WithGrows ==
    ASSUME NEW m, Kept(m), NEW f, NEW v,
           ours[m.type][f].kind \in Lists =>
               (\E S : v \in Seq(S)) /\ (f \in DOMAIN m.fields => Len(m.fields[f]) <= Len(v)),
           NEW k \in Nat
    PROVE  Kept(With(m, f, v)) /\ Grown(m, With(m, f, v), k)
<1>. DEFINE n == With(m, f, v)
<1>1. m = Msg(m.type, m.fields, m.unknown)
  BY DEF Kept, IsMsg
<1>2. n = Msg(m.type, Assign(m.fields, f, v), m.unknown)
  BY <1>1, MsgFields
<1>. HIDE DEF n
<1>3. n.type = m.type /\ n.fields = Assign(m.fields, f, v) /\ n.unknown = m.unknown
      /\ IsMsg(n, n.type)
  BY <1>2, MsgFields
<1>4. /\ DOMAIN n.fields = DOMAIN m.fields \cup {f} /\ n.fields[f] = v
      /\ \A g \in DOMAIN m.fields : g # f => n.fields[g] = m.fields[g]
  BY <1>3 DEF Assign
<1>5. Kept(n)
  <2>1. \A g \in DOMAIN n.fields : ours[n.type][g].kind \in Lists => \E S : n.fields[g] \in Seq(S)
    BY <1>3, <1>4 DEF Kept
  <2>. QED BY <1>3, <2>1 DEF Kept
<1>6. unknown_fields_size(m.unknown) \in Nat
  BY SizeIn
<1>7. \A g \in DOMAIN m.fields : ours[m.type][g].kind \in Lists =>
         Len(m.fields[g]) <= Len(n.fields[g])
  <2>. SUFFICES ASSUME NEW g \in DOMAIN m.fields, ours[m.type][g].kind \in Lists
                PROVE  Len(m.fields[g]) <= Len(n.fields[g])
    OBVIOUS
  <2>1. PICK S : m.fields[g] \in Seq(S)
    BY DEF Kept
  <2>2. Len(m.fields[g]) \in Nat
    BY <2>1, LenProperties
  <2>. QED BY <1>4, <2>2
<1>8. Grown(m, n, k)
  BY <1>3, <1>4, <1>6, <1>7 DEF Grown
<1>. QED BY <1>5, <1>8 DEF n

\* What a list has got so far is a sequence.
LEMMA OldList ==
    ASSUME NEW m, Kept(m), NEW f, ours[m.type][f].kind \in Lists
    PROVE  /\ \E S : Old(m, f) \in Seq(S)
           /\ f \in DOMAIN m.fields => Old(m, f) = m.fields[f]
<1>1. << >> \in Seq({})
  BY EmptySeq
<1>. QED BY <1>1 DEF Old, Kept, Nothing

\* An item without a message in it never shortens a list, and adds at the most its parts.
LEMMA PassGrows ==
    ASSUME NEW K, NEW tag, NEW parts, IsItem(tag, parts), NEW m, Kept(m), NEW n,
           Passes(K, tag, parts, "message", m, n)
    PROVE  Kept(n) /\ Grown(m, n, 1 + Len(parts))
<1>1. parts \in Seq(Part) /\ Len(parts) \in Nat /\ tag \in Part
      /\ (tag.wt = "len" => tag.v = Len(parts))
  <2>1. parts \in Seq(Part) /\ tag \in Part /\ Len(parts) = Extent(tag) - 1
    BY DEF IsItem
  <2>2. Len(parts) \in Nat
    BY <2>1, LenProperties
  <2>3. tag.wt = "len" => tag.v = Len(parts)
    <3>. SUFFICES ASSUME tag.wt = "len" PROVE tag.v = Len(parts)
      OBVIOUS
    <3>1. tag.v \in Nat
      BY DEF IsItem, Part
    <3>2. Extent(tag) = 1 + tag.v
      BY DEF Extent
    <3>. QED BY <2>1, <3>1, <3>2
  <2>. QED BY <2>1, <2>2, <2>3
<1>2. CASE n = Keep(m, tag.num, Item(tag, parts))
  <2>. DEFINE c == Item(tag, parts)
              U == m.unknown
              V == Assign(U, tag.num, (IF tag.num \in DOMAIN U THEN U[tag.num] ELSE << >>) \o c)
  <2>1. m = Msg(m.type, m.fields, U)
    BY DEF Kept, IsMsg
  <2>2. n = Msg(m.type, m.fields, V)
    BY <1>2, <2>1, MsgFields
  <2>3. c \in Seq(Part) /\ Len(c) = 1 + Len(parts)
    <3>1. <<tag>> \in Seq(Part) /\ Len(<<tag>>) = 1
      BY <1>1
    <3>. HIDE DEF Part
    <3>2. <<tag>> \o parts \in Seq(Part) /\ Len(<<tag>> \o parts) = 1 + Len(parts)
      BY <1>1, <3>1, ConcatProperties
    <3>. QED BY <3>2 DEF Item
  <2>. HIDE DEF c
  <2>4. /\ IsFiniteSet(DOMAIN V) /\ \A k \in DOMAIN V : V[k] \in Seq(Part)
        /\ unknown_fields_size(U) \in Nat
        /\ unknown_fields_size(V) = unknown_fields_size(U) + Len(c)
    <3>1. IsFiniteSet(DOMAIN U) /\ \A k \in DOMAIN U : U[k] \in Seq(Part)
      BY DEF Kept
    <3>. HIDE DEF U
    <3>. QED BY <2>3, <3>1, UnknownSize
  <2>. HIDE DEF V
  <2>5. n.type = m.type /\ n.fields = m.fields /\ n.unknown = V /\ IsMsg(n, n.type)
    BY <2>2, MsgFields
  <2>6. Kept(n)
    BY <2>4, <2>5 DEF Kept
  <2>7. \A f \in DOMAIN m.fields : ours[m.type][f].kind \in Lists => Len(m.fields[f]) <= Len(m.fields[f])
    <3>. SUFFICES ASSUME NEW f \in DOMAIN m.fields, ours[m.type][f].kind \in Lists
                  PROVE  Len(m.fields[f]) <= Len(m.fields[f])
      OBVIOUS
    <3>1. PICK S : m.fields[f] \in Seq(S)
      BY DEF Kept
    <3>2. Len(m.fields[f]) \in Nat
      BY <3>1, LenProperties
    <3>. QED BY <3>2
  <2>8. Grown(m, n, 1 + Len(parts))
    BY <1>1, <2>3, <2>4, <2>5, <2>7 DEF Grown
  <2>. QED BY <2>6, <2>8
<1>3. ASSUME NEW f, ours[m.type][f].kind \in Flat,
             n = With(m, f, ScalarValue(ours[m.type][f], tag, parts, Old(m, f)))
      PROVE  Kept(n) /\ Grown(m, n, 1 + Len(parts))
  <2>. DEFINE field == ours[m.type][f]
              old == Old(m, f)
              v == ScalarValue(field, tag, parts, old)
              one == IF tag.wt = "len" THEN parts[1].raw ELSE tag.v
              raws == [i \in 1 .. tag.v |-> parts[i].raw]
  <2>1. CASE field.kind = "scalar"
    <3>1. field.kind \notin Lists
      BY <2>1 DEF Lists
    <3>. HIDE DEF v
    <3>. QED BY <1>1, <1>3, <3>1, WithGrows DEF v
  <2>2. CASE field.kind \in {"repeated", "packed"}
    <3>1. PICK S : old \in Seq(S)
      BY <2>2, OldList DEF Lists
    <3>2. f \in DOMAIN m.fields => old = m.fields[f]
      BY <2>2, OldList DEF Lists
    <3>3. ASSUME NEW x PROVE (\E T : Append(old, x) \in Seq(T)) /\ Len(old) <= Len(Append(old, x))
      <4>. HIDE DEF old
      <4>1. old \in Seq(S \cup {x}) /\ x \in S \cup {x}
        BY <3>1
      <4>2. Append(old, x) \in Seq(S \cup {x}) /\ Len(Append(old, x)) = Len(old) + 1 /\ Len(old) \in Nat
        BY <4>1, AppendProperties, LenProperties
      <4>. QED BY <4>2
    <3>4. ASSUME tag.wt = "len"
          PROVE  (\E T : old \o raws \in Seq(T)) /\ Len(old) <= Len(old \o raws)
      <4>. DEFINE T == S \cup {parts[i].raw : i \in 1 .. tag.v}
      <4>1. tag.v \in Nat
        BY <1>1, <3>4
      <4>2. raws \in Seq(T)
        BY <4>1
      <4>3. old \in Seq(T)
        <5>. HIDE DEF old
        <5>. QED BY <3>1
      <4>. HIDE DEF raws, old, T
      <4>4. old \o raws \in Seq(T) /\ Len(old \o raws) = Len(old) + Len(raws)
            /\ Len(old) \in Nat /\ Len(raws) \in Nat
        BY <4>2, <4>3, ConcatProperties, LenProperties
      <4>. QED BY <4>4
    <3>5. v = Append(old, one) \/ v = Append(old, tag.v) \/ (tag.wt = "len" /\ v = old \o raws)
      <4>. HIDE DEF raws, old, one, field
      <4>. QED BY <2>2 DEF ScalarValue, raws, one
    <3>. HIDE DEF v, old, raws, one
    <3>6. (\E T : v \in Seq(T)) /\ Len(old) <= Len(v)
      BY <3>3, <3>4, <3>5
    <3>7. n = With(m, f, v)
      BY <1>3 DEF v, old
    <3>. QED BY <1>1, <3>2, <3>6, <3>7, WithGrows
  <2>. QED BY <1>3, <2>1, <2>2 DEF Flat
<1>4. \/ n = Keep(m, tag.num, Item(tag, parts))
      \/ \E f : /\ ours[m.type][f].kind \in Flat
                /\ n = With(m, f, ScalarValue(ours[m.type][f], tag, parts, Old(m, f)))
  BY DEF Passes
<1>. QED BY <1>2, <1>3, <1>4

\* A message that is stored never shortens a list.
LEMMA StoredGrows ==
    ASSUME NEW m, Kept(m), NEW f, ours[m.type][f].kind \in Deep, NEW x, NEW k \in Nat
    PROVE  Kept(Stored(m, f, x)) /\ Grown(m, Stored(m, f, x), k)
<1>. DEFINE field == ours[m.type][f]
            old == Old(m, f)
            v == Store(old, field, x)
<1>1. CASE field.kind \in Lists
  <2>1. PICK S : old \in Seq(S)
    BY <1>1, OldList
  <2>2. f \in DOMAIN m.fields => old = m.fields[f]
    BY <1>1, OldList
  <2>3. CASE field.kind = "messages"
    <3>1. v = Append(old, x)
      BY <2>3 DEF Store
    <3>. HIDE DEF old, v
    <3>2. old \in Seq(S \cup {x}) /\ x \in S \cup {x}
      BY <2>1
    <3>3. v \in Seq(S \cup {x}) /\ Len(v) = Len(old) + 1 /\ Len(old) \in Nat
      BY <3>1, <3>2, AppendProperties, LenProperties
    <3>. QED BY <2>2, <3>3, WithGrows DEF Stored, v, old
  <2>4. CASE field.kind \in {"repeated", "packed"}
    <3>. QED BY <2>4 DEF Deep
  <2>. QED BY <1>1, <2>3, <2>4 DEF Lists
<1>2. CASE field.kind \notin Lists
  <2>. HIDE DEF v
  <2>1. Kept(With(m, f, v)) /\ Grown(m, With(m, f, v), k)
    BY <1>2, WithGrows
  <2>. QED BY <2>1 DEF Stored, v
<1>. QED BY <1>1, <1>2

\* Twice grown is grown.
LEMMA GrownTrans ==
    ASSUME NEW m, NEW n, NEW o, NEW j \in Nat, NEW k \in Nat, Kept(m), Kept(n), Kept(o),
           Grown(m, n, j), Grown(n, o, k)
    PROVE  Grown(m, o, j + k)
<1>1. \A f \in DOMAIN m.fields : ours[m.type][f].kind \in Lists =>
         f \in DOMAIN o.fields /\ Len(m.fields[f]) <= Len(o.fields[f])
  <2>. SUFFICES ASSUME NEW f \in DOMAIN m.fields, ours[m.type][f].kind \in Lists
                PROVE  f \in DOMAIN o.fields /\ Len(m.fields[f]) <= Len(o.fields[f])
    OBVIOUS
  <2>1. f \in DOMAIN n.fields /\ Len(m.fields[f]) <= Len(n.fields[f]) /\ n.type = m.type
    BY DEF Grown
  <2>2. f \in DOMAIN o.fields /\ Len(n.fields[f]) <= Len(o.fields[f]) /\ o.type = m.type
    BY <2>1 DEF Grown
  <2>3. PICK S : m.fields[f] \in Seq(S)
    BY DEF Kept
  <2>4. PICK T : n.fields[f] \in Seq(T)
    BY <2>1 DEF Kept
  <2>5. PICK R : o.fields[f] \in Seq(R)
    BY <2>2 DEF Kept
  <2>6. Len(m.fields[f]) \in Nat /\ Len(n.fields[f]) \in Nat /\ Len(o.fields[f]) \in Nat
    BY <2>3, <2>4, <2>5, LenProperties
  <2>. QED BY <2>1, <2>2, <2>6
<1>2. o.type = m.type
  BY DEF Grown
<1>3. /\ unknown_fields_size(m.unknown) \in Nat /\ unknown_fields_size(n.unknown) \in Nat
      /\ unknown_fields_size(o.unknown) \in Nat
      /\ unknown_fields_size(m.unknown) <= unknown_fields_size(n.unknown)
      /\ unknown_fields_size(n.unknown) <= unknown_fields_size(m.unknown) + j
      /\ unknown_fields_size(n.unknown) <= unknown_fields_size(o.unknown)
      /\ unknown_fields_size(o.unknown) <= unknown_fields_size(n.unknown) + k
  BY DEF Grown
<1>4. /\ unknown_fields_size(m.unknown) <= unknown_fields_size(o.unknown)
      /\ unknown_fields_size(o.unknown) <= unknown_fields_size(m.unknown) + (j + k)
  BY <1>3
<1>. QED BY <1>1, <1>2, <1>3, <1>4 DEF Grown

GrowsTo(m, n, k) == Kept(n) /\ Grown(m, n, k)

\* The same with what is kept.
LEMMA GrowsToTrans ==
    ASSUME NEW m, NEW n, NEW o, NEW j \in Nat, NEW k \in Nat, Kept(m),
           GrowsTo(m, n, j), GrowsTo(n, o, k)
    PROVE  GrowsTo(m, o, j + k)
  BY GrownTrans DEF GrowsTo

\* A message has grown by nothing into itself.
LEMMA SameGrows ==
    ASSUME NEW m, Kept(m) PROVE GrowsTo(m, m, 0)
<1>1. unknown_fields_size(m.unknown) \in Nat
  BY SizeIn
<1>2. \A f \in DOMAIN m.fields : ours[m.type][f].kind \in Lists => Len(m.fields[f]) <= Len(m.fields[f])
  <2>. SUFFICES ASSUME NEW f \in DOMAIN m.fields, ours[m.type][f].kind \in Lists
                PROVE  Len(m.fields[f]) <= Len(m.fields[f])
    OBVIOUS
  <2>1. PICK S : m.fields[f] \in Seq(S)
    BY DEF Kept
  <2>2. Len(m.fields[f]) \in Nat
    BY <2>1, LenProperties
  <2>. QED BY <2>2
<1>. QED BY <1>1, <1>2 DEF GrowsTo, Grown

\* So that a message that is read is at least what it is on the way.
LEMMA ReadsGrow ==
    ASSUME NEW K, NEW c, NEW m, NEW n, ReadsTo(K, c, "message", m, n), Kept(m)
    PROVE  GrowsTo(m, n, Len(c))
<1>. DEFINE T == {k \in Nat : \A d, p, q : /\ ReadsTo(K, d, "message", p, q) /\ Kept(p)
                                           /\ d \in Seq(Part) /\ Len(d) <= k
                                           => GrowsTo(p, q, Len(d))}
<1>1. \A k \in Nat : (\A j \in 0 .. k - 1 : j \in T) => k \in T
  <2>. SUFFICES ASSUME NEW k \in Nat, \A j \in 0 .. k - 1 : j \in T,
                       NEW d, NEW p, NEW q, ReadsTo(K, d, "message", p, q), Kept(p),
                       d \in Seq(Part), Len(d) <= k
                PROVE  GrowsTo(p, q, Len(d))
    OBVIOUS
  <2>. HIDE DEF T
  <2>0. ASSUME NEW rest \in Seq(Part), Len(rest) < k, NEW x, Kept(x), ReadsTo(K, rest, "message", x, q)
        PROVE  GrowsTo(x, q, Len(rest))
    <3>1. Len(rest) \in 0 .. k - 1
      BY <2>0, LenProperties
    <3>2. Len(rest) \in T
      BY <3>1
    <3>. QED BY <2>0, <3>2 DEF T
  <2>1. CASE d = << >> /\ p = q
    BY <2>1, SameGrows, EmptySeq
  <2>2. ASSUME NEW tag, NEW parts, NEW rest, IsItem(tag, parts), rest \in Seq(Part),
               d = Item(tag, parts) \o rest
        PROVE  /\ parts \in Seq(Part) /\ Len(parts) \in Nat /\ Len(rest) \in Nat
               /\ Len(d) = (1 + Len(parts)) + Len(rest) /\ Len(rest) < k
    <3>1. parts \in Seq(Part) /\ Len(parts) \in Nat /\ tag \in Part /\ Len(rest) \in Nat
      BY <2>2, LenProperties DEF IsItem
    <3>2. Item(tag, parts) \in Seq(Part) /\ Len(Item(tag, parts)) = 1 + Len(parts)
      <4>. HIDE DEF Part
      <4>1. <<tag>> \in Seq(Part) /\ Len(<<tag>>) = 1
        BY <3>1
      <4>. QED BY <3>1, <4>1, ConcatProperties DEF Item
    <3>. HIDE DEF Part
    <3>3. Len(d) = (1 + Len(parts)) + Len(rest)
      BY <2>2, <3>1, <3>2, ConcatProperties
    <3>. QED BY <3>1, <3>3
  <2>3. ASSUME NEW tag, NEW parts, NEW rest, IsItem(tag, parts), rest \in Seq(Part),
               d = Item(tag, parts) \o rest,
               NEW x, Passes(K, tag, parts, "message", p, x), ReadsTo(K, rest, "message", x, q)
        PROVE  GrowsTo(p, q, Len(d))
    <3>1. /\ parts \in Seq(Part) /\ Len(parts) \in Nat /\ Len(rest) \in Nat
          /\ Len(d) = (1 + Len(parts)) + Len(rest) /\ Len(rest) < k
      BY <2>2, <2>3
    <3>2. GrowsTo(p, x, 1 + Len(parts))
      BY <2>3, PassGrows DEF GrowsTo
    <3>3. GrowsTo(x, q, Len(rest))
      BY <2>0, <2>3, <3>1, <3>2 DEF GrowsTo
    <3>. DEFINE j == 1 + Len(parts)
    <3>4. j \in Nat
      BY <3>1
    <3>. HIDE DEF j
    <3>5. GrowsTo(p, q, j + Len(rest))
      BY <3>1, <3>2, <3>3, <3>4, GrowsToTrans DEF j
    <3>. QED BY <3>1, <3>5 DEF j
  <2>4. ASSUME NEW tag, NEW parts, NEW rest, IsItem(tag, parts), rest \in Seq(Part),
               d = Item(tag, parts) \o rest,
               NEW f, NEW x, Enters(K, tag, "message", p, f),
               ReadsTo(K, rest, "message", Stored(p, f, x), q)
        PROVE  GrowsTo(p, q, Len(d))
    <3>1. /\ parts \in Seq(Part) /\ Len(parts) \in Nat /\ Len(rest) \in Nat
          /\ Len(d) = (1 + Len(parts)) + Len(rest) /\ Len(rest) < k
      BY <2>2, <2>4
    <3>2. GrowsTo(p, Stored(p, f, x), 1 + Len(parts))
      BY <2>4, <3>1, StoredGrows DEF GrowsTo, Enters
    <3>3. GrowsTo(Stored(p, f, x), q, Len(rest))
      BY <2>0, <2>4, <3>1, <3>2 DEF GrowsTo
    <3>. DEFINE j == 1 + Len(parts)
    <3>4. j \in Nat
      BY <3>1
    <3>. HIDE DEF j
    <3>5. GrowsTo(p, q, j + Len(rest))
      BY <3>1, <3>2, <3>3, <3>4, GrowsToTrans DEF j
    <3>. QED BY <3>1, <3>5 DEF j
  <2>. QED BY <2>1, <2>3, <2>4, ReadsUnfold
<1>2. 0 \in T
  BY <1>1
<1>3. \A k \in Nat : k \in T
  <2>. HIDE DEF T
  <2>. DEFINE S == {k \in Nat : \A j \in 0 .. k : j \in T}
  <2>1. 0 \in S
    BY <1>2
  <2>2. \A k \in Nat : k \in S => k + 1 \in S
    <3>. SUFFICES ASSUME NEW k \in Nat, k \in S PROVE k + 1 \in S
      OBVIOUS
    <3>1. \A j \in 0 .. (k + 1) - 1 : j \in T
      OBVIOUS
    <3>2. k + 1 \in T
      BY <1>1, <3>1
    <3>. QED BY <3>2
  <2>3. Nat \subseteq S
    <3>. HIDE DEF S
    <3>. QED BY <2>1, <2>2, NatInduct
  <2>. QED BY <2>3
<1>4. c \in Seq(Part) /\ Len(c) \in Nat
  BY ReadsUnfold, LenProperties
<1>. QED BY <1>3, <1>4

-----------------------------------------------------------------------------
(***************************************************************************)
(* The calls of merge_from                                                 *)
(***************************************************************************)
WayOf(frame) == IF frame.entry THEN "entry" ELSE "message"

\* The message of a call when the call inside it has returned, where n has what the
\* messages of the calls are in the end; and where it reads then.
Now(stk, i, n) ==
    IF i = Len(stk) THEN stk[i].message ELSE Stored(stk[i].message, stk[i + 1].into, n[i + 1])

From(stk, i, p) == IF i = Len(stk) THEN p ELSE stk[i + 1].end + 1

Leads(K, str, stk, p, n) ==
    \A i \in 1 .. Len(stk) :
        ReadsTo(K, SubSeq(str, From(stk, i, p), stk[i].end), WayOf(stk[i]), Now(stk, i, n), n[i])

\* Each call is inside the one before.
IsFrame(frame) ==
    /\ frame = Frame(frame.message, frame.into, frame.entry, frame.end)
    /\ frame.entry \in BOOLEAN /\ frame.end \in Nat

Shape(str, stk, p) ==
    /\ str \in Seq(Part) /\ p \in 1 .. Len(str) + 1
    /\ (\E S : stk \in Seq(S)) /\ Len(stk) > 0
    /\ \A i \in 1 .. Len(stk) : IsFrame(stk[i]) /\ stk[i].end <= Len(str)
    /\ \A i \in 1 .. Len(stk) - 1 : stk[i + 1].end <= stk[i].end
    /\ stk[1].end = Len(str) /\ ~stk[1].entry /\ stk[1].message.type = type
    /\ p <= stk[Len(stk)].end + 1

\* It is for a field of the message of that.
Link(outer, frame) ==
    LET field == ours[outer.message.type][frame.into] IN
    /\ outer.message.type \in DOMAIN ours
    /\ frame.into \in DOMAIN ours[outer.message.type]
    /\ field.kind \in Deep /\ frame.entry = (field.kind = "map")
    /\ frame.message.type = field.type
    /\ ~outer.entry => Fair(outer.message.type, frame.into)
    /\ frame.entry => "value" \in DOMAIN ours[field.type]

\* No field of m is one of another type.
Clean(m) == \A f \in DOMAIN m.fields : Fair(m.type, f)

FrameOK(frame) ==
    LET m == frame.message IN
    /\ IsMsg(m, m.type)
    /\ DOMAIN m.fields \subseteq DOMAIN ours[m.type]
    /\ frame.entry => (ours[m.type].value.kind = "message" =>
                          "value" \in DOMAIN m.fields /\ Clean(m.fields.value))
    /\ ~frame.entry => Kept(m) /\ Clean(m) /\ \A y \in Parts(1, m) : Clean(y)

Calls(str, stk, p) ==
    /\ Shape(str, stk, p)
    /\ \A i \in 1 .. Len(stk) - 1 : Link(stk[i], stk[i + 1])
    /\ \A i \in 1 .. Len(stk) : FrameOK(stk[i])

-----------------------------------------------------------------------------
\* A piece without parts.
LEMMA SubNone ==
    ASSUME NEW S, NEW s \in Seq(S), NEW p \in Nat, NEW e \in Nat, p = e + 1
    PROVE  SubSeq(s, p, e) = << >>
  BY SubSeqProperties, EmptySeq

\* A piece, from p to e, begins with parts after a tag.
Begins(S, s, p, e, tag, parts, rest) ==
    /\ s \in Seq(S) /\ p \in Nat \ {0} /\ e \in Nat /\ p <= e + 1 /\ e <= Len(s)
    /\ tag \in S /\ parts \in Seq(S) /\ rest \in Seq(S)
    /\ SubSeq(s, p, e) = (<<tag>> \o parts) \o rest

Splits(s, p, e, j, tag, parts, rest) ==
    /\ tag = s[p] /\ p + j <= e
    /\ parts = SubSeq(s, p + 1, p + j)
    /\ rest = SubSeq(s, p + 1 + j, e)
    /\ <<tag>> \o parts = SubSeq(s, p, p + j)

\* The first item of a piece.
LEMMA FirstItem ==
    ASSUME NEW S, NEW s, NEW p, NEW e, NEW tag, NEW parts, NEW rest,
           Begins(S, s, p, e, tag, parts, rest)
    PROVE  Splits(s, p, e, Len(parts), tag, parts, rest)
<1>0. /\ s \in Seq(S) /\ p \in Nat \ {0} /\ e \in Nat /\ p <= e + 1 /\ e <= Len(s)
      /\ tag \in S /\ parts \in Seq(S) /\ rest \in Seq(S)
      /\ SubSeq(s, p, e) = (<<tag>> \o parts) \o rest
  BY DEF Begins
<1>. DEFINE piece == SubSeq(s, p, e)
            j == Len(parts)
            k == Len(rest)
<1>1. /\ Len(s) \in Nat /\ j \in Nat /\ k \in Nat
  BY <1>0, LenProperties
<1>2. /\ Len(piece) = (e + 1) - p
      /\ \A i \in 1 .. (e + 1) - p : piece[i] = s[p + i - 1]
  <2>1. CASE p = e + 1
    <3>1. piece = << >>
      BY <1>0, <2>1, SubNone
    <3>. HIDE DEF piece
    <3>. QED BY <2>1, <3>1, EmptySeq
  <2>2. CASE p <= e
    <3>. DEFINE w == (e + 1) - p
    <3>1. w \in Nat /\ e - p + 1 = w
      BY <1>0, <2>2
    <3>2. piece = [i \in 1 .. w |-> s[p + i - 1]]
      BY <1>0, <1>1, <3>1
    <3>3. piece \in Seq(S)
      BY <1>0
    <3>. HIDE DEF piece, w
    <3>4. DOMAIN piece = 1 .. w /\ \A i \in 1 .. w : piece[i] = s[p + i - 1]
      BY <3>2
    <3>5. Len(piece) = w
      BY <3>1, <3>3, <3>4, LenProperties
    <3>. QED BY <3>4, <3>5 DEF w
  <2>3. p = e + 1 \/ p <= e
    BY <1>0
  <2>. HIDE DEF piece
  <2>. QED BY <2>1, <2>2, <2>3
<1>3. /\ Len(<<tag>> \o parts) = 1 + j /\ <<tag>> \o parts \in Seq(S)
      /\ (<<tag>> \o parts)[1] = tag
      /\ \A i \in 1 .. j : (<<tag>> \o parts)[1 + i] = parts[i]
  <2>1. <<tag>> \in Seq(S) /\ Len(<<tag>>) = 1 /\ <<tag>>[1] = tag
    BY <1>0
  <2>. QED BY <1>0, <1>1, <2>1, ConcatProperties
<1>. DEFINE item == <<tag>> \o parts
<1>. HIDE DEF item
<1>4. /\ Len(item \o rest) = 1 + j + k
      /\ \A i \in 1 .. 1 + j : (item \o rest)[i] = item[i]
      /\ \A i \in 1 .. k : (item \o rest)[1 + j + i] = rest[i]
  <2>1. item \in Seq(S) /\ Len(item) = 1 + j
    BY <1>0, <1>3 DEF item
  <2>2. /\ Len(item \o rest) = Len(item) + Len(rest)
        /\ \A i \in 1 .. Len(item) + Len(rest) :
              (item \o rest)[i] = IF i <= Len(item) THEN item[i] ELSE rest[i - Len(item)]
    BY <2>1, ConcatProperties
  <2>. HIDE DEF j, k
  <2>3. \A i \in 1 .. 1 + j : (item \o rest)[i] = item[i]
    BY <1>0, <1>1, <2>1, <2>2 DEF k
  <2>4. \A i \in 1 .. k : (item \o rest)[1 + j + i] = rest[i]
    <3>. SUFFICES ASSUME NEW i \in 1 .. k PROVE (item \o rest)[1 + j + i] = rest[i]
      OBVIOUS
    <3>1. 1 + j + i \in 1 .. Len(item) + k /\ ~(1 + j + i <= Len(item)) /\ (1 + j + i) - Len(item) = i
      BY <1>0, <1>1, <2>1
    <3>. QED BY <2>2, <3>1 DEF k
  <2>. QED BY <2>1, <2>2, <2>3, <2>4 DEF k
<1>5. piece = item \o rest
  BY <1>0 DEF item
<1>. HIDE DEF piece
<1>6. (e + 1) - p = 1 + j + k
  BY <1>0, <1>2, <1>4, <1>5
<1>7. p + j <= e /\ e = p + j + k
  <2>. HIDE DEF j, k
  <2>. QED BY <1>0, <1>1, <1>6
<1>8. tag = s[p]
  <2>1. piece[1] = s[p + 1 - 1] /\ piece[1] = item[1]
    BY <1>0, <1>1, <1>2, <1>4, <1>5, <1>6
  <2>. QED BY <1>0, <1>3, <2>1 DEF item
<1>9. \A i \in 1 .. j : parts[i] = s[p + i]
  <2>. SUFFICES ASSUME NEW i \in 1 .. j PROVE parts[i] = s[p + i]
    OBVIOUS
  <2>1. 1 + i \in 1 .. 1 + j /\ 1 + i \in 1 .. (e + 1) - p
    BY <1>0, <1>1, <1>6
  <2>2. piece[1 + i] = s[p + (1 + i) - 1] /\ piece[1 + i] = item[1 + i]
    BY <1>2, <1>4, <1>5, <2>1
  <2>3. p + (1 + i) - 1 = p + i
    BY <1>0
  <2>. QED BY <1>3, <2>2, <2>3 DEF item
<1>10. \A i \in 1 .. k : rest[i] = s[p + j + i]
  <2>. SUFFICES ASSUME NEW i \in 1 .. k PROVE rest[i] = s[p + j + i]
    OBVIOUS
  <2>1. 1 + j + i \in 1 .. (e + 1) - p
    BY <1>0, <1>1, <1>6
  <2>2. piece[1 + j + i] = s[p + (1 + j + i) - 1] /\ piece[1 + j + i] = rest[i]
    BY <1>2, <1>4, <1>5, <2>1
  <2>3. p + (1 + j + i) - 1 = p + j + i
    BY <1>0, <1>1
  <2>. QED BY <2>2, <2>3
<1>11. parts = SubSeq(s, p + 1, p + j)
  <2>. DEFINE q == SubSeq(s, p + 1, p + j)
  <2>1. q = [i \in 1 .. j |-> s[p + i]]
    <3>1. (p + j) - (p + 1) + 1 = j /\ \A i \in 1 .. j : (p + 1) + i - 1 = p + i
      BY <1>0, <1>1
    <3>. QED BY <1>0, <1>1, <3>1
  <2>2. parts = [i \in 1 .. j |-> parts[i]]
    BY <1>0, <1>1
  <2>. HIDE DEF q
  <2>3. [i \in 1 .. j |-> s[p + i]] = [i \in 1 .. j |-> parts[i]]
    BY <1>9
  <2>. QED BY <2>1, <2>2, <2>3 DEF q
<1>12. rest = SubSeq(s, p + 1 + j, e)
  <2>. DEFINE q == SubSeq(s, p + 1 + j, e)
  <2>1. q = [i \in 1 .. k |-> s[p + j + i]]
    <3>1. e - (p + 1 + j) + 1 = k /\ \A i \in 1 .. k : (p + 1 + j) + i - 1 = p + j + i
      BY <1>0, <1>1, <1>7
    <3>. QED BY <1>0, <1>1, <3>1
  <2>2. rest = [i \in 1 .. k |-> rest[i]]
    BY <1>0, <1>1
  <2>. HIDE DEF q
  <2>3. [i \in 1 .. k |-> s[p + j + i]] = [i \in 1 .. k |-> rest[i]]
    BY <1>0, <1>10
  <2>. QED BY <2>1, <2>2, <2>3 DEF q
<1>13. item = SubSeq(s, p, p + j)
  <2>. DEFINE q == SubSeq(s, p, p + j)
  <2>1. q = [i \in 1 .. 1 + j |-> s[p + i - 1]]
    <3>1. (p + j) - p + 1 = 1 + j
      BY <1>0, <1>1
    <3>. QED BY <1>0, <1>1, <3>1
  <2>2. item = [i \in 1 .. 1 + j |-> item[i]]
    BY <1>0, <1>1, <1>3 DEF item
  <2>. HIDE DEF q
  <2>3. \A i \in 1 .. 1 + j : item[i] = s[p + i - 1]
    <3>1. \A i \in 1 .. 1 + j : i \in 1 .. (e + 1) - p
      BY <1>1, <1>6
    <3>. HIDE DEF j, k
    <3>. QED BY <1>2, <1>4, <1>5, <3>1
  <2>4. [i \in 1 .. 1 + j |-> s[p + i - 1]] = [i \in 1 .. 1 + j |-> item[i]]
    BY <2>3
  <2>. QED BY <2>1, <2>2, <2>4 DEF q
<1>. QED BY <1>7, <1>8, <1>11, <1>12, <1>13 DEF item, Splits

\* The program that reads knows no field that is not there.
Has(K) == \A t \in DOMAIN ours : K[t] \subseteq DOMAIN ours[t]

\* A message with a field set.
LEMMA WithIs ==
    ASSUME NEW m, IsMsg(m, m.type), NEW f, NEW v
    PROVE  LET n == With(m, f, v) IN
           /\ n.type = m.type /\ IsMsg(n, n.type) /\ n.unknown = m.unknown
           /\ DOMAIN n.fields = DOMAIN m.fields \cup {f} /\ n.fields[f] = v
           /\ \A g \in DOMAIN m.fields : g # f => n.fields[g] = m.fields[g]
<1>1. m = Msg(m.type, m.fields, m.unknown)
  BY DEF IsMsg
<1>. DEFINE n == With(m, f, v)
<1>2. n = Msg(m.type, Assign(m.fields, f, v), m.unknown)
  BY <1>1, MsgFields
<1>. HIDE DEF n
<1>3. n.type = m.type /\ n.fields = Assign(m.fields, f, v) /\ n.unknown = m.unknown
      /\ IsMsg(n, n.type)
  BY <1>2, MsgFields
<1>4. /\ DOMAIN n.fields = DOMAIN m.fields \cup {f} /\ n.fields[f] = v
      /\ \A g \in DOMAIN m.fields : g # f => n.fields[g] = m.fields[g]
  BY <1>3 DEF Assign
<1>. QED BY <1>3, <1>4 DEF n

\* A message with more that is unknown.
LEMMA KeepIs ==
    ASSUME NEW m, IsMsg(m, m.type), NEW k, NEW c
    PROVE  LET n == Keep(m, k, c) IN
           n.type = m.type /\ IsMsg(n, n.type) /\ n.fields = m.fields
<1>1. m = Msg(m.type, m.fields, m.unknown)
  BY DEF IsMsg
<1>. DEFINE n == Keep(m, k, c)
            V == Assign(m.unknown, k, (IF k \in DOMAIN m.unknown THEN m.unknown[k] ELSE << >>) \o c)
<1>2. n = Msg(m.type, m.fields, V)
  BY <1>1, MsgFields
<1>. HIDE DEF n, V
<1>3. n.type = m.type /\ n.fields = m.fields /\ IsMsg(n, n.type)
  BY <1>2, MsgFields
<1>. QED BY <1>3 DEF n

\* A field that gets a value adds the messages in it.
LEMMA PartsWith ==
    ASSUME NEW m, IsMsg(m, m.type), NEW f, NEW v, NEW y \in Parts(1, With(m, f, v))
    PROVE  y \in Parts(1, m) \/ y \in Nested(ours[m.type][f], v)
<1>. DEFINE n == With(m, f, v)
<1>1. /\ n.type = m.type
      /\ DOMAIN n.fields = DOMAIN m.fields \cup {f} /\ n.fields[f] = v
      /\ \A g \in DOMAIN m.fields : g # f => n.fields[g] = m.fields[g]
  BY WithIs
<1>. HIDE DEF n
<1>2. PICK g \in DOMAIN n.fields : y \in Nested(ours[n.type][g], n.fields[g])
  BY DEF Parts, FieldsOf, n
<1>3. CASE g = f
  BY <1>1, <1>2, <1>3
<1>4. CASE g # f
  <2>1. g \in DOMAIN m.fields /\ y \in Nested(ours[m.type][g], m.fields[g])
    BY <1>1, <1>2, <1>4
  <2>. QED BY <2>1 DEF Parts, FieldsOf
<1>. QED BY <1>3, <1>4

\* A call that reads on.
LEMMA FramePass ==
    ASSUME NEW K, Has(K), NEW tag, NEW parts, IsItem(tag, parts), NEW frame, IsFrame(frame),
           FrameOK(frame), NEW x, Passes(K, tag, parts, WayOf(frame), frame.message, x)
    PROVE  /\ FrameOK([frame EXCEPT !.message = x]) /\ IsFrame([frame EXCEPT !.message = x])
           /\ x.type = frame.message.type
<1>. DEFINE m == frame.message
            frame2 == [frame EXCEPT !.message = x]
<1>1. frame2 = Frame(x, frame.into, frame.entry, frame.end)
  BY DEF IsFrame, Frame
<1>. HIDE DEF frame2
<1>2. /\ frame2.message = x /\ frame2.into = frame.into /\ frame2.entry = frame.entry
      /\ frame2.end = frame.end
  BY <1>1 DEF Frame
<1>3. IsFrame(frame2)
  BY <1>1, <1>2 DEF IsFrame
<1>4. /\ IsMsg(m, m.type) /\ DOMAIN m.fields \subseteq DOMAIN ours[m.type]
      /\ frame.entry => (ours[m.type].value.kind = "message" =>
                            "value" \in DOMAIN m.fields /\ Clean(m.fields.value))
      /\ ~frame.entry => Kept(m) /\ Clean(m) /\ \A y \in Parts(1, m) : Clean(y)
  BY DEF FrameOK
<1>5. m.type \in DOMAIN ours /\ frame.entry \in BOOLEAN
  BY DEF Passes, IsFrame
<1>6. ~frame.entry => Kept(x)
  BY <1>4, PassGrows DEF WayOf
<1>7. ASSUME x = m PROVE FrameOK(frame2) /\ x.type = m.type
  <2>. QED BY <1>2, <1>4, <1>7 DEF FrameOK
<1>8. ASSUME ~frame.entry, x = Keep(m, tag.num, Item(tag, parts))
      PROVE  FrameOK(frame2) /\ x.type = m.type
  <2>1. x.type = m.type /\ IsMsg(x, x.type) /\ x.fields = m.fields
    BY <1>4, <1>8, KeepIs
  <2>2. Parts(1, x) = Parts(1, m)
    BY <2>1 DEF Parts
  <2>3. Clean(x)
    BY <1>4, <1>8, <2>1 DEF Clean
  <2>. QED BY <1>2, <1>4, <1>6, <1>8, <2>1, <2>2, <2>3 DEF FrameOK
<1>9. ASSUME NEW f, Hit(K, m.type, tag) = {f}, ~frame.entry => Fair(m.type, f),
             ours[m.type][f].kind \in Flat, NEW v, x = With(m, f, v)
      PROVE  FrameOK(frame2) /\ x.type = m.type
  <2>1. /\ x.type = m.type /\ IsMsg(x, x.type)
        /\ DOMAIN x.fields = DOMAIN m.fields \cup {f}
        /\ \A g \in DOMAIN m.fields : g # f => x.fields[g] = m.fields[g]
    BY <1>4, <1>9, WithIs
  <2>2. f \in DOMAIN ours[m.type]
    BY <1>5, <1>9 DEF Has, Hit
  <2>3. DOMAIN x.fields \subseteq DOMAIN ours[x.type]
    BY <1>4, <2>1, <2>2
  <2>4. ASSUME frame.entry, ours[m.type].value.kind = "message"
        PROVE  "value" \in DOMAIN x.fields /\ Clean(x.fields.value)
    <3>1. f # "value"
      BY <1>9, <2>4 DEF Flat
    <3>2. "value" \in DOMAIN m.fields /\ Clean(m.fields.value)
      BY <1>4, <2>4
    <3>. QED BY <2>1, <3>1, <3>2
  <2>5. ASSUME ~frame.entry PROVE Clean(x) /\ \A y \in Parts(1, x) : Clean(y)
    <3>1. Nested(ours[m.type][f], v) = {}
      BY <1>9 DEF Nested, Flat
    <3>2. \A y \in Parts(1, x) : y \in Parts(1, m)
      BY <1>4, <1>9, <3>1, PartsWith
    <3>3. \A g \in DOMAIN x.fields : Fair(x.type, g)
      BY <1>4, <1>9, <2>1, <2>5 DEF Clean
    <3>. QED BY <1>4, <2>5, <3>2, <3>3 DEF Clean
  <2>. QED BY <1>2, <1>6, <2>1, <2>3, <2>4, <2>5 DEF FrameOK
<1>10. \/ x = m
       \/ ~frame.entry /\ x = Keep(m, tag.num, Item(tag, parts))
       \/ \E f, v : /\ Hit(K, m.type, tag) = {f} /\ (~frame.entry => Fair(m.type, f))
                    /\ ours[m.type][f].kind \in Flat /\ x = With(m, f, v)
  <2>1. CASE Hit(K, m.type, tag) = {} /\ x = IF WayOf(frame) = "entry" THEN m ELSE Keep(m, tag.num, Item(tag, parts))
    BY <1>5, <2>1 DEF WayOf
  <2>2. ASSUME NEW f, Hit(K, m.type, tag) = {f}, WayOf(frame) = "message" => Fair(m.type, f),
               ours[m.type][f].kind \in Flat, NEW v, x = With(m, f, v)
        PROVE  ~frame.entry => Fair(m.type, f)
    BY <2>2 DEF WayOf
  <2>. QED BY <2>1, <2>2 DEF Passes
<1>. QED BY <1>3, <1>7, <1>8, <1>9, <1>10 DEF frame2

\* A call that begins.
LEMMA FrameStart ==
    ASSUME NEW field, field.kind \in Deep, field.kind = "map" => "value" \in DOMAIN ours[field.type],
           NEW f, NEW end \in Nat
    PROVE  LET frame == Frame(Start(field), f, field.kind = "map", end) IN
           /\ IsFrame(frame) /\ FrameOK(frame) /\ Start(field).type = field.type
           /\ WayOf(frame) = Way(field)
<1>. DEFINE frame == Frame(Start(field), f, field.kind = "map", end)
            m == Start(field)
            t == field.type
<1>1. /\ frame.message = m /\ frame.into = f /\ frame.entry = (field.kind = "map") /\ frame.end = end
      /\ IsFrame(frame)
  BY DEF Frame, IsFrame
<1>2. WayOf(frame) = Way(field)
  BY <1>1 DEF WayOf, Way
<1>. HIDE DEF frame
<1>3. CASE field.kind = "map"
  <2>. DEFINE F == [g \in DOMAIN ours[t] |-> IF ours[t][g].kind = "message"
                                             THEN default_instance(ours[t][g].type) ELSE Zero]
  <2>1. m = Msg(t, F, << >>)
    BY <1>3 DEF Start, NewEntry, Msg, Nothing
  <2>. HIDE DEF m
  <2>2. m.type = t /\ m.fields = F /\ IsMsg(m, t)
    BY <2>1, MsgFields
  <2>3. DOMAIN m.fields \subseteq DOMAIN ours[t]
    BY <2>2
  <2>4. ASSUME ours[t].value.kind = "message" PROVE "value" \in DOMAIN m.fields /\ Clean(m.fields.value)
    <3>1. "value" \in DOMAIN ours[t] /\ m.fields.value = default_instance(ours[t].value.type)
      BY <1>3, <2>2, <2>4
    <3>2. DOMAIN m.fields.value.fields = {}
      BY <3>1, EmptySeq DEF default_instance, Nothing
    <3>. QED BY <2>2, <3>1, <3>2 DEF Clean
  <2>. QED BY <1>1, <1>2, <1>3, <2>2, <2>3, <2>4 DEF FrameOK, frame, m
<1>4. CASE field.kind # "map"
  <2>1. m = Msg(t, << >>, << >>)
    BY <1>4 DEF Start, default_instance, Msg, Nothing
  <2>. HIDE DEF m
  <2>2. m.type = t /\ m.fields = << >> /\ m.unknown = << >> /\ IsMsg(m, t)
    BY <2>1, MsgFields
  <2>3. DOMAIN m.fields = {} /\ DOMAIN m.unknown = {}
    BY <2>2, EmptySeq
  <2>4. Kept(m)
    BY <2>2, <2>3, FS_EmptySet DEF Kept
  <2>5. Clean(m) /\ Parts(1, m) = {}
    BY <2>3 DEF Clean, Parts
  <2>. QED BY <1>1, <1>2, <1>4, <2>2, <2>3, <2>4, <2>5 DEF FrameOK, frame, m
<1>. QED BY <1>3, <1>4

\* The messages in a field that was stored are those that were there and the new one.
LEMMA StoreNested ==
    ASSUME NEW m, Kept(m), NEW f, ours[m.type][f].kind \in Deep, NEW x,
           NEW y \in Nested(ours[m.type][f], Store(Old(m, f), ours[m.type][f], x))
    PROVE  \/ y \in Parts(1, m)
           \/ ours[m.type][f].kind # "map" /\ y = x
           \/ ours[m.type][f].kind = "map" /\ ours[ours[m.type][f].type].value.kind = "message"
              /\ y = x.fields.value
<1>. DEFINE field == ours[m.type][f]
            old == Old(m, f)
<1>0. f \in DOMAIN m.fields => Nested(field, m.fields[f]) \subseteq Parts(1, m)
  BY DEF Parts, FieldsOf
<1>1. CASE field.kind = "message"
  <2>1. Nested(field, Store(old, field, x)) = {x}
    BY <1>1 DEF Nested, Store
  <2>. QED BY <1>1, <2>1
<1>2. CASE field.kind = "messages"
  <2>1. PICK S : old \in Seq(S)
    BY <1>2, OldList DEF Lists
  <2>2. Nested(field, Store(old, field, x)) = ToSet(Append(old, x))
    BY <1>2 DEF Nested, Store
  <2>3. PICK i \in DOMAIN Append(old, x) : y = Append(old, x)[i]
    BY <2>2 DEF ToSet
  <2>. HIDE DEF old
  <2>4. /\ Len(old) \in Nat /\ DOMAIN Append(old, x) = 1 .. Len(old) + 1
        /\ Append(old, x)[Len(old) + 1] = x /\ DOMAIN old = 1 .. Len(old)
        /\ \A k \in 1 .. Len(old) : Append(old, x)[k] = old[k]
    <3>1. old \in Seq(S \cup {x}) /\ x \in S \cup {x}
      BY <2>1
    <3>. QED BY <3>1, AppendProperties, LenProperties
  <2>5. y = x \/ \E k \in DOMAIN old : y = old[k]
    BY <2>3, <2>4
  <2>6. ASSUME NEW k \in DOMAIN old, y = old[k] PROVE y \in Parts(1, m)
    <3>1. f \in DOMAIN m.fields
      BY <2>6, EmptySeq DEF old, Old, Nothing
    <3>2. old = m.fields[f]
      BY <3>1 DEF old, Old
    <3>3. y \in Nested(field, m.fields[f])
      BY <1>2, <2>6, <3>2 DEF Nested, ToSet
    <3>. QED BY <1>0, <3>1, <3>3
  <2>. QED BY <1>2, <2>5, <2>6
<1>3. CASE field.kind = "map"
  <2>. DEFINE new == Assign(old, x.fields.key, x.fields.value)
  <2>1. Store(old, field, x) = new
    BY <1>3 DEF Store
  <2>2. ours[field.type].value.kind = "message"
    BY <1>3 DEF Nested
  <2>3. PICK k \in DOMAIN new : y = new[k]
    BY <1>3, <2>1, <2>2 DEF Nested
  <2>4. y = x.fields.value \/ (k \in DOMAIN old /\ y = old[k])
    BY <2>3 DEF Assign
  <2>5. ASSUME k \in DOMAIN old, y = old[k] PROVE y \in Parts(1, m)
    <3>1. f \in DOMAIN m.fields
      BY <2>5, EmptySeq DEF Old, Nothing
    <3>2. old = m.fields[f]
      BY <3>1 DEF Old
    <3>. HIDE DEF old
    <3>3. y \in Nested(field, m.fields[f])
      BY <1>3, <2>2, <2>5, <3>2 DEF Nested
    <3>. QED BY <1>0, <3>1, <3>3
  <2>. QED BY <1>3, <2>2, <2>4, <2>5
<1>. QED BY <1>1, <1>2, <1>3 DEF Deep

\* A call that has returned, and what it has read is stored.
LEMMA FrameReturn ==
    ASSUME NEW outer, IsFrame(outer), FrameOK(outer), NEW frame, FrameOK(frame), Link(outer, frame)
    PROVE  LET x == Stored(outer.message, frame.into, frame.message) IN
           /\ FrameOK([outer EXCEPT !.message = x]) /\ IsFrame([outer EXCEPT !.message = x])
           /\ x.type = outer.message.type
<1>. DEFINE m == outer.message
            f == frame.into
            field == ours[m.type][f]
            v == Store(Old(m, f), field, frame.message)
            x == Stored(m, f, frame.message)
            outer2 == [outer EXCEPT !.message = x]
<1>1. outer2 = Frame(x, outer.into, outer.entry, outer.end)
  BY DEF IsFrame, Frame
<1>0. x = With(m, f, v)
  BY DEF Stored
<1>. HIDE DEF outer2, x, v
<1>2. /\ outer2.message = x /\ outer2.into = outer.into /\ outer2.entry = outer.entry
      /\ outer2.end = outer.end
  BY <1>1 DEF Frame
<1>3. IsFrame(outer2)
  BY <1>1, <1>2 DEF IsFrame
<1>4. /\ IsMsg(m, m.type) /\ DOMAIN m.fields \subseteq DOMAIN ours[m.type]
      /\ outer.entry => (ours[m.type].value.kind = "message" =>
                            "value" \in DOMAIN m.fields /\ Clean(m.fields.value))
      /\ ~outer.entry => Kept(m) /\ Clean(m) /\ \A y \in Parts(1, m) : Clean(y)
  BY DEF FrameOK
<1>5. /\ f \in DOMAIN ours[m.type] /\ field.kind \in Deep /\ frame.entry = (field.kind = "map")
      /\ frame.message.type = field.type /\ (~outer.entry => Fair(m.type, f))
  BY DEF Link
<1>6. /\ frame.entry => (ours[field.type].value.kind = "message" => Clean(frame.message.fields.value))
      /\ ~frame.entry => Clean(frame.message)
  BY <1>5 DEF FrameOK
<1>7. /\ x.type = m.type /\ IsMsg(x, x.type)
      /\ DOMAIN x.fields = DOMAIN m.fields \cup {f} /\ x.fields[f] = v
      /\ \A g \in DOMAIN m.fields : g # f => x.fields[g] = m.fields[g]
  BY <1>0, <1>4, WithIs
<1>8. DOMAIN x.fields \subseteq DOMAIN ours[x.type]
  BY <1>4, <1>5, <1>7
<1>9. ASSUME outer.entry, ours[m.type].value.kind = "message"
      PROVE  "value" \in DOMAIN x.fields /\ Clean(x.fields.value)
  <2>1. "value" \in DOMAIN m.fields /\ Clean(m.fields.value)
    BY <1>4, <1>9
  <2>2. CASE f = "value"
    <3>1. field.kind = "message"
      BY <1>9, <2>2
    <3>2. v = frame.message
      BY <3>1 DEF v, Store
    <3>. QED BY <1>5, <1>6, <1>7, <2>2, <3>1, <3>2
  <2>3. CASE f # "value"
    BY <1>7, <2>1, <2>3
  <2>. QED BY <2>2, <2>3
<1>10. ASSUME ~outer.entry PROVE Kept(x) /\ Clean(x) /\ \A y \in Parts(1, x) : Clean(y)
  <2>1. Kept(x)
    BY <1>4, <1>5, <1>10, StoredGrows DEF x
  <2>2. Clean(x)
    BY <1>4, <1>5, <1>7, <1>10 DEF Clean
  <2>3. ASSUME NEW y \in Parts(1, x) PROVE Clean(y)
    <3>1. y \in Parts(1, m) \/ y \in Nested(field, v)
      BY <1>0, <1>4, <2>3, PartsWith
    <3>2. CASE y \in Parts(1, m)
      BY <1>4, <1>10, <3>2
    <3>3. CASE y \in Nested(field, v)
      <4>1. \/ y \in Parts(1, m)
            \/ field.kind # "map" /\ y = frame.message
            \/ field.kind = "map" /\ ours[field.type].value.kind = "message"
               /\ y = frame.message.fields.value
        <5>1. Kept(m) /\ ours[m.type][f].kind \in Deep
          BY <1>4, <1>5, <1>10
        <5>2. y \in Nested(ours[m.type][f], Store(Old(m, f), ours[m.type][f], frame.message))
          BY <3>3 DEF v
        <5>. HIDE DEF m, f
        <5>. QED BY <5>1, <5>2, StoreNested
      <4>. QED BY <1>4, <1>5, <1>6, <1>10, <4>1
    <3>. QED BY <3>1, <3>2, <3>3
  <2>. QED BY <2>1, <2>2, <2>3
<1>11. FrameOK(outer2)
  BY <1>2, <1>7, <1>8, <1>9, <1>10 DEF FrameOK
<1>. QED BY <1>3, <1>7, <1>11 DEF outer2, x

-----------------------------------------------------------------------------
\* The item at p, and what is left then.
NextItem(str, p, end, tag, parts, rest) ==
    /\ IsItem(tag, parts) /\ rest \in Seq(Part) /\ tag = str[p]
    /\ Extent(tag) = 1 + Len(parts) /\ Len(parts) \in Nat
    /\ p + Extent(tag) <= end + 1
    /\ parts = SubSeq(str, p + 1, p + Extent(tag) - 1)
    /\ rest = SubSeq(str, p + Extent(tag), end)
    /\ Item(tag, parts) = SubSeq(str, p, p + Extent(tag) - 1)

PassesNext(K, str, stk, p, n, tag, parts, rest, x) ==
    LET top == stk[Len(stk)] IN
    /\ NextItem(str, p, top.end, tag, parts, rest)
    /\ Passes(K, tag, parts, WayOf(top), top.message, x)
    /\ ReadsTo(K, rest, WayOf(top), x, n[Len(stk)])

EntersNext(K, str, stk, p, n, tag, parts, rest, f, x) ==
    LET top == stk[Len(stk)]
        m == top.message IN
    /\ NextItem(str, p, top.end, tag, parts, rest)
    /\ Enters(K, tag, WayOf(top), m, f)
    /\ ReadsTo(K, parts, Way(ours[m.type][f]), Start(ours[m.type][f]), x)
    /\ ReadsTo(K, rest, WayOf(top), Stored(m, f, x), n[Len(stk)])

\* The innermost call is inside the stream.
LEMMA ShapeTop ==
    ASSUME NEW str, NEW stk, NEW p, Shape(str, stk, p)
    PROVE  /\ Len(stk) \in Nat \ {0} /\ DOMAIN stk = 1 .. Len(stk) /\ Len(stk) \in 1 .. Len(stk)
           /\ \A i \in 1 .. Len(stk) : stk[i].end \in Nat /\ stk[i].end <= Len(str)
           /\ p \in Nat \ {0} /\ Len(str) \in Nat /\ p <= stk[Len(stk)].end + 1
<1>1. PICK S : stk \in Seq(S)
  BY DEF Shape
<1>2. Len(stk) \in Nat /\ DOMAIN stk = 1 .. Len(stk) /\ Len(str) \in Nat
  BY <1>1, LenProperties DEF Shape
<1>3. Len(stk) > 0 /\ p \in 1 .. Len(str) + 1 /\ p <= stk[Len(stk)].end + 1
  BY DEF Shape
<1>4. \A i \in 1 .. Len(stk) : stk[i].end \in Nat /\ stk[i].end <= Len(str)
  BY DEF Shape, IsFrame
<1>. QED BY <1>2, <1>3, <1>4

\* What is to be read begins with an item.
LEMMA TopReads ==
    ASSUME NEW K, NEW str, NEW stk, NEW p, NEW n, Shape(str, stk, p), Leads(K, str, stk, p, n),
           p <= stk[Len(stk)].end
    PROVE  \E tag, parts, rest :
              \/ \E x : PassesNext(K, str, stk, p, n, tag, parts, rest, x)
              \/ \E f, x : EntersNext(K, str, stk, p, n, tag, parts, rest, f, x)
<1>. DEFINE L == Len(stk)
            top == stk[L]
            e == top.end
            piece == SubSeq(str, p, e)
<1>1. L \in Nat \ {0} /\ L \in 1 .. L /\ e \in Nat /\ e <= Len(str) /\ p \in Nat \ {0} /\ Len(str) \in Nat
      /\ str \in Seq(Part)
  BY ShapeTop DEF Shape
<1>2. ReadsTo(K, piece, WayOf(top), top.message, n[L])
  <2>1. ReadsTo(K, SubSeq(str, From(stk, L, p), stk[L].end), WayOf(stk[L]), Now(stk, L, n), n[L])
    BY <1>1 DEF Leads
  <2>. QED BY <2>1 DEF From, Now
<1>3. piece # << >>
  <2>1. p \in 1 .. Len(str) /\ e \in p - 1 .. Len(str)
    BY <1>1
  <2>2. Len(piece) = e - p + 1
    BY <1>1, <2>1, SubSeqProperties
  <2>. HIDE DEF piece
  <2>3. Len(piece) # 0
    BY <1>1, <2>2
  <2>. QED BY <2>3, EmptySeq
<1>. HIDE DEF piece
<1>4. PICK tag, parts, rest :
         /\ IsItem(tag, parts) /\ rest \in Seq(Part)
         /\ piece = Item(tag, parts) \o rest
         /\ \/ \E x : /\ Passes(K, tag, parts, WayOf(top), top.message, x)
                      /\ ReadsTo(K, rest, WayOf(top), x, n[L])
            \/ \E f, x :
                 /\ Enters(K, tag, WayOf(top), top.message, f)
                 /\ ReadsTo(K, parts, Way(ours[top.message.type][f]), Start(ours[top.message.type][f]), x)
                 /\ ReadsTo(K, rest, WayOf(top), Stored(top.message, f, x), n[L])
  <2>. HIDE DEF top, L
  <2>. QED BY <1>2, <1>3, ReadsUnfold
<1>5. NextItem(str, p, e, tag, parts, rest)
  <2>1. tag \in Part /\ parts \in Seq(Part) /\ Len(parts) = Extent(tag) - 1 /\ Len(parts) \in Nat
    BY <1>4, LenProperties DEF IsItem
  <2>2. Extent(tag) = 1 + Len(parts)
    <3>1. Extent(tag) \in Int
      BY <1>4 DEF IsItem, Extent, Part
    <3>. QED BY <2>1, <3>1
  <2>3. SubSeq(str, p, e) = (<<tag>> \o parts) \o rest
    BY <1>4 DEF piece, Item
  <2>4. p <= e + 1
    BY <1>1
  <2>. DEFINE j == Len(parts)
  <2>. HIDE DEF e, L, top, Part
  <2>5. /\ tag = str[p] /\ p + j <= e
        /\ parts = SubSeq(str, p + 1, p + j)
        /\ rest = SubSeq(str, p + 1 + j, e)
        /\ <<tag>> \o parts = SubSeq(str, p, p + j)
    <3>1. str \in Seq(Part) /\ p \in Nat \ {0} /\ e \in Nat /\ e <= Len(str)
      BY <1>1
    <3>2. tag \in Part /\ parts \in Seq(Part) /\ rest \in Seq(Part)
      BY <1>4, <2>1
    <3>3. Begins(Part, str, p, e, tag, parts, rest)
      BY <2>3, <2>4, <3>1, <3>2 DEF Begins
    <3>4. Splits(str, p, e, Len(parts), tag, parts, rest)
      BY <3>3, FirstItem
    <3>. QED BY <3>4 DEF Splits
  <2>. HIDE DEF j
  <2>6. j \in Nat /\ p + Extent(tag) - 1 = p + j /\ p + Extent(tag) = p + 1 + j
    BY <1>1, <2>1, <2>2 DEF j
  <2>7. p + Extent(tag) <= e + 1
    BY <1>1, <2>5, <2>6
  <2>. QED BY <1>4, <2>1, <2>2, <2>5, <2>6, <2>7 DEF NextItem, Item, j
<1>6. CASE \E x : /\ Passes(K, tag, parts, WayOf(top), top.message, x)
                  /\ ReadsTo(K, rest, WayOf(top), x, n[L])
  BY <1>5, <1>6 DEF PassesNext
<1>7. CASE \E f, x :
                 /\ Enters(K, tag, WayOf(top), top.message, f)
                 /\ ReadsTo(K, parts, Way(ours[top.message.type][f]), Start(ours[top.message.type][f]), x)
                 /\ ReadsTo(K, rest, WayOf(top), Stored(top.message, f, x), n[L])
  BY <1>5, <1>7 DEF EntersNext
<1>. QED BY <1>4, <1>6, <1>7

\* The call that reads has read an item.
Passed(stk, x) == [stk EXCEPT ![Len(stk)].message = x]

\* After an item without a message in it the calls lead where they led.
LEMMA PassStep ==
    ASSUME NEW K, Has(K), NEW str, NEW stk, NEW p, NEW n, Calls(str, stk, p), Leads(K, str, stk, p, n),
           NEW tag, NEW parts, NEW rest, NEW x, PassesNext(K, str, stk, p, n, tag, parts, rest, x)
    PROVE  /\ Calls(str, Passed(stk, x), p + Extent(tag))
           /\ Leads(K, str, Passed(stk, x), p + Extent(tag), n)
<1>. DEFINE L == Len(stk)
            top == stk[L]
            top2 == [top EXCEPT !.message = x]
            stk2 == Passed(stk, x)
            p2 == p + Extent(tag)
<1>1. /\ L \in Nat \ {0} /\ DOMAIN stk = 1 .. L /\ L \in 1 .. L
      /\ top.end \in Nat /\ top.end <= Len(str) /\ p \in Nat \ {0} /\ Len(str) \in Nat
  BY ShapeTop DEF Calls
<1>2. PICK S : stk \in Seq(S)
  BY DEF Calls, Shape
<1>3. stk2 = [i \in 1 .. L |-> IF i = L THEN top2 ELSE stk[i]]
  <2>1. stk = [i \in 1 .. L |-> stk[i]]
    BY <1>1, <1>2
  <2>. QED BY <1>1, <2>1 DEF Passed
<1>. HIDE DEF stk2
<1>4. /\ stk2 \in Seq(S \cup {top2}) /\ Len(stk2) = L
      /\ stk2[L] = top2 /\ \A i \in 1 .. L : i # L => stk2[i] = stk[i]
  <2>1. \A i \in 1 .. L : stk[i] \in S
    BY <1>1, <1>2
  <2>. HIDE DEF L, top2
  <2>. QED BY <1>1, <1>3, <2>1
<1>5. /\ IsFrame(top) /\ FrameOK(top)
  BY <1>1 DEF Calls, Shape
<1>6. /\ NextItem(str, p, top.end, tag, parts, rest) /\ IsItem(tag, parts)
      /\ Passes(K, tag, parts, WayOf(top), top.message, x)
      /\ ReadsTo(K, rest, WayOf(top), x, n[L])
  BY DEF PassesNext, NextItem
<1>7. FrameOK(top2) /\ IsFrame(top2) /\ x.type = top.message.type
  BY <1>5, <1>6, FramePass
<1>8. /\ top2.message = x /\ top2.into = top.into /\ top2.entry = top.entry /\ top2.end = top.end
  BY <1>5 DEF IsFrame, Frame
<1>9. /\ p2 \in Nat \ {0} /\ p2 <= top.end + 1 /\ rest = SubSeq(str, p2, top.end)
  <2>1. /\ Extent(tag) = 1 + Len(parts) /\ Len(parts) \in Nat /\ p + Extent(tag) <= top.end + 1
        /\ rest = SubSeq(str, p + Extent(tag), top.end)
    BY <1>6 DEF NextItem
  <2>. HIDE DEF top, L
  <2>. QED BY <1>1, <2>1
<1>. HIDE DEF top2, p2
<1>10. \A i \in 1 .. L :
          /\ IsFrame(stk2[i]) /\ FrameOK(stk2[i]) /\ stk2[i].end = stk[i].end /\ stk2[i].into = stk[i].into
          /\ stk2[i].entry = stk[i].entry /\ stk2[i].message.type = stk[i].message.type
  BY <1>4, <1>5, <1>7, <1>8 DEF Calls, Shape
<1>11. Shape(str, stk2, p2)
  <2>1. 1 \in 1 .. L /\ \A i \in 1 .. L - 1 : i \in 1 .. L /\ i + 1 \in 1 .. L
    BY <1>1
  <2>2. \A i \in 1 .. L - 1 : stk2[i + 1].end <= stk2[i].end
    BY <1>10, <2>1 DEF Calls, Shape
  <2>3. stk2[1].end = Len(str) /\ ~stk2[1].entry /\ stk2[1].message.type = type
    BY <1>10, <2>1 DEF Calls, Shape
  <2>4. \A i \in 1 .. L : stk2[i].end <= Len(str)
    BY <1>10 DEF Calls, Shape
  <2>5. p2 \in 1 .. Len(str) + 1 /\ p2 <= stk2[L].end + 1
    <3>1. stk2[L].end = top.end
      BY <1>4, <1>8
    <3>. HIDE DEF top, L
    <3>. QED BY <1>1, <1>9, <3>1
  <2>6. str \in Seq(Part) /\ (\E T : stk2 \in Seq(T)) /\ Len(stk2) > 0
    BY <1>1, <1>4 DEF Calls, Shape
  <2>. QED BY <1>4, <1>10, <2>2, <2>3, <2>4, <2>5, <2>6 DEF Shape
<1>12. \A i \in 1 .. L - 1 : Link(stk2[i], stk2[i + 1])
  <2>. SUFFICES ASSUME NEW i \in 1 .. L - 1 PROVE Link(stk2[i], stk2[i + 1])
    OBVIOUS
  <2>1. i \in 1 .. L /\ i + 1 \in 1 .. L
    BY <1>1
  <2>2. Link(stk[i], stk[i + 1])
    BY DEF Calls
  <2>. QED BY <1>10, <2>1, <2>2 DEF Link
<1>13. Leads(K, str, stk2, p2, n)
  <2>. SUFFICES ASSUME NEW i \in 1 .. L
                PROVE  ReadsTo(K, SubSeq(str, From(stk2, i, p2), stk2[i].end), WayOf(stk2[i]), Now(stk2, i, n), n[i])
    BY <1>4 DEF Leads
  <2>1. CASE i = L
    <3>1. From(stk2, i, p2) = p2 /\ Now(stk2, i, n) = x
      BY <1>4, <1>8, <2>1 DEF From, Now
    <3>2. WayOf(stk2[i]) = WayOf(top) /\ stk2[i].end = top.end
      BY <1>10, <2>1 DEF WayOf
    <3>. QED BY <1>6, <1>9, <2>1, <3>1, <3>2
  <2>2. CASE i # L
    <3>1. i + 1 \in 1 .. L
      <4>. HIDE DEF L
      <4>. QED BY <1>1, <2>2
    <3>2. From(stk2, i, p2) = From(stk, i, p) /\ Now(stk2, i, n) = Now(stk, i, n)
      <4>1. stk2[i + 1].end = stk[i + 1].end /\ stk2[i + 1].into = stk[i + 1].into
            /\ stk2[i] = stk[i]
        BY <1>4, <1>10, <2>2, <3>1
      <4>. QED BY <1>4, <2>2, <4>1 DEF From, Now
    <3>3. WayOf(stk2[i]) = WayOf(stk[i]) /\ stk2[i].end = stk[i].end
      BY <1>10 DEF WayOf
    <3>4. ReadsTo(K, SubSeq(str, From(stk, i, p), stk[i].end), WayOf(stk[i]), Now(stk, i, n), n[i])
      BY DEF Leads
    <3>. QED BY <3>2, <3>3, <3>4
  <2>. QED BY <2>1, <2>2
<1>14. Calls(str, stk2, p2)
  BY <1>4, <1>10, <1>11, <1>12 DEF Calls
<1>. QED BY <1>13, <1>14 DEF stk2, p2

-----------------------------------------------------------------------------
\* A call is made for a field of the message that is read.
Entered(stk, f, end) ==
    LET field == ours[stk[Len(stk)].message.type][f]
    IN  Append(stk, Frame(Start(field), f, field.kind = "map", end))

More(n, L, x) == [i \in 1 .. L + 1 |-> IF i <= L THEN n[i] ELSE x]

Pushed(s2, s, x) ==
    /\ \E T : s2 \in Seq(T)
    /\ Len(s2) = Len(s) + 1 /\ s2[Len(s) + 1] = x
    /\ \A i \in 1 .. Len(s) : s2[i] = s[i]

\* A stack with a call more.
LEMMA AppendIs ==
    ASSUME NEW s, NEW S, s \in Seq(S), NEW x, NEW s2, s2 = Append(s, x)
    PROVE  Pushed(s2, s, x)
<1>. DEFINE T == S \cup {x}
<1>1. s \in Seq(T) /\ x \in T
  OBVIOUS
<1>. HIDE DEF T
<1>2. s2 \in Seq(T) /\ Len(s2) = Len(s) + 1 /\ s2[Len(s) + 1] = x
  BY <1>1, AppendProperties
<1>3. \A i \in 1 .. Len(s) : s2[i] = s[i]
  BY <1>1, AppendProperties
<1>. QED BY <1>2, <1>3 DEF Pushed

\* When a message begins, the calls lead where they led, and the new one to what its
\* length announces.
LEMMA EnterStep ==
    ASSUME NEW K, Has(K), NEW str, NEW stk, NEW p, NEW n, Calls(str, stk, p), Leads(K, str, stk, p, n),
           NEW tag, NEW parts, NEW rest, NEW f, NEW x,
           EntersNext(K, str, stk, p, n, tag, parts, rest, f, x)
    PROVE  /\ Calls(str, Entered(stk, f, p + Extent(tag) - 1), p + 1)
           /\ Leads(K, str, Entered(stk, f, p + Extent(tag) - 1), p + 1, More(n, Len(stk), x))
<1>. DEFINE L == Len(stk)
            top == stk[L]
            m == top.message
            field == ours[m.type][f]
            end == p + Extent(tag) - 1
            frame == Frame(Start(field), f, field.kind = "map", end)
            stk2 == Entered(stk, f, end)
            n2 == More(n, L, x)
<1>1. /\ L \in Nat \ {0} /\ DOMAIN stk = 1 .. L /\ L \in 1 .. L
      /\ top.end \in Nat /\ top.end <= Len(str) /\ p \in Nat \ {0} /\ Len(str) \in Nat
  BY ShapeTop DEF Calls
<1>2. PICK S : stk \in Seq(S)
  BY DEF Calls, Shape
<1>3. /\ NextItem(str, p, top.end, tag, parts, rest)
      /\ Enters(K, tag, WayOf(top), m, f)
      /\ ReadsTo(K, parts, Way(field), Start(field), x)
      /\ ReadsTo(K, rest, WayOf(top), Stored(m, f, x), n[L])
  BY DEF EntersNext
<1>4. stk2 = Append(stk, frame)
  BY DEF Entered
<1>5. /\ m.type \in DOMAIN ours /\ f \in DOMAIN ours[m.type] /\ field.kind \in Deep
      /\ field.kind = "map" => "value" \in DOMAIN ours[field.type]
      /\ WayOf(top) = "message" => Fair(m.type, f)
  BY <1>3 DEF Enters, Hit, Has
<1>6. /\ Extent(tag) = 1 + Len(parts) /\ Len(parts) \in Nat /\ p + Extent(tag) <= top.end + 1
      /\ parts = SubSeq(str, p + 1, end)
      /\ rest = SubSeq(str, p + Extent(tag), top.end)
  BY <1>3 DEF NextItem
<1>7. /\ end \in Nat /\ end <= top.end /\ end <= Len(str) /\ p + 1 <= end + 1 /\ p + Extent(tag) = end + 1
      /\ p + 1 \in 1 .. Len(str) + 1
  <2>. HIDE DEF top, L
  <2>. QED BY <1>1, <1>6
<1>. HIDE DEF end
<1>8. /\ IsFrame(frame) /\ FrameOK(frame) /\ Start(field).type = field.type
      /\ WayOf(frame) = Way(field)
  <2>. HIDE DEF field
  <2>. QED BY <1>5, <1>7, FrameStart
<1>9. /\ frame.message = Start(field) /\ frame.into = f /\ frame.entry = (field.kind = "map")
      /\ frame.end = end
  BY DEF Frame
<1>. HIDE DEF frame, stk2
<1>10. /\ \E T : stk2 \in Seq(T)
       /\ Len(stk2) = L + 1 /\ stk2[L + 1] = frame
       /\ \A i \in 1 .. L : stk2[i] = stk[i]
  <2>1. Pushed(stk2, stk, frame)
    BY <1>2, <1>4, AppendIs
  <2>. HIDE DEF top
  <2>. QED BY <2>1 DEF Pushed
<1>11. \A i \in 1 .. L : IsFrame(stk[i]) /\ FrameOK(stk[i]) /\ stk[i].end <= Len(str)
  BY DEF Calls, Shape
<1>12. top = stk2[L] /\ IsFrame(top)
  BY <1>1, <1>10, <1>11
<1>13. Link(top, frame)
  <2>1. ~top.entry => Fair(m.type, f)
    BY <1>5 DEF WayOf
  <2>. HIDE DEF top
  <2>. QED BY <1>5, <1>8, <1>9, <2>1 DEF Link
<1>. HIDE DEF L
<1>14. \A i \in 1 .. L + 1 : i \in 1 .. L \/ i = L + 1
  BY <1>1
<1>15. \A i \in 1 .. L : i \in 1 .. L - 1 \/ i = L
  BY <1>1
<1>16. \A i \in 1 .. L - 1 : i \in 1 .. L /\ i + 1 \in 1 .. L
  BY <1>1
<1>17. \A i \in 1 .. L + 1 : IsFrame(stk2[i]) /\ FrameOK(stk2[i]) /\ stk2[i].end <= Len(str)
  BY <1>7, <1>8, <1>9, <1>10, <1>11, <1>14
<1>18. \A i \in 1 .. L : Link(stk2[i], stk2[i + 1]) /\ stk2[i + 1].end <= stk2[i].end
  <2>. SUFFICES ASSUME NEW i \in 1 .. L PROVE Link(stk2[i], stk2[i + 1]) /\ stk2[i + 1].end <= stk2[i].end
    OBVIOUS
  <2>1. CASE i = L
    <3>1. stk2[i] = top /\ stk2[i + 1] = frame
      BY <1>10, <1>12, <2>1
    <3>. HIDE DEF top
    <3>. QED BY <1>7, <1>9, <1>13, <3>1
  <2>2. CASE i \in 1 .. L - 1
    <3>1. stk2[i] = stk[i] /\ stk2[i + 1] = stk[i + 1]
      BY <1>10, <1>16, <2>2
    <3>2. Link(stk[i], stk[i + 1]) /\ stk[i + 1].end <= stk[i].end
      BY <2>2 DEF Calls, Shape, L
    <3>. QED BY <3>1, <3>2
  <2>. QED BY <1>15, <2>1, <2>2
<1>19. Shape(str, stk2, p + 1)
  <2>1. stk2[1] = stk[1]
    BY <1>1, <1>10
  <2>2. stk2[1].end = Len(str) /\ ~stk2[1].entry /\ stk2[1].message.type = type /\ str \in Seq(Part)
    BY <2>1 DEF Calls, Shape
  <2>3. p + 1 <= stk2[L + 1].end + 1
    BY <1>7, <1>9, <1>10
  <2>4. (L + 1) - 1 = L /\ L + 1 > 0
    BY <1>1
  <2>. QED BY <1>7, <1>10, <1>17, <1>18, <2>2, <2>3, <2>4 DEF Shape
<1>20. Calls(str, stk2, p + 1)
  <2>1. (L + 1) - 1 = L
    BY <1>1
  <2>. QED BY <1>10, <1>17, <1>18, <1>19, <2>1 DEF Calls
<1>21. /\ \A i \in 1 .. L : n2[i] = n[i]
       /\ n2[L + 1] = x
  BY <1>1 DEF More
<1>. HIDE DEF n2
<1>22. Leads(K, str, stk2, p + 1, n2)
  <2>. SUFFICES ASSUME NEW i \in 1 .. L + 1
                PROVE  ReadsTo(K, SubSeq(str, From(stk2, i, p + 1), stk2[i].end), WayOf(stk2[i]),
                               Now(stk2, i, n2), n2[i])
    BY <1>10 DEF Leads
  <2>1. CASE i = L + 1
    <3>1. From(stk2, i, p + 1) = p + 1 /\ Now(stk2, i, n2) = Start(field)
      BY <1>9, <1>10, <2>1 DEF From, Now
    <3>2. stk2[i].end = end /\ WayOf(stk2[i]) = Way(field) /\ n2[i] = x
      BY <1>8, <1>9, <1>10, <1>21, <2>1
    <3>. QED BY <1>3, <1>6, <3>1, <3>2
  <2>2. CASE i = L
    <3>1. stk2[i] = top /\ stk2[i + 1] = frame /\ i # Len(stk2) /\ n2[i + 1] = x /\ n2[i] = n[L]
      BY <1>1, <1>10, <1>12, <1>21, <2>2
    <3>2. From(stk2, i, p + 1) = p + Extent(tag)
      BY <1>7, <1>9, <3>1 DEF From
    <3>3. Now(stk2, i, n2) = Stored(m, f, x)
      BY <1>9, <3>1 DEF Now
    <3>. QED BY <1>3, <1>6, <3>1, <3>2, <3>3
  <2>3. CASE i \in 1 .. L - 1
    <3>1. stk2[i] = stk[i] /\ stk2[i + 1] = stk[i + 1] /\ i # Len(stk2) /\ i # L
          /\ n2[i + 1] = n[i + 1] /\ n2[i] = n[i]
      BY <1>1, <1>10, <1>16, <1>21, <2>3
    <3>2. From(stk2, i, p + 1) = From(stk, i, p) /\ Now(stk2, i, n2) = Now(stk, i, n)
      BY <3>1 DEF From, Now, L
    <3>3. ReadsTo(K, SubSeq(str, From(stk, i, p), stk[i].end), WayOf(stk[i]), Now(stk, i, n), n[i])
      BY <1>16, <2>3 DEF Leads, L
    <3>. QED BY <3>1, <3>2, <3>3
  <2>. QED BY <1>14, <1>15, <2>1, <2>2, <2>3
<1>. QED BY <1>20, <1>22 DEF stk2, end, n2, L

-----------------------------------------------------------------------------
\* Of nothing, nothing is read.
LEMMA NothingReads ==
    ASSUME NEW K, NEW way, NEW m, NEW n, ReadsTo(K, << >>, way, m, n)
    PROVE  n = m
<1>1. ASSUME NEW tag, NEW parts, NEW rest, IsItem(tag, parts), rest \in Seq(Part),
             << >> = Item(tag, parts) \o rest
      PROVE  FALSE
  <2>1. Item(tag, parts) \in Seq(Part) /\ Item(tag, parts) # << >>
    BY <1>1, ItemType
  <2>. DEFINE c == Item(tag, parts)
  <2>. HIDE DEF c, Part
  <2>2. Len(c) > 0
    BY <2>1, EmptySeq, LenProperties DEF c
  <2>3. Len(c \o rest) = Len(c) + Len(rest) /\ Len(rest) \in Nat /\ Len(c) \in Nat
    BY <1>1, <2>1, ConcatProperties, LenProperties DEF c
  <2>4. Len(c \o rest) = 0
    BY <1>1, EmptySeq DEF c
  <2>. QED BY <2>2, <2>3, <2>4
<1>2. \/ m = n
      \/ \E tag, parts, rest :
            IsItem(tag, parts) /\ rest \in Seq(Part) /\ << >> = Item(tag, parts) \o rest
  BY ReadsUnfold
<1>. QED BY <1>1, <1>2

\* A call returns.
Returned(stk) ==
    LET L == Len(stk)
        outer == stk[L - 1]
    IN  Append(SubSeq(stk, 1, L - 2),
               [outer EXCEPT !.message = Stored(outer.message, stk[L].into, stk[L].message)])

Popped(t, s, x) ==
    /\ \E T : t \in Seq(T)
    /\ Len(t) = Len(s) - 1 /\ t[Len(s) - 1] = x
    /\ \A i \in 1 .. Len(s) - 2 : t[i] = s[i]

\* A stack with a call less, and another on top.
LEMMA PopIs ==
    ASSUME NEW S, NEW s \in Seq(S), Len(s) > 1, NEW x,
           NEW t, t = Append(SubSeq(s, 1, Len(s) - 2), x)
    PROVE  Popped(t, s, x)
<1>. DEFINE k == Len(s) - 2
            q == SubSeq(s, 1, k)
<1>1. k \in Nat /\ Len(s) \in Nat /\ k <= Len(s) /\ Len(s) - 1 = k + 1
  BY LenProperties
<1>2. q \in Seq(S) /\ Len(q) = k /\ \A i \in 1 .. k : q[i] = s[i]
  <2>1. CASE k = 0
    <3>1. q = << >>
      <4>1. 1 = k + 1
        BY <2>1
      <4>. HIDE DEF k
      <4>. QED BY <1>1, <4>1, SubNone
    <3>. HIDE DEF q, k
    <3>2. \A i \in 1 .. k : FALSE
      BY <2>1
    <3>3. q \in Seq(S) /\ Len(q) = 0
      BY <3>1, EmptySeq
    <3>. QED BY <2>1, <3>2, <3>3
  <2>2. CASE k # 0
    <3>1. 1 \in 1 .. Len(s) /\ k \in 0 .. Len(s)
      BY <1>1
    <3>2. q = [i \in 1 .. k |-> s[i]]
      <4>1. \A i \in 1 .. k : 1 + i - 1 = i
        OBVIOUS
      <4>. HIDE DEF k
      <4>. QED BY <1>1, <4>1
    <3>3. \A i \in 1 .. k : s[i] \in S
      BY <1>1
    <3>. HIDE DEF k, q
    <3>4. q \in Seq(S)
      BY <1>1, <3>2, <3>3
    <3>5. DOMAIN q = 1 .. k /\ \A i \in 1 .. k : q[i] = s[i]
      BY <3>2
    <3>6. Len(q) = k
      BY <1>1, <3>4, <3>5, LenProperties
    <3>. QED BY <3>4, <3>5, <3>6
  <2>. QED BY <2>1, <2>2
<1>. HIDE DEF k, q
<1>3. Pushed(t, q, x)
  <2>1. t = Append(q, x)
    BY DEF k, q
  <2>. QED BY <1>2, <2>1, AppendIs
<1>4. /\ \E T : t \in Seq(T)
      /\ Len(t) = k + 1 /\ t[k + 1] = x
      /\ \A i \in 1 .. k : t[i] = s[i]
  BY <1>2, <1>3 DEF Pushed
<1>. QED BY <1>1, <1>4 DEF k, Popped

\* When a message ends and is stored, the calls lead where they led.
LEMMA ReturnStep ==
    ASSUME NEW K, Has(K), NEW str, NEW stk, NEW p, NEW n, Calls(str, stk, p), Leads(K, str, stk, p, n),
           Len(stk) > 1, p > stk[Len(stk)].end
    PROVE  Calls(str, Returned(stk), p) /\ Leads(K, str, Returned(stk), p, n)
<1>. DEFINE L == Len(stk)
            J == L - 1
            top == stk[L]
            outer == stk[J]
            x == Stored(outer.message, top.into, top.message)
            outer2 == [outer EXCEPT !.message = x]
            stk2 == Returned(stk)
<1>1. /\ L \in Nat \ {0} /\ DOMAIN stk = 1 .. L /\ L \in 1 .. L
      /\ top.end \in Nat /\ top.end <= Len(str) /\ p \in Nat \ {0} /\ Len(str) \in Nat
      /\ p <= top.end + 1
  BY ShapeTop DEF Calls
<1>2. PICK S : stk \in Seq(S)
  BY DEF Calls, Shape
<1>3. /\ J \in Nat \ {0} /\ J \in 1 .. L - 1 /\ J \in 1 .. L /\ J + 1 = L /\ L - 2 = J - 1 /\ J \in 1 .. J /\ J # L
  <2>1. L > 1
    OBVIOUS
  <2>. HIDE DEF L
  <2>. QED BY <1>1, <2>1
<1>4. /\ IsFrame(top) /\ FrameOK(top) /\ IsFrame(outer) /\ FrameOK(outer) /\ Link(outer, top)
      /\ top.end <= outer.end /\ outer.end <= Len(str)
  BY <1>1, <1>3 DEF Calls, Shape
<1>5. p = top.end + 1
  <2>1. p > top.end
    OBVIOUS
  <2>. HIDE DEF top
  <2>. QED BY <1>1, <2>1
<1>6. n[L] = top.message
  <2>1. ReadsTo(K, SubSeq(str, From(stk, L, p), top.end), WayOf(top), Now(stk, L, n), n[L])
    BY <1>1 DEF Leads
  <2>2. From(stk, L, p) = p /\ Now(stk, L, n) = top.message
    BY DEF From, Now
  <2>3. SubSeq(str, p, top.end) = << >>
    <3>1. str \in Seq(Part)
      BY DEF Calls, Shape
    <3>. HIDE DEF top, Part
    <3>. QED BY <1>1, <1>5, <3>1, SubNone
  <2>4. ReadsTo(K, << >>, WayOf(top), top.message, n[L])
    BY <2>1, <2>2, <2>3
  <2>. HIDE DEF top, L
  <2>. QED BY <2>4, NothingReads
<1>7. FrameOK(outer2) /\ IsFrame(outer2) /\ x.type = outer.message.type
  BY <1>4, FrameReturn
<1>8. /\ outer2.message = x /\ outer2.into = outer.into /\ outer2.entry = outer.entry
      /\ outer2.end = outer.end
  BY <1>4 DEF IsFrame, Frame
<1>9. stk2 = Append(SubSeq(stk, 1, L - 2), outer2)
  BY DEF Returned
<1>. HIDE DEF outer2, stk2
<1>10. /\ \E T : stk2 \in Seq(T)
       /\ Len(stk2) = J /\ stk2[J] = outer2
       /\ \A i \in 1 .. J - 1 : stk2[i] = stk[i]
  <2>1. Popped(stk2, stk, outer2)
    BY <1>2, <1>9, PopIs
  <2>. QED BY <1>3, <2>1 DEF Popped
<1>. HIDE DEF J
<1>11. \A i \in 1 .. J : i \in 1 .. J - 1 \/ i = J
  BY <1>3
<1>12. \A i \in 1 .. J - 1 : i \in 1 .. J /\ i + 1 \in 1 .. J /\ i # L /\ i # J
  BY <1>3
<1>13. \A i \in 1 .. J : i \in 1 .. L /\ i # L
  <2>. HIDE DEF L
  <2>. QED BY <1>1, <1>3
<1>14. \A i \in 1 .. J - 1 : i \in 1 .. L - 1
  <2>. HIDE DEF L
  <2>. QED BY <1>1, <1>3
<1>15. \A i \in 1 .. J :
          /\ IsFrame(stk2[i]) /\ FrameOK(stk2[i]) /\ stk2[i].end = stk[i].end /\ stk2[i].into = stk[i].into
          /\ stk2[i].entry = stk[i].entry /\ stk2[i].message.type = stk[i].message.type
  <2>1. \A i \in 1 .. L : IsFrame(stk[i]) /\ FrameOK(stk[i])
    BY DEF Calls, Shape
  <2>. SUFFICES ASSUME NEW i \in 1 .. J
                PROVE  /\ IsFrame(stk2[i]) /\ FrameOK(stk2[i]) /\ stk2[i].end = stk[i].end /\ stk2[i].into = stk[i].into
                       /\ stk2[i].entry = stk[i].entry /\ stk2[i].message.type = stk[i].message.type
    OBVIOUS
  <2>2. CASE i = J
    BY <1>7, <1>8, <1>10, <2>2
  <2>3. CASE i \in 1 .. J - 1
    BY <1>10, <1>13, <2>1, <2>3
  <2>. QED BY <1>11, <2>2, <2>3
<1>16. Shape(str, stk2, p)
  <2>1. \A i \in 1 .. J : stk2[i].end <= Len(str)
    BY <1>13, <1>15 DEF Calls, Shape
  <2>2. \A i \in 1 .. J - 1 : stk2[i + 1].end <= stk2[i].end
    BY <1>12, <1>14, <1>15 DEF Calls, Shape
  <2>3. 1 \in 1 .. J
    BY <1>3
  <2>4. stk2[1].end = Len(str) /\ ~stk2[1].entry /\ stk2[1].message.type = type
    BY <1>15, <2>3 DEF Calls, Shape
  <2>5. p <= stk2[J].end + 1
    <3>1. stk2[J].end = outer.end /\ outer.end \in Nat
      BY <1>4, <1>8, <1>10 DEF IsFrame
    <3>. HIDE DEF outer, top
    <3>. QED BY <1>1, <1>4, <1>5, <3>1
  <2>6. J > 0 /\ str \in Seq(Part) /\ p \in 1 .. Len(str) + 1
    BY <1>3 DEF Calls, Shape
  <2>. QED BY <1>10, <1>15, <2>1, <2>2, <2>4, <2>5, <2>6 DEF Shape
<1>17. \A i \in 1 .. J - 1 : Link(stk2[i], stk2[i + 1])
  <2>. SUFFICES ASSUME NEW i \in 1 .. J - 1 PROVE Link(stk2[i], stk2[i + 1])
    OBVIOUS
  <2>1. Link(stk[i], stk[i + 1])
    BY <1>14 DEF Calls
  <2>2. i \in 1 .. J /\ i + 1 \in 1 .. J
    BY <1>12
  <2>. QED BY <1>15, <2>1, <2>2 DEF Link
<1>18. Calls(str, stk2, p)
  BY <1>10, <1>15, <1>16, <1>17 DEF Calls
<1>19. Leads(K, str, stk2, p, n)
  <2>. SUFFICES ASSUME NEW i \in 1 .. J
                PROVE  ReadsTo(K, SubSeq(str, From(stk2, i, p), stk2[i].end), WayOf(stk2[i]),
                               Now(stk2, i, n), n[i])
    BY <1>10 DEF Leads
  <2>1. ReadsTo(K, SubSeq(str, From(stk, i, p), stk[i].end), WayOf(stk[i]), Now(stk, i, n), n[i])
    BY <1>13 DEF Leads
  <2>2. WayOf(stk2[i]) = WayOf(stk[i]) /\ stk2[i].end = stk[i].end
    BY <1>15 DEF WayOf
  <2>3. CASE i = J
    <3>1. i # Len(stk) /\ i + 1 = L
      BY <1>3, <2>3
    <3>2. From(stk, i, p) = p /\ From(stk2, i, p) = p
      BY <1>5, <1>10, <2>3, <3>1 DEF From
    <3>3. Now(stk, i, n) = x
      BY <1>6, <2>3, <3>1 DEF Now
    <3>4. Now(stk2, i, n) = x
      BY <1>8, <1>10, <2>3 DEF Now
    <3>. QED BY <2>1, <2>2, <3>2, <3>3, <3>4
  <2>4. CASE i \in 1 .. J - 1
    <3>1. i # Len(stk) /\ i # Len(stk2) /\ stk2[i] = stk[i] /\ i + 1 \in 1 .. J
      BY <1>10, <1>12, <2>4
    <3>2. stk2[i + 1].end = stk[i + 1].end /\ stk2[i + 1].into = stk[i + 1].into
      BY <1>15, <3>1
    <3>3. From(stk2, i, p) = From(stk, i, p) /\ Now(stk2, i, n) = Now(stk, i, n)
      BY <3>1, <3>2 DEF From, Now
    <3>. QED BY <2>1, <2>2, <3>3
  <2>. QED BY <1>11, <2>3, <2>4
<1>. QED BY <1>18, <1>19 DEF stk2

-----------------------------------------------------------------------------
(***************************************************************************)
(* A program that reads                                                    *)
(***************************************************************************)
\* What it will have read in the end.
Goal(L, h, str, G) ==
    /\ ReadsTo(Known(L, h), str, "message", default_instance(type), G)
    /\ h = 1 => \E G2 : Forwarded(L, G, G2)
    /\ h = 2 /\ ~earlier => G = source

Going(L, h, str, stk, p) ==
    \E n : Goal(L, h, str, n[1]) /\ Leads(Known(L, h), str, stk, p, n)

Never(str, stk) ==
    ~earlier =>
        /\ \A f \in DOMAIN stk[1].message.fields :
              ours[type][f].kind \in Lists =>
                  Len(stk[1].message.fields[f]) <= Len(source.fields[f])
        /\ unknown_fields_size(stk[1].message.unknown) <= Len(str)

Reading(L, h, str, p, stk, b) ==
    /\ str \in Seq(Part) /\ p \in 1 .. Len(str) + 1
    /\ \E G : Goal(L, h, str, G)
    /\ stk # << >> => Calls(str, stk, p) /\ Never(str, stk)
    /\ b => stk # << >> /\ Len(stk) = 1
    /\ stk # << >> /\ ~b => Going(L, h, str, stk, p)

\* What is known is known of types that are bound.
LEMMA KnownHas == ASSUME NEW L, NEW h PROVE Has(Known(L, h))
  BY DEF Has, Known

\* What leads to the message that was sent has never more in it.
LEMMA NeverIs ==
    ASSUME NEW L, NEW h \in {1, 2}, NEW str, NEW stk, NEW p, Calls(str, stk, p), Going(L, h, str, stk, p)
    PROVE  Never(str, stk)
<1>. SUFFICES ASSUME ~earlier PROVE Never(str, stk)
  BY DEF Never
<1>. DEFINE K == Known(L, h)
            root == stk[1].message
<1>1. PICK n : Goal(L, h, str, n[1]) /\ Leads(K, str, stk, p, n)
  BY DEF Going
<1>. DEFINE G == n[1]
            piece == SubSeq(str, From(stk, 1, p), stk[1].end)
<1>2. Len(stk) \in Nat \ {0} /\ 1 \in 1 .. Len(stk) /\ Len(str) \in Nat
  BY ShapeTop DEF Calls
<1>3. FrameOK(stk[1]) /\ ~stk[1].entry /\ root.type = type /\ str \in Seq(Part)
  BY <1>2 DEF Calls, Shape
<1>4. Kept(root)
  BY <1>3 DEF FrameOK
<1>5. ReadsTo(K, piece, "message", Now(stk, 1, n), G)
  <2>1. ReadsTo(K, piece, WayOf(stk[1]), Now(stk, 1, n), G)
    BY <1>1, <1>2 DEF Leads
  <2>. QED BY <1>3, <2>1 DEF WayOf
<1>. HIDE DEF piece, G, K
<1>6. GrowsTo(root, Now(stk, 1, n), 0)
  <2>1. CASE Len(stk) = 1
    BY <1>4, <2>1, SameGrows DEF Now
  <2>2. CASE Len(stk) # 1
    <3>1. 1 \in 1 .. Len(stk) - 1
      <4>. DEFINE k == Len(stk)
      <4>1. k \in Nat \ {0} /\ k # 1
        BY <1>2, <2>2
      <4>. HIDE DEF k
      <4>2. 1 \in 1 .. k - 1
        BY <4>1
      <4>. QED BY <4>2 DEF k
    <3>2. Link(stk[1], stk[1 + 1])
      BY <3>1 DEF Calls
    <3>3. ours[root.type][stk[1 + 1].into].kind \in Deep
      BY <3>2 DEF Link
    <3>4. Now(stk, 1, n) = Stored(root, stk[1 + 1].into, n[1 + 1])
      BY <2>2 DEF Now
    <3>. QED BY <1>4, <3>3, <3>4, StoredGrows DEF GrowsTo
  <2>. QED BY <2>1, <2>2
<1>7. GrowsTo(Now(stk, 1, n), G, Len(piece)) /\ Len(piece) \in Nat
  <2>1. piece \in Seq(Part)
    BY <1>5, ReadsUnfold
  <2>2. Kept(Now(stk, 1, n))
    BY <1>6 DEF GrowsTo
  <2>. QED BY <1>5, <2>1, <2>2, ReadsGrow, LenProperties
<1>8. GrowsTo(root, G, 0 + Len(piece))
  BY <1>4, <1>6, <1>7, GrowsToTrans
<1>9. GrowsTo(default_instance(type), G, Len(str)) /\ unknown_fields_size(default_instance(type).unknown) = 0
  <2>. DEFINE d == default_instance(type)
  <2>1. d = Msg(type, << >>, << >>)
    BY DEF default_instance, Msg, Nothing
  <2>. HIDE DEF d
  <2>2. d.type = type /\ d.fields = << >> /\ d.unknown = << >> /\ IsMsg(d, type)
    BY <2>1, MsgFields
  <2>3. DOMAIN d.fields = {} /\ DOMAIN d.unknown = {}
    BY <2>2, EmptySeq
  <2>4. Kept(d)
    BY <2>2, <2>3, FS_EmptySet DEF Kept
  <2>5. ReadsTo(K, str, "message", d, G)
    BY <1>1 DEF Goal, K, G, d
  <2>6. unknown_fields_size(d.unknown) = 0
    BY <2>2, NoUnknown
  <2>. QED BY <2>4, <2>5, <2>6, ReadsGrow DEF d
<1>10. unknown_fields_size(root.unknown) <= Len(str)
  <2>. DEFINE u0 == unknown_fields_size(default_instance(type).unknown)
              u1 == unknown_fields_size(root.unknown)
              u2 == unknown_fields_size(G.unknown)
  <2>1. u1 \in Nat /\ u2 \in Nat /\ u1 <= u2
    BY <1>8 DEF GrowsTo, Grown
  <2>2. u2 <= u0 + Len(str) /\ u0 = 0
    BY <1>9 DEF GrowsTo, Grown
  <2>. HIDE DEF u0, u1, u2
  <2>3. u1 <= Len(str)
    BY <1>2, <2>1, <2>2
  <2>. QED BY <2>3 DEF u1
<1>11. ASSUME NEW f \in DOMAIN root.fields, ours[type][f].kind \in Lists
       PROVE  Len(root.fields[f]) <= Len(source.fields[f])
  <2>1. f \in DOMAIN G.fields /\ Len(root.fields[f]) <= Len(G.fields[f])
    BY <1>3, <1>8, <1>11 DEF GrowsTo, Grown
  <2>2. Len(G.fields[f]) = Len(source.fields[f])
    <3>1. CASE h = 1
      <4>1. Relayed(L, G)
        BY <1>1, <3>1 DEF Goal, Forwarded, G
      <4>. QED BY <1>11, <2>1, <4>1 DEF Relayed, Lists, Flat
    <3>2. CASE h = 2
      BY <1>1, <3>2 DEF Goal, G
    <3>. QED BY <3>1, <3>2
  <2>. QED BY <2>1, <2>2
<1>. QED BY <1>10, <1>11 DEF Never

\* It begins.
Started(str) == <<Frame(default_instance(type), "", FALSE, Len(str))>>

\* A new message leads there from the start of the stream.
LEMMA BeginStep ==
    ASSUME NEW L, NEW h \in {1, 2}, NEW str \in Seq(Part), NEW G, Goal(L, h, str, G)
    PROVE  Reading(L, h, str, 1, Started(str), FALSE)
<1>. DEFINE frame == Frame(default_instance(type), "", FALSE, Len(str))
            stk == Started(str)
            n == [i \in {1} |-> G]
<1>1. Len(str) \in Nat
  BY LenProperties
<1>2. /\ IsFrame(frame) /\ FrameOK(frame) /\ WayOf(frame) = "message"
  <2>. DEFINE field == [kind |-> "message", type |-> type]
  <2>1. field.kind = "message" /\ field.type = type
    OBVIOUS
  <2>2. frame = Frame(Start(field), "", field.kind = "map", Len(str))
    BY DEF Start
  <2>. HIDE DEF field, frame
  <2>3. field.kind \in Deep /\ field.kind # "map" /\ Way(field) = "message"
    BY <2>1 DEF Deep, Way
  <2>. QED BY <1>1, <2>2, <2>3, FrameStart
<1>3. /\ frame.message = default_instance(type) /\ ~frame.entry /\ frame.end = Len(str)
      /\ frame.message.type = type
  BY DEF Frame, default_instance
<1>4. stk = <<frame>>
  BY DEF Started
<1>. HIDE DEF frame, stk
<1>5. /\ stk \in Seq({frame}) /\ Len(stk) = 1 /\ stk[1] = frame /\ stk # << >>
  BY <1>4
<1>6. Calls(str, stk, 1)
  <2>1. 1 \in 1 .. Len(str) + 1 /\ 1 <= Len(str) + 1 /\ Len(str) <= Len(str)
    BY <1>1
  <2>2. \A i \in 1 .. 1 : i = 1
    OBVIOUS
  <2>3. \A i \in 1 .. 1 - 1 : FALSE
    OBVIOUS
  <2>4. Shape(str, stk, 1)
    BY <1>2, <1>3, <1>5, <2>1, <2>2, <2>3 DEF Shape
  <2>. QED BY <1>2, <1>5, <2>2, <2>3, <2>4 DEF Calls
<1>7. Going(L, h, str, stk, 1)
  <2>1. n[1] = G
    OBVIOUS
  <2>. HIDE DEF n
  <2>2. SubSeq(str, 1, Len(str)) = str
    <3>1. CASE str = << >>
      <4>1. Len(str) = 0
        BY <3>1, EmptySeq
      <4>2. SubSeq(str, 1, 0) = << >>
        BY SubNone
      <4>. QED BY <3>1, <4>1, <4>2
    <3>2. CASE str # << >>
      BY <3>2, Grows
    <3>. QED BY <3>1, <3>2
  <2>3. ReadsTo(Known(L, h), str, "message", default_instance(type), G)
    BY DEF Goal
  <2>4. Leads(Known(L, h), str, stk, 1, n)
    <3>1. From(stk, 1, 1) = 1 /\ Now(stk, 1, n) = default_instance(type)
      BY <1>3, <1>5 DEF From, Now
    <3>2. \A i \in 1 .. Len(stk) : i = 1
      BY <1>5
    <3>3. ReadsTo(Known(L, h), SubSeq(str, From(stk, 1, 1), stk[1].end), WayOf(stk[1]),
                  Now(stk, 1, n), n[1])
      BY <1>2, <1>3, <1>5, <2>1, <2>2, <2>3, <3>1
    <3>. QED BY <3>2, <3>3 DEF Leads
  <2>. QED BY <2>1, <2>4 DEF Going
<1>8. Never(str, stk)
  BY <1>6, <1>7, NeverIs
<1>9. 1 \in 1 .. Len(str) + 1
  BY <1>1
<1>. QED BY <1>6, <1>7, <1>8, <1>9 DEF Reading, stk

\* It goes on.
LEMMA GoesOn ==
    ASSUME NEW L, NEW h \in {1, 2}, NEW str, NEW stk, NEW p, NEW n, NEW stk0, NEW p0,
           Reading(L, h, str, p0, stk0, FALSE),
           Calls(str, stk, p), Leads(Known(L, h), str, stk, p, n), Goal(L, h, str, n[1])
    PROVE  Reading(L, h, str, p, stk, FALSE)
<1>1. Going(L, h, str, stk, p)
  BY DEF Going
<1>2. Never(str, stk)
  BY <1>1, NeverIs
<1>3. str \in Seq(Part) /\ p \in 1 .. Len(str) + 1 /\ \E G : Goal(L, h, str, G)
  BY DEF Reading, Calls, Shape
<1>. QED BY <1>1, <1>2, <1>3 DEF Reading

\* The same item again.
LEMMA PassedSame ==
    ASSUME NEW str, NEW stk, NEW p, Calls(str, stk, p)
    PROVE  Passed(stk, stk[Len(stk)].message) = stk
<1>. DEFINE L == Len(stk)
<1>1. L \in 1 .. L /\ DOMAIN stk = 1 .. L
  BY ShapeTop DEF Calls
<1>2. PICK S : stk \in Seq(S)
  BY DEF Calls, Shape
<1>3. IsFrame(stk[L])
  BY <1>1 DEF Calls, Shape
<1>4. [stk[L] EXCEPT !.message = stk[L].message] = stk[L]
  BY <1>3 DEF IsFrame, Frame
<1>5. stk = [i \in 1 .. L |-> stk[i]]
  BY <1>1, <1>2
<1>. QED BY <1>1, <1>4, <1>5 DEF Passed

-----------------------------------------------------------------------------
(***************************************************************************)
(* The steps of a program that reads                                       *)
(***************************************************************************)
LEMMA ReadingIs ==
    ASSUME NEW L, NEW h, Reading(L, h, stream, pos, stack, broken), Reads
    PROVE  /\ stack # << >> /\ ~broken /\ Calls(stream, stack, pos)
           /\ Reading(L, h, stream, pos, stack, FALSE)
           /\ Going(L, h, stream, stack, pos)
<1>1. stack # << >> /\ ~broken
  BY DEF Reads, Nothing
<1>. QED BY <1>1 DEF Reading

\* The field of a tag, in the words of the code.
LEMMA HitsIs ==
    ASSUME NEW frame, frame.message.type \in DOMAIN ours, NEW part
    PROVE  Hits(frame, part) = Hit(Known(lacks, hop), frame.message.type, part)
  BY DEF Hits, Hit, Known, Knows

\* What a field gets, in the words of the code.
CodeValue(field, tag, old) ==
    LET raws == [i \in 1 .. tag.v |-> stream[pos + i].raw]
    IN  CASE field.kind = "scalar"   -> ReadOne(tag)
          [] field.kind = "repeated" -> Append(old, ReadOne(tag))
          [] field.kind = "packed"   -> IF tag.wt = "len" THEN old \o raws
                                        ELSE Append(old, tag.v)

Gets(field, tag, parts, rest, end) ==
    /\ stream \in Seq(Part) /\ pos \in Nat \ {0} /\ end <= Len(stream) /\ end \in Nat
    /\ NextItem(stream, pos, end, tag, parts, rest)
    /\ field.kind \in Flat
    /\ field.kind # "packed" /\ tag.wt = "len" => Len(parts) >= 1

\* MergeScalar sets the value that the items of the stream stand for.
LEMMA ScalarIs ==
    ASSUME NEW field, NEW tag, NEW parts, NEW rest, NEW end, NEW old,
           Gets(field, tag, parts, rest, end)
    PROVE  ScalarValue(field, tag, parts, old) = CodeValue(field, tag, old)
<1>0. /\ stream \in Seq(Part) /\ pos \in Nat \ {0} /\ end <= Len(stream) /\ end \in Nat
      /\ NextItem(stream, pos, end, tag, parts, rest)
      /\ field.kind \in Flat
      /\ field.kind # "packed" /\ tag.wt = "len" => Len(parts) >= 1
  BY DEF Gets
<1>. DEFINE raws == [i \in 1 .. tag.v |-> stream[pos + i].raw]
            raws2 == [i \in 1 .. tag.v |-> parts[i].raw]
            one2 == IF tag.wt = "len" THEN parts[1].raw ELSE tag.v
            j == Len(parts)
<1>1. /\ IsItem(tag, parts) /\ Extent(tag) = 1 + j /\ j \in Nat /\ pos + Extent(tag) <= end + 1
      /\ parts = SubSeq(stream, pos + 1, pos + Extent(tag) - 1)
  BY <1>0 DEF NextItem
<1>2. tag.wt = "len" => tag.v = j
  <2>. SUFFICES ASSUME tag.wt = "len" PROVE tag.v = j
    OBVIOUS
  <2>1. tag.v \in Nat
    BY <1>1 DEF IsItem, Part
  <2>2. Extent(tag) = 1 + tag.v
    BY DEF Extent
  <2>. HIDE DEF j
  <2>. QED BY <1>1, <2>1, <2>2
<1>3. \A i \in 1 .. j : parts[i] = stream[pos + i]
  <2>. HIDE DEF j
  <2>1. pos + Extent(tag) - 1 = pos + j /\ pos + j <= Len(stream) /\ Len(stream) \in Nat
    BY <1>0, <1>1, LenProperties
  <2>2. parts = [i \in 1 .. j |-> stream[pos + i]]
    <3>1. parts = SubSeq(stream, pos + 1, pos + j)
      BY <1>1, <2>1
    <3>2. (pos + j) - (pos + 1) + 1 = j /\ \A i \in 1 .. j : (pos + 1) + i - 1 = pos + i
      BY <1>0, <1>1
    <3>. HIDE DEF Part
    <3>. QED BY <1>0, <1>1, <2>1, <3>1, <3>2
  <2>. QED BY <2>2
<1>. HIDE DEF j
<1>4. tag.wt = "len" => raws = raws2
  <2>. SUFFICES ASSUME tag.wt = "len" PROVE raws = raws2
    OBVIOUS
  <2>1. \A i \in 1 .. tag.v : stream[pos + i].raw = parts[i].raw
    BY <1>2, <1>3
  <2>. QED BY <2>1
<1>5. field.kind # "packed" => ReadOne(tag) = one2
  <2>. SUFFICES ASSUME field.kind # "packed", tag.wt = "len" PROVE stream[pos + 1].raw = parts[1].raw
    BY DEF ReadOne
  <2>1. 1 \in 1 .. j
    BY <1>0, <1>1 DEF j
  <2>. QED BY <1>3, <2>1
<1>6. ScalarValue(field, tag, parts, old) =
         CASE field.kind = "scalar"   -> one2
           [] field.kind = "repeated" -> Append(old, one2)
           [] field.kind = "packed"   -> IF tag.wt = "len" THEN old \o raws2 ELSE Append(old, tag.v)
  BY DEF ScalarValue
<1>7. CodeValue(field, tag, old) =
         CASE field.kind = "scalar"   -> ReadOne(tag)
           [] field.kind = "repeated" -> Append(old, ReadOne(tag))
           [] field.kind = "packed"   -> IF tag.wt = "len" THEN old \o raws ELSE Append(old, tag.v)
  BY DEF CodeValue
<1>. HIDE DEF raws, raws2, one2
<1>8. CASE field.kind = "scalar"
  BY <1>5, <1>6, <1>7, <1>8
<1>9. CASE field.kind = "repeated"
  BY <1>5, <1>6, <1>7, <1>9
<1>10. CASE field.kind = "packed"
  BY <1>4, <1>6, <1>7, <1>10
<1>. QED BY <1>0, <1>8, <1>9, <1>10 DEF Flat

\* merge_from, in each of its steps, leads where it led.
LEMMA MergeReads ==
    ASSUME hop \in {1, 2}, Reading(lacks, hop, stream, pos, stack, broken), merge_from
    PROVE  Reading(lacks, hop, stream, pos', stack', FALSE)
<1>. DEFINE K == Known(lacks, hop)
            L == Len(stack)
            top == stack[L]
            m == top.message
<1>1. Reads
  BY DEF merge_from, MergeField, EndNested, read_unknown_or_skip_group, AtTag
<1>2. /\ stack # << >> /\ ~broken /\ Calls(stream, stack, pos)
      /\ Reading(lacks, hop, stream, pos, stack, FALSE)
      /\ Going(lacks, hop, stream, stack, pos)
  BY <1>1, ReadingIs
<1>3. PICK n : Goal(lacks, hop, stream, n[1]) /\ Leads(K, stream, stack, pos, n)
  BY <1>2 DEF Going
<1>4. Has(K)
  BY KnownHas
<1>5. /\ L \in Nat \ {0} /\ L \in 1 .. L /\ top.end \in Nat /\ top.end <= Len(stream)
      /\ pos \in Nat \ {0} /\ stream \in Seq(Part) /\ pos <= top.end + 1
  BY <1>2, ShapeTop DEF Calls, Shape
<1>6. ASSUME pos <= top.end
      PROVE  \E tag, parts, rest :
              \/ \E x : PassesNext(K, stream, stack, pos, n, tag, parts, rest, x)
              \/ \E f, x : EntersNext(K, stream, stack, pos, n, tag, parts, rest, f, x)
  BY <1>2, <1>3, <1>6, TopReads DEF Calls
<1>7. ASSUME NEW tag, NEW parts, NEW rest, NEW x,
             PassesNext(K, stream, stack, pos, n, tag, parts, rest, x),
             stack' = Passed(stack, x), pos' = pos + Extent(tag)
      PROVE  Reading(lacks, hop, stream, pos', stack', FALSE)
  <2>1. Calls(stream, stack', pos') /\ Leads(K, stream, stack', pos', n)
    BY <1>2, <1>3, <1>4, <1>7, PassStep
  <2>. QED BY <1>2, <1>3, <2>1, GoesOn
<1>8. ASSUME NEW tag, NEW parts, NEW rest, NEW f, NEW x,
             EntersNext(K, stream, stack, pos, n, tag, parts, rest, f, x),
             stack' = Entered(stack, f, pos + Extent(tag) - 1), pos' = pos + 1
      PROVE  Reading(lacks, hop, stream, pos', stack', FALSE)
  <2>. DEFINE n2 == More(n, L, x)
  <2>1. Calls(stream, stack', pos') /\ Leads(K, stream, stack', pos', n2)
    BY <1>2, <1>3, <1>4, <1>8, EnterStep
  <2>2. n2[1] = n[1]
    <3>1. 1 \in 1 .. L + 1 /\ 1 <= L
      BY <1>5
    <3>. QED BY <3>1 DEF More
  <2>. HIDE DEF n2
  <2>. QED BY <1>2, <1>3, <2>1, <2>2, GoesOn
<1>9. ASSUME NEW tag, NEW parts, NEW rest, NEW x,
             PassesNext(K, stream, stack, pos, n, tag, parts, rest, x)
      PROVE  /\ tag = stream[pos] /\ m.type \in DOMAIN ours /\ Hits(top, tag) = Hit(K, m.type, tag)
             /\ NextItem(stream, pos, top.end, tag, parts, rest)
             /\ Passes(K, tag, parts, WayOf(top), m, x)
  <2>1. NextItem(stream, pos, top.end, tag, parts, rest) /\ Passes(K, tag, parts, WayOf(top), m, x)
    BY <1>9 DEF PassesNext
  <2>2. tag = stream[pos] /\ m.type \in DOMAIN ours
    BY <2>1 DEF NextItem, Passes
  <2>. QED BY <2>1, <2>2, HitsIs
<1>10. ASSUME NEW tag, NEW parts, NEW rest, NEW f, NEW x,
             EntersNext(K, stream, stack, pos, n, tag, parts, rest, f, x)
      PROVE  /\ tag = stream[pos] /\ m.type \in DOMAIN ours /\ Hits(top, tag) = {f}
             /\ ours[m.type][f].kind \in Deep
  <2>1. NextItem(stream, pos, top.end, tag, parts, rest) /\ Enters(K, tag, WayOf(top), m, f)
    BY <1>10 DEF EntersNext
  <2>2. tag = stream[pos] /\ m.type \in DOMAIN ours /\ Hit(K, m.type, tag) = {f}
        /\ ours[m.type][f].kind \in Deep
    BY <2>1 DEF NextItem, Enters
  <2>. QED BY <2>2, HitsIs
<1>11. CASE MergeField
  <2>1. AtTag /\ top = Top
    BY <1>11 DEF MergeField, Top
  <2>2. pos <= top.end
    BY <2>1 DEF AtTag
  <2>3. PICK f \in Hits(top, stream[pos]) : MergeScalar(f) \/ MergeNested(f)
    BY <1>11, <2>1 DEF MergeField
  <2>4. ASSUME NEW tag, NEW parts, NEW rest, NEW x,
               PassesNext(K, stream, stack, pos, n, tag, parts, rest, x)
        PROVE  Reading(lacks, hop, stream, pos', stack', FALSE)
    <3>1. /\ tag = stream[pos] /\ m.type \in DOMAIN ours /\ Hits(top, tag) = Hit(K, m.type, tag)
          /\ NextItem(stream, pos, top.end, tag, parts, rest)
          /\ Passes(K, tag, parts, WayOf(top), m, x)
      BY <1>9, <2>4
    <3>2. f \in Hit(K, m.type, tag)
      BY <2>3, <3>1
    <3>. DEFINE field == ours[m.type][f]
                old == Old(m, f)
                v == CodeValue(field, tag, old)
    <3>3. /\ field.kind \in Flat
          /\ field.kind # "packed" /\ tag.wt = "len" => Len(parts) >= 1
          /\ x = With(m, f, ScalarValue(field, tag, parts, old))
      BY <3>1, <3>2 DEF Passes
    <3>4. ScalarValue(field, tag, parts, old) = v
      <4>1. Gets(field, tag, parts, rest, top.end)
        BY <1>5, <3>1, <3>3 DEF Gets
      <4>. HIDE DEF old, field, top
      <4>. QED BY <4>1, ScalarIs
    <3>5. MergeScalar(f)
      BY <2>1, <2>3, <3>3 DEF MergeNested, Flat
    <3>6. stack' = Put(With(m, f, v)) /\ pos' = pos + Extent(tag)
      BY <2>1, <3>1, <3>5 DEF MergeScalar, CodeValue
    <3>. HIDE DEF v
    <3>7. stack' = Passed(stack, x)
      BY <3>3, <3>4, <3>6 DEF Put, Passed
    <3>. QED BY <1>7, <2>4, <3>6, <3>7
  <2>5. ASSUME NEW tag, NEW parts, NEW rest, NEW g, NEW x,
               EntersNext(K, stream, stack, pos, n, tag, parts, rest, g, x)
        PROVE  Reading(lacks, hop, stream, pos', stack', FALSE)
    <3>1. /\ tag = stream[pos] /\ m.type \in DOMAIN ours /\ Hits(top, tag) = {g}
          /\ ours[m.type][g].kind \in Deep
      BY <1>10, <2>5
    <3>2. f = g
      BY <2>3, <3>1
    <3>3. MergeNested(f)
      BY <2>1, <2>3, <3>1, <3>2 DEF MergeScalar, Deep
    <3>. DEFINE field == ours[m.type][f]
    <3>4. /\ stack' = Append(stack, Frame(Start(field), f, field.kind = "map", pos + Extent(tag) - 1))
          /\ pos' = pos + 1
      BY <2>1, <3>1, <3>3 DEF MergeNested, Start
    <3>5. stack' = Entered(stack, g, pos + Extent(tag) - 1)
      BY <3>2, <3>4 DEF Entered
    <3>. QED BY <1>8, <2>5, <3>4, <3>5
  <2>. QED BY <1>6, <2>2, <2>4, <2>5
<1>12. CASE EndNested
  <2>1. L > 1 /\ pos > top.end
    BY <1>12 DEF EndNested, Top
  <2>2. stack' = Returned(stack) /\ pos' = pos
    BY <1>12 DEF EndNested, Returned, Stored, Top
  <2>3. Calls(stream, stack', pos') /\ Leads(K, stream, stack', pos', n)
    BY <1>2, <1>3, <1>4, <2>1, <2>2, ReturnStep
  <2>. QED BY <1>2, <1>3, <2>3, GoesOn
<1>13. CASE read_unknown_or_skip_group
  <2>1. AtTag /\ top = Top /\ Hits(top, stream[pos]) = {}
    BY <1>13 DEF read_unknown_or_skip_group, Top
  <2>2. pos <= top.end
    BY <2>1 DEF AtTag
  <2>4. ASSUME NEW tag, NEW parts, NEW rest, NEW x,
               PassesNext(K, stream, stack, pos, n, tag, parts, rest, x)
        PROVE  Reading(lacks, hop, stream, pos', stack', FALSE)
    <3>1. /\ tag = stream[pos] /\ m.type \in DOMAIN ours /\ Hits(top, tag) = Hit(K, m.type, tag)
          /\ NextItem(stream, pos, top.end, tag, parts, rest)
          /\ Passes(K, tag, parts, WayOf(top), m, x)
      BY <1>9, <2>4
    <3>2. Hit(K, m.type, tag) = {}
      BY <2>1, <3>1
    <3>3. x = IF WayOf(top) = "entry" THEN m ELSE Keep(m, tag.num, Item(tag, parts))
      BY <3>1, <3>2 DEF Passes
    <3>4. /\ Item(tag, parts) = SubSeq(stream, pos, pos + Extent(tag) - 1)
      BY <3>1 DEF NextItem
    <3>5. /\ stack' = IF top.entry THEN stack ELSE Put(Keep(m, tag.num, Item(tag, parts)))
          /\ pos' = pos + Extent(tag)
      BY <1>13, <2>1, <3>1, <3>4 DEF read_unknown_or_skip_group
    <3>6. stack' = Passed(stack, x)
      <4>1. CASE top.entry
        BY <1>2, <3>3, <3>5, <4>1, PassedSame DEF WayOf
      <4>2. CASE ~top.entry
        BY <3>3, <3>5, <4>2 DEF WayOf, Put, Passed
      <4>. QED BY <4>1, <4>2
    <3>. QED BY <1>7, <2>4, <3>5, <3>6
  <2>5. ASSUME NEW tag, NEW parts, NEW rest, NEW g, NEW x,
               EntersNext(K, stream, stack, pos, n, tag, parts, rest, g, x)
        PROVE  FALSE
    BY <1>10, <2>1, <2>5
  <2>. QED BY <1>6, <2>2, <2>4, <2>5
<1>. QED BY <1>11, <1>12, <1>13 DEF merge_from

-----------------------------------------------------------------------------
(***************************************************************************)
(* What is said of the bindings and the source stays so, while these do    *)
(***************************************************************************)
Stays == UNCHANGED <<type, earlier, theirs, ours>>

\* So it is for what is known and what is stored,
LEMMA StaysStored ==
    ASSUME Stays
    PROVE  /\ \A L, h : Known(L, h)' = Known(L, h)
           /\ \A K, t, tag : Hit(K, t, tag)' = Hit(K, t, tag)
           /\ \A t, f : Fair(t, f)' <=> Fair(t, f)
           /\ \A t : NewEntry(t)' = NewEntry(t)
           /\ \A field : Start(field)' = Start(field)
           /\ \A m, f, x : Stored(m, f, x)' = Stored(m, f, x)
<1>1. type' = type /\ earlier' = earlier /\ theirs' = theirs /\ ours' = ours
  BY DEF Stays
<1>2. ASSUME NEW CONSTANT L, NEW CONSTANT h PROVE Known(L, h)' = Known(L, h)
  BY <1>1 DEF Known
<1>3. ASSUME NEW CONSTANT K, NEW CONSTANT t, NEW CONSTANT tag PROVE Hit(K, t, tag)' = Hit(K, t, tag)
  BY <1>1 DEF Hit
<1>4. ASSUME NEW CONSTANT t, NEW CONSTANT f PROVE Fair(t, f)' <=> Fair(t, f)
  BY <1>1 DEF Fair
<1>5. ASSUME NEW CONSTANT t PROVE NewEntry(t)' = NewEntry(t)
  BY <1>1 DEF NewEntry
<1>6. ASSUME NEW CONSTANT field PROVE Start(field)' = Start(field)
  BY <1>1, <1>5 DEF Start
<1>7. ASSUME NEW CONSTANT m, NEW CONSTANT f, NEW CONSTANT x PROVE Stored(m, f, x)' = Stored(m, f, x)
  BY <1>1 DEF Stored
<1>. QED BY <1>2, <1>3, <1>4, <1>5, <1>6, <1>7

\* for the items that are read,
LEMMA StaysPasses ==
    ASSUME Stays
    PROVE  /\ \A K, tag, parts, way, m, n : Passes(K, tag, parts, way, m, n)' <=> Passes(K, tag, parts, way, m, n)
           /\ \A K, tag, way, m, f : Enters(K, tag, way, m, f)' <=> Enters(K, tag, way, m, f)
<1>1. ours' = ours
  BY DEF Stays
<1>2. /\ \A K, t, tag : Hit(K, t, tag)' = Hit(K, t, tag)
      /\ \A t, f : Fair(t, f)' <=> Fair(t, f)
  BY StaysStored
<1>3. ASSUME NEW CONSTANT K, NEW CONSTANT tag, NEW CONSTANT parts, NEW CONSTANT way,
             NEW CONSTANT m, NEW CONSTANT n
      PROVE  Passes(K, tag, parts, way, m, n)' <=> Passes(K, tag, parts, way, m, n)
  BY <1>1, <1>2 DEF Passes
<1>4. ASSUME NEW CONSTANT K, NEW CONSTANT tag, NEW CONSTANT way, NEW CONSTANT m, NEW CONSTANT f
      PROVE  Enters(K, tag, way, m, f)' <=> Enters(K, tag, way, m, f)
  BY <1>1, <1>2 DEF Enters
<1>. QED BY <1>3, <1>4

\* How a reading begins.
PassesIn(K, R, r, tag, parts, rest) ==
    \E n : Passes(K, tag, parts, r[2], r[3], n) /\ <<rest, r[2], n, r[4]>> \in R

EntersIn(K, R, r, tag, parts, rest) ==
    \E f, x : /\ Enters(K, tag, r[2], r[3], f)
              /\ <<parts, Way(ours[r[3].type][f]), Start(ours[r[3].type][f]), x>> \in R
              /\ <<rest, r[2], Stored(r[3], f, x), r[4]>> \in R

\* for what a stream is read as,
LEMMA StaysReads ==
    ASSUME Stays
    PROVE  \A K, c, way, m, n : ReadsTo(K, c, way, m, n)' <=> ReadsTo(K, c, way, m, n)
<1>1. ours' = ours
  BY DEF Stays
<1>2. /\ \A K, tag, parts, way, m, n : Passes(K, tag, parts, way, m, n)' <=> Passes(K, tag, parts, way, m, n)
      /\ \A K, tag, way, m, f : Enters(K, tag, way, m, f)' <=> Enters(K, tag, way, m, f)
  BY StaysPasses
<1>3. /\ \A field : Start(field)' = Start(field)
      /\ \A m, f, x : Stored(m, f, x)' = Stored(m, f, x)
  BY StaysStored
<1>4. ASSUME NEW CONSTANT K, NEW CONSTANT R PROVE Sound(K, R)' <=> Sound(K, R)
  <2>1. ASSUME NEW CONSTANT r, NEW CONSTANT tag, NEW CONSTANT parts, NEW CONSTANT rest
        PROVE  /\ PassesIn(K, R, r, tag, parts, rest)' <=> PassesIn(K, R, r, tag, parts, rest)
               /\ EntersIn(K, R, r, tag, parts, rest)' <=> EntersIn(K, R, r, tag, parts, rest)
    BY <1>1, <1>2, <1>3 DEF PassesIn, EntersIn
  <2>. DEFINE Is(r, tag, parts, rest) ==
                  IsItem(tag, parts) /\ rest \in Seq(Part) /\ r[1] = Item(tag, parts) \o rest
  <2>2. Sound(K, R) <=>
           \A r \in R :
              /\ r[1] \in Seq(Part)
              /\ \/ r[1] = << >> /\ r[3] = r[4]
                 \/ \E tag, parts, rest :
                       /\ Is(r, tag, parts, rest)
                       /\ PassesIn(K, R, r, tag, parts, rest) \/ EntersIn(K, R, r, tag, parts, rest)
    BY DEF Sound, PassesIn, EntersIn
  <2>3. Sound(K, R)' <=>
           \A r \in R :
              /\ r[1] \in Seq(Part)
              /\ \/ r[1] = << >> /\ r[3] = r[4]
                 \/ \E tag, parts, rest :
                       /\ Is(r, tag, parts, rest)
                       /\ PassesIn(K, R, r, tag, parts, rest)' \/ EntersIn(K, R, r, tag, parts, rest)'
    BY DEF Sound, PassesIn, EntersIn
  <2>. HIDE DEF Is
  <2>. QED BY <2>1, <2>2, <2>3
<1>5. ASSUME NEW CONSTANT K, NEW CONSTANT c, NEW CONSTANT way, NEW CONSTANT m, NEW CONSTANT n
      PROVE  ReadsTo(K, c, way, m, n)' <=> ReadsTo(K, c, way, m, n)
  BY <1>4 DEF ReadsTo
<1>. QED BY <1>5

\* for what a message is written as,
LEMMA StaysWritten ==
    ASSUME Stays
    PROVE  /\ \A h, m : Parts(h, m)' = Parts(h, m)
           /\ \A h, m : Written(h, m)' = Written(h, m)
<1>1. theirs' = theirs /\ ours' = ours
  BY DEF Stays
<1>2. ASSUME NEW CONSTANT field, NEW CONSTANT v PROVE Nested(field, v)' = Nested(field, v)
  BY <1>1 DEF Nested
<1>3. ASSUME NEW CONSTANT h, NEW CONSTANT t PROVE FieldsOf(h, t)' = FieldsOf(h, t)
  BY <1>1 DEF FieldsOf
<1>4. ASSUME NEW CONSTANT h, NEW CONSTANT m PROVE Parts(h, m)' = Parts(h, m)
  BY <1>2, <1>3 DEF Parts
<1>5. ASSUME NEW CONSTANT field, NEW CONSTANT v, NEW CONSTANT size PROVE FieldSize(field, v, size)' = FieldSize(field, v, size)
  BY <1>1 DEF FieldSize
<1>6. ASSUME NEW CONSTANT field, NEW CONSTANT v, NEW CONSTANT size, NEW CONSTANT sub
      PROVE  FieldParts(field, v, size, sub)' = FieldParts(field, v, size, sub)
  BY <1>1 DEF FieldParts
<1>7. ASSUME NEW CONSTANT m, NEW CONSTANT F, NEW CONSTANT size PROVE compute_size(m, F, size)' = compute_size(m, F, size)
  BY <1>5 DEF compute_size
<1>8. ASSUME NEW CONSTANT m, NEW CONSTANT F, NEW CONSTANT size, NEW CONSTANT sub
      PROVE  write_to_with_cached_sizes(m, F, size, sub)' = write_to_with_cached_sizes(m, F, size, sub)
  BY <1>6 DEF write_to_with_cached_sizes
<1>9. ASSUME NEW CONSTANT h, NEW CONSTANT m PROVE cached_size(h, m)' = cached_size(h, m)
  BY <1>3, <1>4, <1>7 DEF cached_size
<1>10. ASSUME NEW CONSTANT h, NEW CONSTANT m PROVE InnerParts(h, m)' = InnerParts(h, m)
  BY <1>3, <1>4, <1>8 DEF InnerParts
<1>11. ASSUME NEW CONSTANT h, NEW CONSTANT m PROVE Written(h, m)' = Written(h, m)
  BY <1>3, <1>4, <1>8, <1>9, <1>10 DEF Written
<1>. QED BY <1>4, <1>11

\* for the calls,
LEMMA StaysCalls ==
    ASSUME Stays
    PROVE  \A str, stk, p : Calls(str, stk, p)' <=> Calls(str, stk, p)
<1>1. type' = type /\ ours' = ours
  BY DEF Stays
<1>2. /\ \A h, m : Parts(h, m)' = Parts(h, m)
      /\ \A t, f : Fair(t, f)' <=> Fair(t, f)
  BY StaysStored, StaysWritten
<1>3. ASSUME NEW CONSTANT m PROVE Kept(m)' <=> Kept(m)
  BY <1>1 DEF Kept
<1>4. ASSUME NEW CONSTANT m PROVE Clean(m)' <=> Clean(m)
  BY <1>2 DEF Clean
<1>5. ASSUME NEW CONSTANT frame PROVE FrameOK(frame)' <=> FrameOK(frame)
  BY <1>1, <1>2, <1>3, <1>4 DEF FrameOK
<1>6. ASSUME NEW CONSTANT outer, NEW CONSTANT frame PROVE Link(outer, frame)' <=> Link(outer, frame)
  BY <1>1, <1>2 DEF Link
<1>7. ASSUME NEW CONSTANT str, NEW CONSTANT stk, NEW CONSTANT p PROVE Shape(str, stk, p)' <=> Shape(str, stk, p)
  BY <1>1 DEF Shape
<1>8. ASSUME NEW CONSTANT str, NEW CONSTANT stk, NEW CONSTANT p PROVE Calls(str, stk, p)' <=> Calls(str, stk, p)
  BY <1>5, <1>6, <1>7 DEF Calls
<1>. QED BY <1>8

\* for what will have been read in the end,
LEMMA StaysGoal ==
    ASSUME Stays, source' = source
    PROVE  \A L, h, str, G : Goal(L, h, str, G)' <=> Goal(L, h, str, G)
<1>1. type' = type /\ ours' = ours /\ earlier' = earlier
  BY DEF Stays
<1>2. /\ \A L, h : Known(L, h)' = Known(L, h)
      /\ \A h, m : Written(h, m)' = Written(h, m)
      /\ \A K, c, way, m, n : ReadsTo(K, c, way, m, n)' <=> ReadsTo(K, c, way, m, n)
  BY StaysStored, StaysWritten, StaysReads
<1>3. ASSUME NEW CONSTANT L, NEW CONSTANT G PROVE Relayed(L, G)' <=> Relayed(L, G)
  BY <1>1 DEF Relayed
<1>4. ASSUME NEW CONSTANT L, NEW CONSTANT G, NEW CONSTANT H PROVE Forwarded(L, G, H)' <=> Forwarded(L, G, H)
  BY <1>1, <1>2, <1>3 DEF Forwarded
<1>5. ASSUME NEW CONSTANT L, NEW CONSTANT h, NEW CONSTANT str, NEW CONSTANT G
      PROVE  Goal(L, h, str, G)' <=> Goal(L, h, str, G)
  BY <1>1, <1>2, <1>4 DEF Goal
<1>. QED BY <1>5

\* for a program that reads,
LEMMA StaysReading ==
    ASSUME Stays, source' = source
    PROVE  \A L, h, str, p, stk, b : Reading(L, h, str, p, stk, b)' <=> Reading(L, h, str, p, stk, b)
<1>1. type' = type /\ ours' = ours /\ earlier' = earlier
  BY DEF Stays
<1>2. /\ \A L, h : Known(L, h)' = Known(L, h)
      /\ \A K, c, way, m, n : ReadsTo(K, c, way, m, n)' <=> ReadsTo(K, c, way, m, n)
      /\ \A m, f, x : Stored(m, f, x)' = Stored(m, f, x)
      /\ \A str, stk, p : Calls(str, stk, p)' <=> Calls(str, stk, p)
      /\ \A L, h, str, G : Goal(L, h, str, G)' <=> Goal(L, h, str, G)
  BY StaysStored, StaysCalls, StaysReads, StaysGoal
<1>3. ASSUME NEW CONSTANT stk, NEW CONSTANT i, NEW CONSTANT n PROVE Now(stk, i, n)' = Now(stk, i, n)
  BY <1>2 DEF Now
<1>4. ASSUME NEW CONSTANT K, NEW CONSTANT str, NEW CONSTANT stk, NEW CONSTANT p, NEW CONSTANT n
      PROVE  Leads(K, str, stk, p, n)' <=> Leads(K, str, stk, p, n)
  BY <1>2, <1>3 DEF Leads
<1>5. ASSUME NEW CONSTANT L, NEW CONSTANT h, NEW CONSTANT str, NEW CONSTANT stk, NEW CONSTANT p
      PROVE  Going(L, h, str, stk, p)' <=> Going(L, h, str, stk, p)
  BY <1>2, <1>4 DEF Going
<1>6. ASSUME NEW CONSTANT str, NEW CONSTANT stk PROVE Never(str, stk)' <=> Never(str, stk)
  BY <1>1 DEF Never
<1>7. ASSUME NEW CONSTANT L, NEW CONSTANT h, NEW CONSTANT str, NEW CONSTANT p, NEW CONSTANT stk, NEW CONSTANT b
      PROVE  Reading(L, h, str, p, stk, b)' <=> Reading(L, h, str, p, stk, b)
  BY <1>2, <1>5, <1>6 DEF Reading
<1>. QED BY <1>7

\* and for what a writer makes.
LEMMA StaysMade ==
    ASSUME Stays
    PROVE  /\ Bound <=> Bound'
           /\ \A L : Allowed(L)' <=> Allowed(L)
           /\ \A x, t : InnerMade(x, t)' <=> InnerMade(x, t)
           /\ \A x : SourceMade(x)' <=> SourceMade(x)
<1>1. type' = type /\ ours' = ours /\ earlier' = earlier /\ theirs' = theirs
  BY DEF Stays
<1>2. Writers' = Writers
  BY <1>1 DEF Writers
<1>3. Bound <=> Bound'
  BY <1>1, <1>2 DEF Bound
<1>4. ASSUME NEW CONSTANT L PROVE Allowed(L)' <=> Allowed(L)
  BY <1>2 DEF Allowed
<1>5. ASSUME NEW CONSTANT field, NEW CONSTANT v PROVE Nested(field, v)' = Nested(field, v)
  BY <1>1 DEF Nested
<1>6. ASSUME NEW CONSTANT field, NEW CONSTANT v, NEW CONSTANT X PROVE Value(field, v, X)' <=> Value(field, v, X)
  BY <1>1 DEF Value
<1>7. ASSUME NEW CONSTANT field PROVE SubType(field)' = SubType(field)
  BY <1>1 DEF SubType
<1>8. ASSUME NEW CONSTANT x, NEW CONSTANT t PROVE Made(x, t)' <=> Made(x, t)
  BY <1>1, <1>5, <1>6 DEF Made
<1>9. ASSUME NEW CONSTANT x, NEW CONSTANT t PROVE InnerMade(x, t)' <=> InnerMade(x, t)
  BY <1>1, <1>5, <1>7, <1>8 DEF InnerMade
<1>10. ASSUME NEW CONSTANT x PROVE SourceMade(x)' <=> SourceMade(x)
  BY <1>1, <1>5, <1>7, <1>8, <1>9 DEF SourceMade
<1>. QED BY <1>3, <1>4, <1>9, <1>10

-----------------------------------------------------------------------------
(***************************************************************************)
(* What a writer makes                                                     *)
(***************************************************************************)
LEMMA SampleMade ==
    ASSUME NEW field \in FieldType, NEW v, v = Sample(field)
    PROVE  /\ Value(field, v, Nested(field, v))
           /\ \A y \in Nested(field, v) : y = default_instance(SubType(field))
<1>1. a \in Raw /\ Zero \in Raw
  BY DEF Raw
<1>2. CASE field.kind = "scalar"
  <2>1. v = a /\ Nested(field, v) = {}
    BY <1>2 DEF Sample, Nested
  <2>. QED BY <1>1, <1>2, <2>1 DEF Value
<1>3. CASE field.kind = "message"
  <2>1. v = default_instance(field.type) /\ Nested(field, v) = {v} /\ SubType(field) = field.type
    BY <1>3 DEF Sample, Nested, SubType
  <2>. QED BY <1>3, <2>1 DEF Value
<1>4. CASE field.kind = "messages"
  <2>. DEFINE d == default_instance(field.type)
  <2>1. v = <<d>> /\ Nested(field, v) = ToSet(v) /\ SubType(field) = field.type
    BY <1>4 DEF Sample, Nested, SubType
  <2>. HIDE DEF d
  <2>2. v \in Seq({d}) /\ ToSet(v) = {d} /\ v # << >>
    BY <2>1 DEF ToSet
  <2>. QED BY <1>4, <2>1, <2>2 DEF Value, d
<1>5. CASE field.kind \in {"repeated", "packed"}
  <2>1. v = <<Zero>> /\ Nested(field, v) = {}
    BY <1>5 DEF Sample, Nested
  <2>2. v \in Seq(Raw) /\ v # << >>
    BY <1>1, <2>1
  <2>. QED BY <1>5, <2>1, <2>2 DEF Value
<1>6. CASE field.kind = "map"
  <2>. DEFINE value == ours[field.type].value
              d == default_instance(value.type)
  <2>1. v = [k \in {a} |-> IF value.kind = "message" THEN d ELSE Zero]
    BY <1>6 DEF Sample
  <2>2. DOMAIN v = {a} /\ v[a] = IF value.kind = "message" THEN d ELSE Zero
    BY <2>1
  <2>3. Nested(field, v) = IF value.kind = "message" THEN {v[k] : k \in DOMAIN v} ELSE {}
    BY <1>6 DEF Nested
  <2>4. SubType(field) = value.type
    BY <1>6 DEF SubType
  <2>5. v[a] \in EntryValues(ours[field.type], Nested(field, v))
    BY <1>1, <2>2, <2>3 DEF EntryValues
  <2>6. IsFiniteSet(DOMAIN v)
    BY <2>2, FS_Singleton
  <2>7. v = [k \in DOMAIN v |-> v[k]]
    BY <2>1
  <2>8. \A y \in Nested(field, v) : y = d
    BY <2>2, <2>3
  <2>. HIDE DEF value, d
  <2>9. Value(field, v, Nested(field, v))
    BY <1>1, <1>6, <2>2, <2>5, <2>6, <2>7 DEF Value
  <2>. QED BY <2>4, <2>8, <2>9 DEF d
<1>. QED BY <1>2, <1>3, <1>4, <1>5, <1>6 DEF FieldType

\* An empty message is one that a writer makes;
LEMMA DefaultMade ==
    ASSUME NEW t
    PROVE  InnerMade(default_instance(t), t) /\ default_instance(t).type = t
<1>. DEFINE d == default_instance(t)
<1>1. d = Msg(t, << >>, << >>)
  BY DEF default_instance, Msg, Nothing
<1>. HIDE DEF d
<1>2. d.type = t /\ d.fields = << >> /\ d = Msg(t, d.fields, << >>)
  BY <1>1, MsgFields
<1>3. DOMAIN d.fields = {} /\ d.fields = [f \in DOMAIN d.fields |-> d.fields[f]]
  BY <1>2, EmptySeq
<1>. QED BY <1>2, <1>3, FS_EmptySet DEF Made, InnerMade, d

\* so are the messages that it puts into fields,
LEMMA InnersMade ==
    ASSUME Bound, NEW t \in Inside, NEW x \in Inner(t)
    PROVE  InnerMade(x, t)
<1>1. CASE x = default_instance(t)
  BY <1>1, DefaultMade
<1>2. ASSUME NEW f \in DOMAIN theirs[t], x = With(default_instance(t), f, Sample(theirs[t][f]))
      PROVE  InnerMade(x, t)
  <2>. DEFINE v == Sample(theirs[t][f])
              F == Assign(<< >>, f, v)
  <2>1. GoodField(theirs[t][f])
    BY FieldsGood
  <2>2. /\ Value(theirs[t][f], v, Nested(theirs[t][f], v))
        /\ \A y \in Nested(theirs[t][f], v) : y = default_instance(SubType(theirs[t][f]))
    BY <2>1, SampleMade DEF GoodField
  <2>. HIDE DEF v
  <2>3. default_instance(t) = Msg(t, << >>, << >>)
    BY DEF default_instance, Msg, Nothing
  <2>4. x = Msg(t, F, << >>)
    <3>1. With(Msg(t, << >>, << >>), f, v) = Msg(t, F, << >>)
      BY MsgFields
    <3>. HIDE DEF F
    <3>. QED BY <1>2, <2>3, <3>1 DEF v
  <2>5. DOMAIN F = {f} /\ F[f] = v /\ F = [g \in DOMAIN F |-> F[g]]
    BY EmptySeq DEF Assign
  <2>. HIDE DEF F
  <2>6. x.type = t /\ x.fields = F /\ x = Msg(t, x.fields, << >>)
    BY <2>4, MsgFields
  <2>7. IsFiniteSet(DOMAIN x.fields) /\ DOMAIN x.fields \subseteq DOMAIN theirs[t]
    BY <2>5, <2>6, FS_Singleton
  <2>. QED BY <2>2, <2>5, <2>6, <2>7 DEF InnerMade, Made
<1>. QED BY <1>1, <1>2 DEF Inner, FieldsOf

\* and the values that it sets.
LEMMA ValuesMade ==
    ASSUME NEW field \in FieldType, NEW v \in Values(field)
    PROVE  /\ Value(field, v, Nested(field, v))
           /\ \A y \in Nested(field, v) : /\ y \in Inner(SubType(field)) /\ field.kind \in Deep
                                          /\ field.kind # "map" \/ ours[field.type].value.kind = "message"
<1>1. a \in Raw /\ Zero \in Raw
  BY DEF Raw
<1>2. CASE field.kind = "scalar"
  <2>1. v = a /\ Nested(field, v) = {}
    BY <1>2 DEF Values, Nested
  <2>. QED BY <1>1, <1>2, <2>1 DEF Value
<1>3. CASE field.kind = "message"
  <2>1. v \in Inner(field.type) /\ Nested(field, v) = {v} /\ SubType(field) = field.type
    BY <1>3 DEF Values, Nested, SubType
  <2>. QED BY <1>3, <2>1 DEF Value, Deep
<1>4. CASE field.kind = "messages"
  <2>. DEFINE d == default_instance(field.type)
  <2>1. v \in {<<x, d>> : x \in Inner(field.type)} /\ Nested(field, v) = ToSet(v) /\ SubType(field) = field.type
    BY <1>4 DEF Values, Nested, SubType
  <2>2. d \in Inner(field.type)
    BY DEF Inner
  <2>. HIDE DEF d
  <2>3. PICK x \in Inner(field.type) : v = <<x, d>>
    BY <2>1
  <2>4. v \in Seq({x, d}) /\ ToSet(v) = {x, d} /\ v # << >>
    BY <2>3 DEF ToSet
  <2>5. Value(field, v, Nested(field, v))
    BY <1>4, <2>1, <2>4 DEF Value
  <2>. QED BY <1>4, <2>1, <2>2, <2>3, <2>4, <2>5 DEF Deep
<1>5. CASE field.kind \in {"repeated", "packed"}
  <2>1. v \in {<<Zero>>, <<a, Zero>>} /\ Nested(field, v) = {}
    BY <1>5 DEF Values, Nested
  <2>2. v \in Seq(Raw) /\ v # << >>
    <3>1. <<Zero>> \in Seq(Raw) /\ <<a, Zero>> \in Seq(Raw) /\ <<Zero>> # << >> /\ <<a, Zero>> # << >>
      BY <1>1
    <3>. QED BY <2>1, <3>1
  <2>. QED BY <1>5, <2>1, <2>2 DEF Value
<1>6. CASE field.kind = "map"
  <2>. DEFINE value == ours[field.type].value
  <2>1. SubType(field) = value.type
    BY <1>6 DEF SubType
  <2>2. Nested(field, v) = IF value.kind = "message" THEN {v[k] : k \in DOMAIN v} ELSE {}
    BY <1>6 DEF Nested
  <2>3. CASE value.kind = "message"
    <3>1. PICK x \in Inner(value.type) : v = [k \in {Zero} |-> x]
      BY <1>6, <2>3 DEF Values
    <3>2. DOMAIN v = {Zero} /\ v[Zero] = x /\ v = [k \in DOMAIN v |-> v[k]]
      BY <3>1
    <3>3. Nested(field, v) = {x}
      BY <2>2, <2>3, <3>2
    <3>. DEFINE X == Nested(field, v)
    <3>. HIDE DEF X
    <3>5. IsFiniteSet(DOMAIN v) /\ DOMAIN v # {} /\ DOMAIN v \subseteq Raw
      BY <1>1, <3>2, FS_Singleton
    <3>6. \A k \in DOMAIN v : v[k] \in EntryValues(ours[field.type], X)
      BY <2>3, <3>2, <3>3 DEF EntryValues, X
    <3>7. Value(field, v, X)
      <4>. HIDE DEF value
      <4>. QED BY <1>6, <3>2, <3>5, <3>6 DEF Value
    <3>4. Value(field, v, Nested(field, v))
      BY <3>7 DEF X
    <3>. QED BY <1>6, <2>1, <2>3, <3>3, <3>4 DEF Deep
  <2>4. CASE value.kind # "message"
    <3>1. v \in {[k \in {a} |-> Zero], [k \in {a, Zero} |-> IF k = a THEN Zero ELSE a]}
      BY <1>6, <2>4 DEF Values
    <3>2. /\ DOMAIN v \in {{a}, {a, Zero}} /\ v = [k \in DOMAIN v |-> v[k]]
          /\ \A k \in DOMAIN v : v[k] \in Raw
      BY <1>1, <3>1
    <3>3. IsFiniteSet(DOMAIN v)
      <4>1. IsFiniteSet({a})
        BY FS_Singleton
      <4>2. IsFiniteSet({a} \cup {Zero})
        BY <4>1, FS_AddElement
      <4>3. {a} \cup {Zero} = {a, Zero}
        OBVIOUS
      <4>. QED BY <3>2, <4>1, <4>2, <4>3
    <3>4. Value(field, v, Nested(field, v))
      BY <1>1, <1>6, <2>4, <3>2, <3>3 DEF Value, EntryValues
    <3>. QED BY <2>2, <2>4, <3>4
  <2>. QED BY <2>3, <2>4
<1>. QED BY <1>2, <1>3, <1>4, <1>5, <1>6 DEF FieldType

\* The writer's message is made of those, to begin with and when a field is set.
LEMMA SourceBegins ==
    ASSUME NEW x, x = default_instance(type) PROVE SourceMade(x)
<1>1. x = Msg(type, << >>, << >>)
  BY DEF default_instance, Msg, Nothing
<1>2. x.fields = << >> /\ x = Msg(type, x.fields, << >>)
  BY <1>1, MsgFields
<1>3. DOMAIN x.fields = {} /\ x.fields = [f \in DOMAIN x.fields |-> x.fields[f]]
  BY <1>2, EmptySeq
<1>. QED BY <1>2, <1>3, FS_EmptySet DEF Made, SourceMade

\* With a field set it is still one that a writer makes.
LEMMA SourceSet ==
    ASSUME Bound, SourceMade(source), NEW f \in DOMAIN theirs[type], NEW v \in Values(theirs[type][f]),
           NEW x, x = With(source, f, v)
    PROVE  SourceMade(x)
<1>. DEFINE field == theirs[type][f]
            F == Assign(source.fields, f, v)
<1>1. type \in Inside
  BY Levels
<1>2. field \in FieldType
  BY <1>1, FieldsGood DEF GoodField
<1>3. /\ Value(field, v, Nested(field, v))
      /\ \A y \in Nested(field, v) : InnerMade(y, SubType(field))
  <2>1. /\ Value(field, v, Nested(field, v))
        /\ \A y \in Nested(field, v) : /\ y \in Inner(SubType(field)) /\ field.kind \in Deep
                                       /\ field.kind # "map" \/ ours[field.type].value.kind = "message"
    BY <1>2, ValuesMade
  <2>2. ASSUME NEW y \in Nested(field, v) PROVE InnerMade(y, SubType(field))
    <3>1. SubType(field) \in Inside
      BY <2>1, <2>2, SubTypes
    <3>. QED BY <2>1, <2>2, <3>1, InnersMade
  <2>. QED BY <2>1, <2>2
<1>4. /\ source = Msg(type, source.fields, << >>) /\ IsFiniteSet(DOMAIN source.fields)
      /\ DOMAIN source.fields \subseteq DOMAIN theirs[type]
      /\ \A g \in DOMAIN source.fields :
            /\ Value(theirs[type][g], source.fields[g], Nested(theirs[type][g], source.fields[g]))
            /\ \A y \in Nested(theirs[type][g], source.fields[g]) : InnerMade(y, SubType(theirs[type][g]))
  BY DEF SourceMade, Made
<1>5. x = Msg(type, F, << >>)
  <2>. DEFINE S == source.fields
  <2>. HIDE DEF S
  <2>1. source = Msg(type, S, << >>)
    BY <1>4 DEF S
  <2>2. With(Msg(type, S, << >>), f, v) = Msg(type, Assign(S, f, v), << >>)
    BY MsgFields
  <2>. QED BY <2>1, <2>2 DEF S
<1>6. /\ DOMAIN F = DOMAIN source.fields \cup {f} /\ F[f] = v /\ F = [g \in DOMAIN F |-> F[g]]
      /\ \A g \in DOMAIN source.fields : g # f => F[g] = source.fields[g]
  BY DEF Assign
<1>. HIDE DEF F
<1>7. x.fields = F /\ x = Msg(type, x.fields, << >>)
  BY <1>5, MsgFields
<1>8. IsFiniteSet(DOMAIN F) /\ DOMAIN F \subseteq DOMAIN theirs[type]
  BY <1>4, <1>6, FS_AddElement
<1>9. \A g \in DOMAIN F :
         /\ Value(theirs[type][g], F[g], Nested(theirs[type][g], F[g]))
         /\ \A y \in Nested(theirs[type][g], F[g]) : InnerMade(y, SubType(theirs[type][g]))
  <2>. SUFFICES ASSUME NEW g \in DOMAIN F
                PROVE  /\ Value(theirs[type][g], F[g], Nested(theirs[type][g], F[g]))
                       /\ \A y \in Nested(theirs[type][g], F[g]) : InnerMade(y, SubType(theirs[type][g]))
    OBVIOUS
  <2>1. CASE g = f
    BY <1>3, <1>6, <2>1
  <2>2. CASE g # f
    BY <1>4, <1>6, <2>2
  <2>. QED BY <2>1, <2>2
<1>. QED BY <1>6, <1>7, <1>8, <1>9 DEF SourceMade, Made

\* What a relay may lack.
LEMMA LacksAllowed ==
    ASSUME Bound, SourceMade(source), NEW L \in SUBSET AllSet(0, source)
    PROVE  Allowed(L) /\ \A p \in L : p[1] \in DOMAIN ours
<1>1. /\ type \in Types /\ type \in DOMAIN theirs /\ DOMAIN theirs \subseteq DOMAIN ours
      /\ Inside \subseteq DOMAIN theirs /\ type \in Inside
      /\ \A t \in DOMAIN theirs : theirs[t] = Writers[t] /\ t \in DOMAIN Schema
  BY Levels DEF Bound
<1>2. /\ source.type = type /\ DOMAIN source.fields \subseteq DOMAIN theirs[type]
      /\ \A f \in DOMAIN source.fields : \A y \in Nested(theirs[type][f], source.fields[f]) :
            InnerMade(y, SubType(theirs[type][f]))
  <2>1. source = Msg(type, source.fields, << >>)
    BY DEF SourceMade, Made
  <2>2. source.type = type
    BY <2>1, MsgFields
  <2>. QED BY <2>2 DEF SourceMade, Made
<1>3. ASSUME NEW p \in L
      PROVE  /\ p[1] \in DOMAIN ours
             /\ \/ p[1] \in Types
                \/ \E s \in DOMAIN Schema : \E g \in DOMAIN Writers[s] :
                      Writers[s][g].kind \in {"message", "messages"} /\ Writers[s][g].type = p[1]
  <2>1. PICK x \in Parts(0, source) \cup {source} : p[1] = x.type
    BY <1>3 DEF AllSet
  <2>2. CASE x = source
    BY <1>1, <1>2, <2>1, <2>2
  <2>3. CASE x \in Parts(0, source)
    <3>1. PICK f \in DOMAIN source.fields : x \in Nested(theirs[type][f], source.fields[f])
      BY <1>2, <2>3 DEF Parts, FieldsOf
    <3>. DEFINE field == theirs[type][f]
    <3>2. f \in DOMAIN theirs[type] /\ InnerMade(x, SubType(field))
      BY <1>2, <3>1
    <3>3. x.type = SubType(field)
      <4>1. x = Msg(SubType(field), x.fields, << >>)
        BY <3>2 DEF InnerMade, Made
      <4>. QED BY <4>1, MsgFields
    <3>4. /\ field.kind \in Deep
          /\ field.kind # "map" \/ ours[field.type].value.kind = "message"
      BY <3>1 DEF Nested, Deep
    <3>5. SubType(field) \in DOMAIN ours
      BY <1>1, <3>2, <3>4, SubTypes
    <3>6. CASE field.kind = "map"
      <4>. DEFINE e == field.type
      <4>1. /\ e \in DOMAIN theirs /\ theirs[e] = ours[e] /\ GoodEntry(ours[e])
        BY <1>1, <3>2, <3>6, EntryIs
      <4>2. "value" \in DOMAIN ours[e]
        BY <4>1 DEF GoodEntry, IsEntry
      <4>3. e \in DOMAIN Schema /\ "value" \in DOMAIN Writers[e] /\ Writers[e]["value"] = ours[e].value
        BY <1>1, <4>1, <4>2
      <4>4. SubType(field) = ours[e].value.type
        BY <3>6 DEF SubType
      <4>. QED BY <2>1, <3>3, <3>4, <3>5, <3>6, <4>3, <4>4
    <3>7. CASE field.kind # "map"
      <4>1. SubType(field) = field.type /\ field.kind \in {"message", "messages"}
        BY <3>4, <3>7 DEF SubType, Deep
      <4>2. type \in DOMAIN Schema /\ f \in DOMAIN Writers[type] /\ Writers[type][f] = field
        BY <1>1, <3>2
      <4>. QED BY <2>1, <3>3, <3>5, <4>1, <4>2
    <3>. QED BY <3>6, <3>7
  <2>. QED BY <2>1, <2>2, <2>3
<1>. QED BY <1>3 DEF Allowed

-----------------------------------------------------------------------------
(***************************************************************************)
(* The inductive invariant                                                 *)
(***************************************************************************)
Idle == lacks = {} /\ stream = << >> /\ pos = 1 /\ stack = << >> /\ ~broken

IInv ==
    /\ Bound /\ SourceMade(source)
    /\ Allowed(lacks) /\ \A p \in lacks : p[1] \in DOMAIN ours
    /\ hop \in 0 .. 2 /\ errors \in 0 .. MaxErrors /\ broken \in BOOLEAN
    /\ hop = 0 => Idle
    /\ hop # 0 => Reading(lacks, hop, stream, pos, stack, broken)

\* At first the invariant holds.
LEMMA InitIInv == Init => IInv
<1>. SUFFICES ASSUME Init PROVE IInv
  OBVIOUS
<1>1. Bound
  BY DEF Init, Bound, Writers
<1>2. SourceMade(source)
  BY SourceBegins DEF Init
<1>3. Allowed(lacks) /\ \A p \in lacks : p[1] \in DOMAIN ours
  BY DEF Init, Allowed
<1>4. hop \in 0 .. 2 /\ errors \in 0 .. MaxErrors /\ broken \in BOOLEAN /\ hop = 0
  <2>1. hop = 0 /\ errors = 0 /\ broken = FALSE
    BY DEF Init
  <2>2. 0 \in 0 .. 2 /\ 0 \in 0 .. MaxErrors
    BY WireAssumption
  <2>3. broken \in BOOLEAN
    BY <2>1
  <2>. QED BY <2>1, <2>2, <2>3
<1>5. Idle
  BY DEF Init, Idle, Nothing
<1>. QED BY <1>1, <1>2, <1>3, <1>4, <1>5 DEF IInv

\* What is known of a program that reads.
LEMMA Hops ==
    ASSUME IInv
    PROVE  /\ hop = 0 => stack = << >> /\ ~broken /\ stream = << >>
           /\ hop > 0 => hop \in {1, 2}
           /\ hop \in {0, 1, 2}
           /\ hop \in {1, 2} => Reading(lacks, hop, stream, pos, stack, broken)
<1>1. hop \in {0, 1, 2}
  BY DEF IInv
<1>2. hop = 0 => Idle
  BY DEF IInv
<1>3. hop \in {1, 2} => hop # 0
  OBVIOUS
<1>. QED BY <1>1, <1>2, <1>3 DEF IInv, Idle

\* It stays so when the program reads on.
LEMMA ReadsOn ==
    ASSUME IInv, Stays, source' = source,
           lacks' = lacks \/ (Allowed(lacks') /\ \A p \in lacks' : p[1] \in DOMAIN ours),
           hop' \in {1, 2}, errors' \in 0 .. MaxErrors, broken' \in BOOLEAN,
           Reading(lacks', hop', stream', pos', stack', broken')
    PROVE  IInv'
<1>1. Bound' /\ SourceMade(source)'
  BY StaysMade DEF IInv
<1>2. Allowed(lacks)' /\ (\A p \in lacks : p[1] \in DOMAIN ours)'
  <2>1. Allowed(lacks') /\ \A p \in lacks' : p[1] \in DOMAIN ours
    BY DEF IInv
  <2>2. Allowed(lacks)'
    BY <2>1, StaysMade
  <2>. QED BY <2>1, <2>2 DEF Stays
<1>3. Reading(lacks, hop, stream, pos, stack, broken)'
  BY StaysReading
<1>4. (hop \in 0 .. 2 /\ hop # 0)'
  OBVIOUS
<1>. QED BY <1>1, <1>2, <1>3, <1>4 DEF IInv

\* SetField keeps it: the message stays one whose way is known.
LEMMA SetFieldIInv ==
    ASSUME IInv, NEW f \in DOMAIN FieldsOf(0, type), SetField(f)
    PROVE  IInv'
<1>1. Stays /\ hop = 0 /\ hop' = 0 /\ lacks' = lacks /\ errors' = errors
      /\ broken' = broken /\ stream' = stream /\ pos' = pos /\ stack' = stack
  BY DEF SetField, Stays, reading
<1>2. Bound /\ SourceMade(source)
  BY DEF IInv
<1>3. f \in DOMAIN theirs[type]
  BY DEF FieldsOf
<1>4. PICK v \in Values(theirs[type][f]) : source' = With(source, f, v)
  BY DEF SetField, FieldsOf
<1>5. SourceMade(source')
  BY <1>2, <1>3, <1>4, SourceSet
<1>6. Bound' /\ SourceMade(source)'
  BY <1>1, <1>2, <1>5, StaysMade
<1>7. Allowed(lacks)' /\ (\A p \in lacks : p[1] \in DOMAIN ours)'
  <2>1. Allowed(lacks') /\ \A p \in lacks' : p[1] \in DOMAIN ours
    BY <1>1 DEF IInv
  <2>2. Allowed(lacks)'
    BY <1>1, <2>1, StaysMade
  <2>. QED BY <1>1, <2>1, <2>2 DEF Stays
<1>8. Idle'
  BY <1>1 DEF IInv, Idle
<1>. QED BY <1>1, <1>6, <1>7, <1>8 DEF IInv

\* Send begins with the way of the message (SourceGoes).
LEMMA SendIInv ==
    ASSUME IInv, Send
    PROVE  IInv'
<1>1. Stays /\ source' = source /\ errors' = errors /\ broken' = broken /\ hop = 0 /\ hop' = 1
      /\ stream' = Written(0, source) /\ pos' = 1 /\ stack' = << >>
  BY DEF Send, Pass, Stays, Nothing
<1>2. lacks' \in SUBSET AllSet(0, source)
  BY DEF Send
<1>3. Bound /\ SourceMade(source) /\ Idle
  BY <1>1 DEF IInv
<1>4. PICK L : L = lacks'
  OBVIOUS
<1>5. Allowed(L) /\ \A p \in L : p[1] \in DOMAIN ours
  BY <1>2, <1>3, <1>4, LacksAllowed
<1>6. PICK G1, G2 : Sent(L, G1, G2)
  BY <1>3, <1>5, SourceGoes
<1>7. PICK c : c = stream'
  OBVIOUS
<1>8. Goal(L, 1, c, G1)
  <2>1. 1 # 2
    OBVIOUS
  <2>. QED BY <1>1, <1>6, <1>7, <2>1 DEF Sent, Goal
<1>9. c \in Seq(Part)
  BY <1>8, ReadsUnfold DEF Goal
<1>10. 1 \in 1 .. Len(c) + 1
  BY <1>9, LenProperties
<1>11. Reading(L, 1, c, 1, << >>, FALSE)
  BY <1>8, <1>9, <1>10 DEF Reading
<1>12. ~broken' /\ broken' = FALSE
  BY <1>1, <1>3 DEF IInv, Idle
<1>13. Reading(lacks', hop', stream', pos', stack', broken')
  BY <1>1, <1>4, <1>7, <1>11, <1>12
<1>14. errors' \in 0 .. MaxErrors /\ broken' \in BOOLEAN /\ hop' \in {1, 2}
  BY <1>1, <1>12 DEF IInv
<1>15. Allowed(lacks') /\ \A p \in lacks' : p[1] \in DOMAIN ours
  BY <1>4, <1>5
<1>. QED BY <1>1, <1>13, <1>14, <1>15, ReadsOn

\* A message has been read when its outermost call is at the end.
LEMMA DoneIs ==
    ASSUME IInv, Done
    PROVE  Goal(lacks, hop, stream, Root) /\ hop \in {1, 2} /\ Root.type = type
<1>1. Reads /\ Len(stack) = 1 /\ pos > Len(stream)
  BY DEF Done
<1>2. hop \in {1, 2} /\ Reading(lacks, hop, stream, pos, stack, broken)
  BY <1>1, Hops DEF Reads
<1>3. Calls(stream, stack, pos) /\ Going(lacks, hop, stream, stack, pos)
  BY <1>1, <1>2, ReadingIs
<1>4. PICK n : Goal(lacks, hop, stream, n[1]) /\ Leads(Known(lacks, hop), stream, stack, pos, n)
  BY <1>3 DEF Going
<1>5. 1 \in 1 .. Len(stack) /\ stack[1].end = Len(stream) /\ stream \in Seq(Part) /\ Root.type = type
  BY <1>1, <1>3 DEF Calls, Shape, Root
<1>6. pos \in Nat \ {0} /\ pos <= Len(stream) + 1 /\ Len(stream) \in Nat
  BY <1>1, <1>3, <1>5, ShapeTop DEF Calls
<1>7. SubSeq(stream, pos, Len(stream)) = << >>
  <2>. DEFINE k == Len(stream)
  <2>1. pos = k + 1
    BY <1>1, <1>6
  <2>. HIDE DEF k, Part
  <2>. QED BY <1>5, <1>6, <2>1, SubNone DEF k
<1>8. From(stack, 1, pos) = pos /\ Now(stack, 1, n) = Root
  BY <1>1 DEF From, Now, Root
<1>9. ReadsTo(Known(lacks, hop), << >>, WayOf(stack[1]), Root, n[1])
  BY <1>4, <1>5, <1>7, <1>8 DEF Leads
<1>10. n[1] = Root
  BY <1>9, NothingReads
<1>. QED BY <1>2, <1>4, <1>5, <1>10

\* Forward goes on with what the relay has read (DoneIs).
LEMMA ForwardIInv ==
    ASSUME IInv, Forward
    PROVE  IInv'
<1>1. Stays /\ source' = source /\ errors' = errors /\ broken' = broken /\ hop = 1 /\ hop' = 2
      /\ stream' = Written(1, Root) /\ pos' = 1 /\ stack' = << >> /\ lacks' = lacks /\ Done
  BY DEF Forward, Pass, Stays, Nothing
<1>2. Goal(lacks, 1, stream, Root)
  BY <1>1, DoneIs
<1>3. PICK G2 : Forwarded(lacks, Root, G2)
  BY <1>2 DEF Goal
<1>4. PICK c : c = stream'
  OBVIOUS
<1>5. Goal(lacks, 2, c, G2)
  <2>1. 1 # 2
    OBVIOUS
  <2>. QED BY <1>1, <1>3, <1>4, <2>1 DEF Forwarded, Goal
<1>6. c \in Seq(Part)
  BY <1>5, ReadsUnfold DEF Goal
<1>7. 1 \in 1 .. Len(c) + 1
  BY <1>6, LenProperties
<1>8. Reading(lacks, 2, c, 1, << >>, FALSE)
  BY <1>5, <1>6, <1>7 DEF Reading
<1>9. broken' = FALSE
  BY <1>1 DEF Done, Reads, IInv
<1>10. Reading(lacks', hop', stream', pos', stack', broken')
  BY <1>1, <1>4, <1>8, <1>9
<1>11. errors' \in 0 .. MaxErrors /\ broken' \in BOOLEAN /\ hop' \in {1, 2}
  BY <1>1, <1>9 DEF IInv
<1>. QED BY <1>1, <1>10, <1>11, ReadsOn

\* A message begins, for New and for Retry.
LEMMA BeginIInv ==
    ASSUME IInv, hop \in {1, 2}, Begin(default_instance(type)),
           UNCHANGED <<type, earlier, theirs, ours, source, lacks, hop, stream, errors>>
    PROVE  IInv'
<1>1. Stays /\ source' = source /\ lacks' = lacks /\ hop' = hop /\ stream' = stream /\ errors' = errors
  BY DEF Stays
<1>2. pos' = 1 /\ broken' = FALSE /\ stack' = Started(stream)
  BY DEF Begin, Started
<1>3. Reading(lacks, hop, stream, pos, stack, broken)
  BY Hops
<1>4. stream \in Seq(Part) /\ \E G : Goal(lacks, hop, stream, G)
  BY <1>3 DEF Reading
<1>5. Reading(lacks, hop, stream, 1, Started(stream), FALSE)
  BY <1>4, BeginStep
<1>6. Reading(lacks', hop', stream', pos', stack', broken')
  BY <1>1, <1>2, <1>5
<1>7. errors' \in 0 .. MaxErrors /\ broken' \in BOOLEAN /\ hop' \in {1, 2}
  BY <1>1, <1>2 DEF IInv
<1>. QED BY <1>1, <1>6, <1>7, ReadsOn

\* Retry clears the message, which is then as new.
LEMMA RetryIInv ==
    ASSUME IInv, Retry
    PROVE  IInv'
<1>1. broken
  BY DEF Retry
<1>2. hop \in {1, 2} /\ Reading(lacks, hop, stream, pos, stack, broken)
  BY <1>1, Hops
<1>3. Calls(stream, stack, pos)
  BY <1>1, <1>2 DEF Reading
<1>4. Root.type = type
  BY <1>3 DEF Calls, Shape, Root
<1>5. Begin(default_instance(type))
  BY <1>4 DEF Retry, clear
<1>. QED BY <1>2, <1>5, BeginIInv DEF Retry

\* BreakOff ends all calls but the outermost, whose message has no more than was sent.
LEMMA BreakOffIInv ==
    ASSUME IInv, BreakOff
    PROVE  IInv'
<1>1. Stays /\ source' = source /\ lacks' = lacks /\ hop' = hop /\ stream' = stream /\ pos' = pos
      /\ stack' = <<stack[1]>> /\ broken' = TRUE
  BY DEF BreakOff, Stays
<1>2. Reads /\ hop \in {1, 2} /\ Reading(lacks, hop, stream, pos, stack, broken)
  BY Hops DEF BreakOff, Reads
<1>3. stack # << >> /\ Calls(stream, stack, pos)
  BY <1>2, ReadingIs
<1>4. stream \in Seq(Part) /\ pos \in 1 .. Len(stream) + 1 /\ (\E G : Goal(lacks, hop, stream, G))
      /\ Never(stream, stack)
  BY <1>2, <1>3 DEF Reading
<1>. DEFINE frame == stack[1]
            one == <<frame>>
<1>5. IsFrame(frame) /\ FrameOK(frame) /\ frame.end = Len(stream) /\ ~frame.entry /\ frame.message.type = type
  <2>1. 1 \in 1 .. Len(stack)
    BY <1>3, ShapeTop DEF Calls
  <2>. QED BY <1>3, <2>1 DEF Calls, Shape
<1>. HIDE DEF frame
<1>6. one \in Seq({frame}) /\ Len(one) = 1 /\ one[1] = frame /\ one # << >>
  OBVIOUS
<1>. HIDE DEF one
<1>7. Calls(stream, one, pos)
  <2>1. \A i \in 1 .. 1 : i = 1
    OBVIOUS
  <2>2. \A i \in 1 .. 1 - 1 : FALSE
    OBVIOUS
  <2>3. Len(stream) \in Nat /\ Len(stream) <= Len(stream) /\ pos <= Len(stream) + 1
    BY <1>4, LenProperties
  <2>4. Shape(stream, one, pos)
    BY <1>4, <1>5, <1>6, <2>1, <2>2, <2>3 DEF Shape
  <2>. QED BY <1>5, <1>6, <2>1, <2>2, <2>4 DEF Calls
<1>8. Never(stream, one)
  BY <1>4, <1>6 DEF Never, frame
<1>9. Reading(lacks, hop, stream, pos, one, TRUE)
  BY <1>4, <1>6, <1>7, <1>8 DEF Reading
<1>10. Reading(lacks', hop', stream', pos', stack', broken')
  BY <1>1, <1>9 DEF one, frame
<1>11. errors' \in 0 .. MaxErrors
  <2>1. errors \in Nat /\ MaxErrors \in Nat /\ errors < MaxErrors /\ errors' = errors + 1
    BY WireAssumption DEF IInv, BreakOff
  <2>. QED BY <2>1
<1>12. broken' \in BOOLEAN /\ hop' \in {1, 2}
  BY <1>1, <1>2
<1>. QED BY <1>1, <1>10, <1>11, <1>12, ReadsOn

\* merge_from keeps it.
LEMMA MergeIInv ==
    ASSUME IInv, merge_from
    PROVE  IInv'
<1>1. Stays /\ source' = source /\ lacks' = lacks /\ hop' = hop /\ stream' = stream /\ errors' = errors
      /\ broken' = broken /\ Reads
  BY DEF merge_from, MergeField, EndNested, read_unknown_or_skip_group, AtTag, Stays
<1>2. hop \in {1, 2} /\ Reading(lacks, hop, stream, pos, stack, broken)
  BY <1>1, Hops DEF Reads
<1>3. Reading(lacks, hop, stream, pos', stack', FALSE)
  BY <1>2, MergeReads
<1>4. broken' = FALSE
  BY <1>1 DEF Reads, IInv
<1>5. Reading(lacks', hop', stream', pos', stack', broken')
  BY <1>1, <1>3, <1>4
<1>6. errors' \in 0 .. MaxErrors /\ broken' \in BOOLEAN /\ hop' \in {1, 2}
  BY <1>1, <1>2, <1>4 DEF IInv
<1>. QED BY <1>1, <1>5, <1>6, ReadsOn

\* So does a step of nothing.
LEMMA StutterIInv ==
    ASSUME IInv, UNCHANGED vars
    PROVE  IInv'
<1>1. /\ Stays /\ source' = source /\ lacks' = lacks /\ hop' = hop /\ stream' = stream /\ errors' = errors
      /\ broken' = broken /\ pos' = pos /\ stack' = stack
  BY DEF vars, reading, Stays
<1>2. CASE hop = 0
  <2>1. Bound' /\ SourceMade(source)'
    BY <1>1, StaysMade DEF IInv
  <2>2. Allowed(lacks)' /\ (\A p \in lacks : p[1] \in DOMAIN ours)'
    <3>1. Allowed(lacks') /\ \A p \in lacks' : p[1] \in DOMAIN ours
      BY <1>1 DEF IInv
    <3>2. Allowed(lacks)'
      BY <1>1, <3>1, StaysMade
    <3>. QED BY <1>1, <3>1, <3>2 DEF Stays
  <2>3. Idle'
    BY <1>1, <1>2 DEF IInv, Idle
  <2>. QED BY <1>1, <1>2, <2>1, <2>2, <2>3 DEF IInv
<1>3. CASE hop # 0
  <2>1. Reading(lacks', hop', stream', pos', stack', broken') /\ hop' \in {1, 2}
    BY <1>1, <1>3, Hops DEF IInv
  <2>2. errors' \in 0 .. MaxErrors /\ broken' \in BOOLEAN
    BY <1>1 DEF IInv
  <2>. QED BY <1>1, <2>1, <2>2, ReadsOn
<1>. QED BY <1>2, <1>3

\* Every step keeps the invariant.
LEMMA NextIInv == IInv /\ [Next]_vars => IInv'
<1>. SUFFICES ASSUME IInv, [Next]_vars PROVE IInv'
  OBVIOUS
<1>1. ASSUME NEW f \in DOMAIN FieldsOf(0, type), SetField(f) PROVE IInv'
  BY <1>1, SetFieldIInv
<1>2. CASE Send
  BY <1>2, SendIInv
<1>3. CASE New
  <2>1. hop \in {1, 2}
    BY <1>3, Hops DEF New
  <2>. QED BY <1>3, <2>1, BeginIInv DEF New
<1>4. CASE merge_from
  BY <1>4, MergeIInv
<1>5. CASE BreakOff
  BY <1>5, BreakOffIInv
<1>6. CASE Retry
  BY <1>6, RetryIInv
<1>7. CASE Forward
  BY <1>7, ForwardIInv
<1>8. CASE UNCHANGED vars
  BY <1>8, StutterIInv
<1>. QED BY <1>1, <1>2, <1>3, <1>4, <1>5, <1>6, <1>7, <1>8 DEF Next

\* The bindings, what is written and every call of merge_from fit, in every state: what
\* has been read and what is yet to be read make what was sent.
THEOREM Invariant == Spec => []IInv
  BY InitIInv, NextIInv, PTL DEF Spec

-----------------------------------------------------------------------------
(***************************************************************************)
(* What follows                                                            *)
(***************************************************************************)
LEMMA IsTypeOK == IInv => TypeOK
<1>. SUFFICES ASSUME IInv PROVE TypeOK
  OBVIOUS
<1>1. type \in Types /\ earlier \in BOOLEAN
  BY DEF IInv, Bound
<1>2. source.type = type /\ DOMAIN source.fields \subseteq DOMAIN FieldsOf(0, type)
  <2>1. Made(source, type)
    BY DEF IInv, SourceMade
  <2>2. source = Msg(type, source.fields, << >>) /\ DOMAIN source.fields \subseteq DOMAIN theirs[type]
    BY <2>1 DEF Made
  <2>3. source.type = type
    BY <2>2, MsgFields
  <2>. QED BY <2>2, <2>3 DEF FieldsOf
<1>3. (\A p \in lacks : p[1] \in DOMAIN ours) /\ hop \in 0 .. 2
      /\ broken \in BOOLEAN /\ errors \in 0 .. MaxErrors
  BY DEF IInv
<1>4. stream \in Seq(Part) /\ pos \in 1 .. Len(stream) + 1
  <2>1. CASE hop = 0
    BY <2>1, EmptySeq DEF IInv, Idle
  <2>2. CASE hop # 0
    BY <2>2 DEF IInv, Reading
  <2>. QED BY <2>1, <2>2
<1>5. \A i \in DOMAIN stream : stream[i] \in Part
  BY <1>4, ElementOfSeq, LenProperties
<1>6. \A i \in DOMAIN stack : FrameOK(stack[i])
  <2>1. CASE stack = << >>
    BY <2>1, EmptySeq
  <2>2. CASE stack # << >>
    <3>1. hop # 0
      BY <2>2 DEF IInv, Idle
    <3>2. Calls(stream, stack, pos)
      BY <2>2, <3>1 DEF IInv, Reading
    <3>3. DOMAIN stack = 1 .. Len(stack)
      BY <3>2, ShapeTop DEF Calls
    <3>. QED BY <3>2, <3>3 DEF Calls
  <2>. QED BY <2>1, <2>2
<1>7. \A i \in DOMAIN stack :
          LET m == stack[i].message IN DOMAIN m.fields \subseteq DOMAIN ours[m.type]
  BY <1>6 DEF FrameOK
<1>. QED BY <1>1, <1>2, <1>3, <1>4, <1>5, <1>7 DEF TypeOK

\* Types: messages have fields of their types, streams are of parts, and what is
\* read is in the stream, whatever the relay lacks and wherever streams break off.
THEOREM TypesKept == Spec => []TypeOK
  BY Invariant, IsTypeOK, PTL

\* What the calls lead to begins with a tag, or there is nothing left.
LEMMA IsAligned == IInv => Aligned
<1>. SUFFICES ASSUME IInv, Reads
              PROVE  pos <= Top.end + 1 /\ (pos > Top.end \/ "num" \in DOMAIN stream[pos])
  BY DEF Aligned
<1>1. hop \in {1, 2} /\ Reading(lacks, hop, stream, pos, stack, broken)
  BY Hops DEF Reads
<1>2. Calls(stream, stack, pos) /\ Going(lacks, hop, stream, stack, pos)
  BY <1>1, ReadingIs
<1>3. Shape(stream, stack, pos)
  BY <1>2 DEF Calls
<1>. DEFINE e == stack[Len(stack)].end
<1>4. pos \in Nat /\ e \in Nat /\ pos <= e + 1 /\ Top.end = e
  <2>1. pos \in Nat \ {0} /\ Len(stack) \in 1 .. Len(stack) /\ pos <= e + 1
    BY <1>3, ShapeTop
  <2>2. e \in Nat
    BY <1>3, <2>1, ShapeTop
  <2>. QED BY <2>1, <2>2 DEF Top
<1>5. ASSUME pos <= e PROVE "num" \in DOMAIN stream[pos]
  <2>1. PICK n : Leads(Known(lacks, hop), stream, stack, pos, n)
    BY <1>2 DEF Going
  <2>2. \E tag, parts, rest :
            \/ \E x : PassesNext(Known(lacks, hop), stream, stack, pos, n, tag, parts, rest, x)
            \/ \E f, x : EntersNext(Known(lacks, hop), stream, stack, pos, n, tag, parts, rest, f, x)
    BY <1>3, <1>5, <2>1, TopReads
  <2>3. PICK tag, parts, rest : NextItem(stream, pos, e, tag, parts, rest)
    BY <2>2 DEF PassesNext, EntersNext
  <2>. QED BY <2>3 DEF NextItem, IsItem
<1>. HIDE DEF e
<1>6. pos <= e \/ pos > e
  BY <1>4
<1>. QED BY <1>4, <1>5, <1>6

\* Wherever a program reads it stands at a tag or at the end of what it is in: the
\* lengths that compute_size announces are those of what is written, of messages
\* and entries in messages too, and of what was read without being known.
THEOREM LengthsRight == Spec => []Aligned
  BY Invariant, IsAligned, PTL

\* With nothing left to read the goal is reached.
LEMMA IsNothingLost == IInv => NothingLost
<1>. SUFFICES ASSUME IInv, hop = 2, Done, ~earlier PROVE Root = source
  BY DEF NothingLost
<1>. QED BY DoneIs DEF Goal

\* What the reader has in the end is what was written, for every message of every
\* schema, every set of fields that the relay does not know, and wherever streams
\* broke off.
THEOREM NothingIsLost == Spec => []NothingLost
  BY Invariant, IsNothingLost, PTL

\* So it is for the relay.
LEMMA IsRelayReads == IInv => RelayReads
<1>. SUFFICES ASSUME IInv, hop = 1, Done, ~earlier
              PROVE  /\ Plain(Root) = Plain(source)
                     /\ \A f \in Plain(Root) : Root.fields[f] = source.fields[f]
  BY DEF RelayReads
<1>1. Goal(lacks, 1, stream, Root) /\ Root.type = type
  BY DoneIs
<1>2. PICK G2 : Forwarded(lacks, Root, G2)
  BY <1>1 DEF Goal
<1>3. Relayed(lacks, Root)
  BY <1>2 DEF Forwarded
<1>4. source.type = type
  <2>1. source = Msg(type, source.fields, << >>)
    BY DEF IInv, SourceMade, Made
  <2>. QED BY <2>1, MsgFields
<1>5. DOMAIN Root.fields = {f \in DOMAIN source.fields : <<type, f>> \notin lacks}
  BY <1>3 DEF Relayed
<1>6. \A f \in DOMAIN Root.fields : ours[type][f].kind \in Flat => Root.fields[f] = source.fields[f]
  BY <1>3 DEF Relayed
<1>7. Plain(Root) = Plain(source)
  BY <1>1, <1>4, <1>5 DEF Plain, Knows
<1>8. \A f \in Plain(Root) : f \in DOMAIN Root.fields /\ ours[type][f].kind \in Flat
  BY <1>1 DEF Plain, Flat
<1>. QED BY <1>6, <1>7, <1>8

\* A relay that does not know all fields has those it knows as they were written.
THEOREM RelayHasKnown == Spec => []RelayReads
  BY Invariant, IsRelayReads, PTL

\* That is part of the invariant.
LEMMA IsNeverMore == IInv => NeverMore
<1>. SUFFICES ASSUME IInv, stack # << >>, ~earlier
              PROVE  /\ \A f \in DOMAIN Root.fields :
                            ours[type][f].kind \in {"repeated", "packed", "messages"} =>
                                Len(Root.fields[f]) <= Len(source.fields[f])
                     /\ unknown_fields_size(Root.unknown) <= Len(stream)
  BY DEF NeverMore, Nothing
<1>1. hop # 0
  BY DEF IInv, Idle
<1>2. Never(stream, stack)
  BY <1>1 DEF IInv, Reading
<1>. QED BY <1>2 DEF Never, Lists, Root

\* A message whose stream broke off and that is read again has never more in its
\* lists, and never more that is unknown, than was sent.
THEOREM NothingTwice == Spec => []NeverMore
  BY Invariant, IsNeverMore, PTL

\* So is that every field of a message is fair.
LEMMA IsNotMisread == IInv => NotMisread
<1>. SUFFICES ASSUME IInv, earlier, stack # << >>, type # "NetworkDeviceList",
                     NEW m \in {Root} \cup Parts(hop, Root)
              PROVE  ~Misread(m)
  BY DEF NotMisread, Nothing
<1>1. hop # 0
  BY DEF IInv, Idle
<1>2. Calls(stream, stack, pos)
  BY <1>1 DEF IInv, Reading
<1>3. 1 \in 1 .. Len(stack) /\ ~stack[1].entry
  BY <1>2, ShapeTop DEF Calls, Shape
<1>4. Clean(Root) /\ \A y \in Parts(1, Root) : Clean(y)
  BY <1>2, <1>3 DEF Calls, FrameOK, Root
<1>5. Parts(hop, Root) = Parts(1, Root)
  BY <1>1 DEF Parts, FieldsOf
<1>6. Clean(m)
  BY <1>4, <1>5
<1>7. ASSUME NEW f \in DOMAIN m.fields, NEW g \in DOMAIN FieldsOf(0, m.type),
             FieldsOf(0, m.type)[g].num = ours[m.type][f].num
      PROVE  FieldsOf(0, m.type)[g] = ours[m.type][f]
  <2>1. Fair(m.type, f)
    BY <1>6 DEF Clean
  <2>. QED BY <1>7, <2>1 DEF Fair, FieldsOf
<1>. QED BY <1>7 DEF Misread

\* No program takes what an older one wrote for a field that has another type now.
THEOREM NoneMisread == Spec => []NotMisread
  BY Invariant, IsNotMisread, PTL
=============================================================================
