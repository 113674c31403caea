--------------------------- MODULE CollectionFacts ---------------------------
(***************************************************************************)
(* Facts about collections that the proofs of several modules need.        *)
(*                                                                         *)
(* Sums over finite sets: MapThenSumSet adds the values of a set up in an  *)
(* order of its own; SumOver names the same number with the values given   *)
(* as a function, and the lemmas say that the order does not matter.  The  *)
(* induction is over the subsets of a finite set: among those for which    *)
(* something fails there is a smallest one.                                *)
(*                                                                         *)
(* Sequences and the sets of their elements.                               *)
(***************************************************************************)
EXTENDS Integers, SequencesExt, FiniteSetTheorems, SequenceTheorems,
        WellFoundedInduction, TLAPS

Picked(s) == CHOOSE x \in s : TRUE

\* g holds the sums of f over the subsets of S.
IsSum(f, S, g) ==
    g = [s \in SUBSET S |->
           IF s = {} THEN 0 ELSE f[Picked(s)] + g[s \ {Picked(s)}]]

SumOver(f, S) == (CHOOSE g : IsSum(f, S, g))[S]

-----------------------------------------------------------------------------
\* What holds of a set if it holds of its proper subsets holds of every
\* subset of a finite set.
LEMMA SubsetInduction ==
  ASSUME NEW S, IsFiniteSet(S), NEW Good,
         \A T \in SUBSET S : (\A U \in SUBSET T : U # T => U \in Good) => T \in Good
  PROVE  \A T \in SUBSET S : T \in Good
<1> DEFINE bad == {T \in SUBSET S : T \notin Good}
<1> SUFFICES ASSUME bad # {} PROVE FALSE
  OBVIOUS
<1>1. bad \subseteq FiniteSubsetsOf(S)
  BY FS_Subset DEF FiniteSubsetsOf
<1>2. IsWellFoundedOn(StrictSubsetOrdering(S), FiniteSubsetsOf(S))
  BY FS_StrictSubsetOrderingWellFounded
<1> HIDE DEF bad
<1>3. PICK T \in bad : \A U \in bad : <<U, T>> \notin StrictSubsetOrdering(S)
  BY <1>1, <1>2, WFMin
<1>4. ASSUME NEW U \in SUBSET T, U # T PROVE U \in Good
  BY <1>3, <1>4 DEF bad, StrictSubsetOrdering
<1> QED
  BY <1>3, <1>4 DEF bad

LEMMA SumsAgree ==
  ASSUME NEW S, NEW T, IsFiniteSet(S), NEW f, NEW g, IsSum(f, S, g), NEW h, IsSum(f, T, h)
  PROVE  \A s \in SUBSET (S \cap T) : g[s] = h[s]
<1> DEFINE Good == {s \in SUBSET (S \cap T) : g[s] = h[s]}
<1>1. IsFiniteSet(S \cap T)
  BY FS_Intersection
<1>2. ASSUME NEW s \in SUBSET (S \cap T), \A u \in SUBSET s : u # s => u \in Good
      PROVE  s \in Good
  <2>1. CASE s = {}
    BY <2>1 DEF IsSum
  <2>2. CASE s # {}
    <3>1. Picked(s) \in s
      BY <2>2 DEF Picked
    <3>2. s \ {Picked(s)} \in Good
      BY <1>2, <3>1
    <3>3. /\ g[s] = f[Picked(s)] + g[s \ {Picked(s)}]
          /\ h[s] = f[Picked(s)] + h[s \ {Picked(s)}]
      BY <2>2 DEF IsSum
    <3> QED
      BY <3>2, <3>3
  <2> QED
    BY <2>1, <2>2
<1> HIDE DEF Good
<1>3. \A s \in SUBSET (S \cap T) : s \in Good
  BY <1>1, <1>2, SubsetInduction
<1> QED
  BY <1>3 DEF Good

\* The sums over the subsets of a finite set exist.
LEMMA SumsExist ==
  ASSUME NEW S, IsFiniteSet(S), NEW f
  PROVE  \A T \in SUBSET S : \E g : IsSum(f, T, g)
<1> DEFINE Good == {T \in SUBSET S : \E g : IsSum(f, T, g)}
<1>1. ASSUME NEW T \in SUBSET S, \A U \in SUBSET T : U # T => U \in Good
      PROVE  T \in Good
  <2> DEFINE rest == T \ {Picked(T)}
             g == [s \in SUBSET T |->
                     IF s # T THEN SumOver(f, s)
                     ELSE IF T = {} THEN 0 ELSE f[Picked(T)] + SumOver(f, rest)]
  <2>1. ASSUME NEW s \in SUBSET T, s # T
        PROVE  IsFiniteSet(s) /\ \E h : IsSum(f, s, h) /\ SumOver(f, s) = h[s]
    <3>1. \E h : IsSum(f, s, h)
      BY <1>1, <2>1
    <3> QED
      BY <2>1, <3>1, FS_Subset DEF SumOver
  <2>2. ASSUME NEW s \in SUBSET T, s # T, s # {}
        PROVE  SumOver(f, s) = f[Picked(s)] + SumOver(f, s \ {Picked(s)})
    <3> DEFINE r == s \ {Picked(s)}
    <3>1. Picked(s) \in s
      BY <2>2 DEF Picked
    <3>2. PICK h : IsSum(f, s, h) /\ SumOver(f, s) = h[s]
      BY <2>1, <2>2
    <3>3. r \in SUBSET T /\ r # T
      BY <3>1
    <3>4. PICK k : IsSum(f, r, k) /\ SumOver(f, r) = k[r]
      BY <2>1, <3>3
    <3>5. h[r] = k[r]
      BY <2>1, <2>2, <3>2, <3>4, SumsAgree
    <3>6. h[s] = f[Picked(s)] + h[r]
      BY <2>2, <3>2 DEF IsSum
    <3> QED
      BY <3>2, <3>4, <3>5, <3>6
  <2>3. ASSUME {} # T PROVE SumOver(f, {}) = 0
    <3>1. PICK h : IsSum(f, {}, h) /\ SumOver(f, {}) = h[{}]
      BY <2>1, <2>3
    <3> QED
      BY <3>1 DEF IsSum
  <2>4. ASSUME NEW s \in SUBSET T
        PROVE  g[s] = IF s = {} THEN 0 ELSE f[Picked(s)] + g[s \ {Picked(s)}]
    <3>1. CASE s = T /\ T # {}
      <4>1. Picked(T) \in T
        BY <3>1 DEF Picked
      <4>2. rest \in SUBSET T /\ rest # T
        BY <4>1
      <4> QED
        BY <3>1, <4>2
    <3>2. CASE s = T /\ T = {}
      BY <3>2
    <3>3. CASE s # T /\ s = {}
      BY <2>3, <3>3
    <3>4. CASE s # T /\ s # {}
      <4>1. Picked(s) \in s
        BY <3>4 DEF Picked
      <4>2. s \ {Picked(s)} \in SUBSET T /\ s \ {Picked(s)} # T
        BY <4>1
      <4> QED
        BY <2>2, <3>4, <4>2
    <3> QED
      BY <3>1, <3>2, <3>3, <3>4
  <2>5. IsSum(f, T, g)
    <3>1. g = [s \in SUBSET T |-> g[s]]
      OBVIOUS
    <3> HIDE DEF g
    <3> QED
      BY <2>4, <3>1 DEF IsSum
  <2> QED
    BY <2>5
<1> HIDE DEF Good
<1>2. \A T \in SUBSET S : T \in Good
  BY <1>1, SubsetInduction
<1> QED
  BY <1>2 DEF Good

\* What SumOver is: any function that holds the sums has it.
LEMMA SumOverIs ==
  ASSUME NEW S, IsFiniteSet(S), NEW f, NEW g, IsSum(f, S, g)
  PROVE  \A T \in SUBSET S : SumOver(f, T) = g[T]
<1> SUFFICES ASSUME NEW T \in SUBSET S PROVE SumOver(f, T) = g[T]
  OBVIOUS
<1>1. PICK h : IsSum(f, T, h) /\ SumOver(f, T) = h[T]
  BY SumsExist DEF SumOver
<1> QED
  BY <1>1, SumsAgree

LEMMA SumOverSteps ==
  ASSUME NEW S, IsFiniteSet(S), NEW f
  PROVE  /\ SumOver(f, {}) = 0
         /\ S # {} => /\ Picked(S) \in S
                      /\ SumOver(f, S) = f[Picked(S)] + SumOver(f, S \ {Picked(S)})
<1>1. PICK g : IsSum(f, S, g)
  BY SumsExist
<1>2. SumOver(f, {}) = g[{}] /\ SumOver(f, S) = g[S]
      /\ SumOver(f, S \ {Picked(S)}) = g[S \ {Picked(S)}]
  BY <1>1, SumOverIs
<1>3. g[{}] = 0
  BY <1>1 DEF IsSum
<1>4. S # {} => Picked(S) \in S /\ g[S] = f[Picked(S)] + g[S \ {Picked(S)}]
  BY <1>1 DEF IsSum, Picked
<1> QED
  BY <1>2, <1>3, <1>4

LEMMA SumIsInteger ==
  ASSUME NEW S, IsFiniteSet(S), NEW f, \A x \in S : f[x] \in Int
  PROVE  \A T \in SUBSET S : SumOver(f, T) \in Int
<1> DEFINE Good == {T \in SUBSET S : SumOver(f, T) \in Int}
<1>1. ASSUME NEW T \in SUBSET S, \A U \in SUBSET T : U # T => U \in Good
      PROVE  T \in Good
  <2>1. IsFiniteSet(T)
    BY FS_Subset
  <2>2. CASE T = {}
    <3>1. SumOver(f, {}) = 0
      BY SumOverSteps
    <3> QED
      BY <2>2, <3>1
  <2>3. CASE T # {}
    <3>1. Picked(T) \in T /\ SumOver(f, T) = f[Picked(T)] + SumOver(f, T \ {Picked(T)})
      BY <2>1, <2>3, SumOverSteps
    <3>2. T \ {Picked(T)} \in Good
      BY <1>1, <3>1
    <3>3. f[Picked(T)] \in Int
      BY <3>1
    <3> QED
      BY <3>1, <3>2, <3>3
  <2> QED
    BY <2>2, <2>3
<1> HIDE DEF Good
<1>2. \A T \in SUBSET S : T \in Good
  BY <1>1, SubsetInduction
<1> QED
  BY <1>2 DEF Good

\* The order does not matter: any element may be taken out first.
LEMMA SumWithout ==
  ASSUME NEW S, IsFiniteSet(S), NEW f, \A x \in S : f[x] \in Int
  PROVE  \A T \in SUBSET S : \A x \in T : SumOver(f, T) = f[x] + SumOver(f, T \ {x})
<1> DEFINE Good == {T \in SUBSET S : \A x \in T : SumOver(f, T) = f[x] + SumOver(f, T \ {x})}
<1>0. \A T \in SUBSET S : SumOver(f, T) \in Int
  BY SumIsInteger
<1>1. ASSUME NEW T \in SUBSET S, \A U \in SUBSET T : U # T => U \in Good
      PROVE  T \in Good
  <2> SUFFICES ASSUME NEW x \in T PROVE SumOver(f, T) = f[x] + SumOver(f, T \ {x})
    OBVIOUS
  <2> DEFINE y == Picked(T)
  <2>1. y \in T /\ SumOver(f, T) = f[y] + SumOver(f, T \ {y})
    BY FS_Subset, SumOverSteps
  <2> HIDE DEF y
  <2>2. CASE x = y
    BY <2>1, <2>2
  <2>3. CASE x # y
    <3>1. T \ {x} \in Good /\ T \ {y} \in Good
      BY <1>1, <2>1
    <3>2. SumOver(f, T \ {y}) = f[x] + SumOver(f, (T \ {y}) \ {x})
      BY <2>3, <3>1
    <3>3. SumOver(f, T \ {x}) = f[y] + SumOver(f, (T \ {x}) \ {y})
      BY <2>1, <2>3, <3>1
    <3>4. (T \ {x}) \ {y} = (T \ {y}) \ {x}
      OBVIOUS
    <3>5. PICK n \in Int : n = SumOver(f, (T \ {x}) \ {y})
      BY <1>0
    <3>6. SumOver(f, T) = f[y] + (f[x] + n) /\ SumOver(f, T \ {x}) = f[y] + n
      BY <2>1, <3>2, <3>3, <3>4, <3>5
    <3>7. f[x] \in Int /\ f[y] \in Int
      BY <2>1
    <3>8. f[y] + (f[x] + n) = f[x] + (f[y] + n)
      BY <3>7
    <3> QED
      BY <3>6, <3>8
  <2> QED
    BY <2>2, <2>3
<1> HIDE DEF Good
<1>2. \A T \in SUBSET S : T \in Good
  BY <1>1, SubsetInduction
<1> QED
  BY <1>2 DEF Good

\* Sums of the same values are the same.
LEMMA SumOfSame ==
  ASSUME NEW S, IsFiniteSet(S), NEW f, NEW g, \A x \in S : f[x] = g[x]
  PROVE  \A T \in SUBSET S : SumOver(f, T) = SumOver(g, T)
<1> DEFINE Good == {T \in SUBSET S : SumOver(f, T) = SumOver(g, T)}
<1>1. ASSUME NEW T \in SUBSET S, \A U \in SUBSET T : U # T => U \in Good
      PROVE  T \in Good
  <2>1. IsFiniteSet(T)
    BY FS_Subset
  <2>2. CASE T = {}
    BY <2>1, <2>2, SumOverSteps
  <2>3. CASE T # {}
    <3>1. /\ Picked(T) \in T
          /\ SumOver(f, T) = f[Picked(T)] + SumOver(f, T \ {Picked(T)})
          /\ SumOver(g, T) = g[Picked(T)] + SumOver(g, T \ {Picked(T)})
      BY <2>1, <2>3, SumOverSteps
    <3>2. T \ {Picked(T)} \in Good
      BY <1>1, <3>1
    <3> QED
      BY <3>1, <3>2
  <2> QED
    BY <2>2, <2>3
<1> HIDE DEF Good
<1>2. \A T \in SUBSET S : T \in Good
  BY <1>1, SubsetInduction
<1> QED
  BY <1>2 DEF Good

\* The sum when one element comes, goes or changes.
LEMMA SumWithElement ==
  ASSUME NEW S, IsFiniteSet(S), NEW f, \A z \in S : f[z] \in Int,
         NEW x, x \notin S, f[x] \in Int
  PROVE  SumOver(f, S \cup {x}) = SumOver(f, S) + f[x] /\ SumOver(f, S) \in Int
<1>1. IsFiniteSet(S \cup {x})
  BY FS_AddElement
<1>2. SumOver(f, S \cup {x}) = f[x] + SumOver(f, (S \cup {x}) \ {x})
  BY <1>1, SumWithout
<1>3. (S \cup {x}) \ {x} = S
  OBVIOUS
<1>4. PICK n \in Int : n = SumOver(f, S)
  BY SumIsInteger
<1>5. SumOver(f, S \cup {x}) = f[x] + n
  BY <1>2, <1>3, <1>4
<1>6. f[x] + n = n + f[x]
  BY <1>4
<1> QED
  BY <1>4, <1>5, <1>6

LEMMA SumWithChange ==
  ASSUME NEW S, IsFiniteSet(S), NEW f, \A z \in S : f[z] \in Int,
         NEW x \in S, NEW g, g[x] \in Int, \A z \in S \ {x} : g[z] = f[z]
  PROVE  SumOver(g, S) = SumOver(f, S) - f[x] + g[x] /\ SumOver(f, S) \in Int
<1>1. IsFiniteSet(S \ {x})
  BY FS_RemoveElement
<1>2. SumOver(f, S) = f[x] + SumOver(f, S \ {x})
  BY SumWithout
<1>3. \A z \in S : g[z] \in Int
  OBVIOUS
<1>4. SumOver(g, S) = g[x] + SumOver(g, S \ {x})
  BY <1>3, SumWithout
<1>5. SumOver(f, S \ {x}) = SumOver(g, S \ {x})
  BY <1>1, SumOfSame
<1>6. SumOver(f, S \ {x}) \in Int
  BY SumIsInteger
<1> QED
  BY <1>2, <1>4, <1>5, <1>6

\* A sum of naturals grows with its set.
LEMMA SumGrows ==
  ASSUME NEW S, IsFiniteSet(S), NEW f, \A z \in S : f[z] \in Nat
  PROVE  \A T \in SUBSET S : SumOver(f, T) \in Nat /\ SumOver(f, T) <= SumOver(f, S)
<1>1. ASSUME NEW U, IsFiniteSet(U), \A z \in U : f[z] \in Nat PROVE SumOver(f, U) \in Nat
  <2> DEFINE Good == {T \in SUBSET U : SumOver(f, T) \in Nat}
  <2>1. ASSUME NEW T \in SUBSET U, \A V \in SUBSET T : V # T => V \in Good
        PROVE  T \in Good
    <3>1. CASE T = {}
      <4>1. SumOver(f, {}) = 0
        BY <1>1, SumOverSteps
      <4> QED
        BY <3>1, <4>1
    <3>2. CASE T # {}
      <4>1. Picked(T) \in T /\ SumOver(f, T) = f[Picked(T)] + SumOver(f, T \ {Picked(T)})
        BY <1>1, <3>2, FS_Subset, SumOverSteps
      <4>2. T \ {Picked(T)} \in Good
        BY <2>1, <4>1
      <4>3. f[Picked(T)] \in Nat
        BY <1>1, <4>1
      <4> QED
        BY <4>1, <4>2, <4>3
    <3> QED
      BY <3>1, <3>2
  <2> HIDE DEF Good
  <2>2. \A T \in SUBSET U : T \in Good
    BY <1>1, <2>1, SubsetInduction
  <2> QED
    BY <2>2 DEF Good
<1> DEFINE Small == {T \in SUBSET S : \A U \in SUBSET T : SumOver(f, U) <= SumOver(f, T)}
<1>2. ASSUME NEW T \in SUBSET S, \A V \in SUBSET T : V # T => V \in Small
      PROVE  T \in Small
  <2> SUFFICES ASSUME NEW U \in SUBSET T PROVE SumOver(f, U) <= SumOver(f, T)
    OBVIOUS
  <2>0. IsFiniteSet(T) /\ IsFiniteSet(U) /\ SumOver(f, T) \in Nat /\ SumOver(f, U) \in Nat
    <3>1. IsFiniteSet(T) /\ IsFiniteSet(U)
      BY FS_Subset
    <3> QED
      BY <1>1, <3>1
  <2>1. CASE U = T
    BY <2>0, <2>1
  <2>2. CASE U # T
    <3>1. PICK x \in T : x \notin U
      BY <2>2
    <3>2. T \ {x} \in Small /\ U \in SUBSET (T \ {x})
      BY <1>2, <3>1
    <3>3. SumOver(f, U) <= SumOver(f, T \ {x})
      BY <3>2
    <3>4. SumOver(f, T) = f[x] + SumOver(f, T \ {x}) /\ f[x] \in Nat
      BY <2>0, <3>1, SumWithout
    <3>5. SumOver(f, T \ {x}) \in Nat
      BY <1>1, <2>0, FS_RemoveElement
    <3> QED
      BY <2>0, <3>3, <3>4, <3>5
  <2> QED
    BY <2>1, <2>2
<1> HIDE DEF Small
<1>3. \A T \in SUBSET S : T \in Small
  BY <1>2, SubsetInduction
<1>4. S \in Small
  BY <1>3
<1>5. \A T \in SUBSET S : SumOver(f, T) \in Nat
  BY <1>1, FS_Subset
<1> QED
  BY <1>4, <1>5 DEF Small

\* The sum over two sets that share nothing.
LEMMA SumOfParts ==
  ASSUME NEW A, IsFiniteSet(A), NEW B, IsFiniteSet(B), A \cap B = {},
         NEW f, \A z \in A \cup B : f[z] \in Int
  PROVE  SumOver(f, A \cup B) = SumOver(f, A) + SumOver(f, B)
<1> DEFINE Good == {T \in SUBSET B : SumOver(f, A \cup T) = SumOver(f, A) + SumOver(f, T)}
<1>1. SumOver(f, A) \in Int /\ \A T \in SUBSET B : SumOver(f, T) \in Int
  BY SumIsInteger
<1>2. ASSUME NEW T \in SUBSET B, \A U \in SUBSET T : U # T => U \in Good
      PROVE  T \in Good
  <2>1. CASE T = {}
    <3>1. A \cup T = A /\ T = {}
      BY <2>1
    <3>2. SumOver(f, {}) = 0
      BY SumOverSteps, FS_EmptySet
    <3>3. PICK a \in Int : a = SumOver(f, A)
      BY <1>1
    <3>4. SumOver(f, A \cup T) = a /\ SumOver(f, T) = 0
      BY <3>1, <3>2, <3>3
    <3> QED
      BY <3>3, <3>4
  <2>2. CASE T # {}
    <3>1. PICK x \in T : TRUE
      BY <2>2
    <3>2. IsFiniteSet(T) /\ IsFiniteSet(A \cup T)
      BY FS_Subset, FS_Union
    <3>3. SumOver(f, T) = f[x] + SumOver(f, T \ {x})
      BY <3>1, <3>2, SumWithout
    <3>4. SumOver(f, A \cup T) = f[x] + SumOver(f, (A \cup T) \ {x})
      BY <3>1, <3>2, SumWithout
    <3>5. (A \cup T) \ {x} = A \cup (T \ {x})
      BY <3>1
    <3>6. T \ {x} \in Good
      BY <3>1, <1>2
    <3>7. SumOver(f, A \cup (T \ {x})) = SumOver(f, A) + SumOver(f, T \ {x})
      BY <3>6
    <3>8. f[x] \in Int /\ T \ {x} \in SUBSET B
      BY <3>1
    <3>9. PICK a \in Int : a = SumOver(f, A)
      BY <1>1
    <3>10. PICK b \in Int : b = SumOver(f, T \ {x})
      BY <1>1, <3>8
    <3>11. PICK c \in Int : c = f[x]
      BY <3>8
    <3>12. SumOver(f, A \cup T) = c + (a + b) /\ SumOver(f, T) = c + b
      BY <3>3, <3>4, <3>5, <3>7, <3>9, <3>10, <3>11
    <3>13. c + (a + b) = a + (c + b)
      OBVIOUS
    <3> QED
      BY <3>9, <3>12, <3>13
  <2> QED
    BY <2>1, <2>2
<1> HIDE DEF Good
<1>3. \A T \in SUBSET B : T \in Good
  BY <1>2, SubsetInduction
<1> QED
  BY <1>3 DEF Good

-----------------------------------------------------------------------------
(***************************************************************************)
(* Sequences and the sets of their elements.                               *)
(***************************************************************************)
\* The sequence that lists a set lists each element, once.
LEMMA SetToSeqLists ==
  ASSUME NEW S, IsFiniteSet(S)
  PROVE  /\ SetToSeq(S) \in Seq(S) /\ IsInjective(SetToSeq(S))
         /\ ToSet(SetToSeq(S)) = S
         /\ S # {} => SetToSeq(S) # <<>>
<1> DEFINE n == Cardinality(S)
           f == SetToSeq(S)
<1>1. n \in Nat /\ ExistsBijection(1 .. n, S)
  BY FS_CardinalityType
<1> HIDE DEF n
<1>2. \E g \in [1 .. n -> S] : IsInjective(g)
  BY <1>1 DEF ExistsBijection, Bijection, Injection
<1>3. f \in [1 .. n -> S] /\ IsInjective(f)
  BY <1>2 DEF SetToSeq, n
<1> HIDE DEF f
<1>4. f \in Injection(1 .. n, S)
  BY <1>3 DEF Injection
<1>5. Cardinality(1 .. n) = n /\ IsFiniteSet(1 .. n)
  BY <1>1, FS_Interval
<1>6. f \in Surjection(1 .. n, S)
  BY <1>4, <1>5, FS_Injection DEF n
<1>7. ToSet(f) = S
  BY <1>3, <1>6 DEF ToSet, Surjection
<1>8. f \in Seq(S)
  BY <1>1, <1>3
<1>9. S # {} => f # <<>>
  BY <1>7 DEF ToSet
<1> QED
  BY <1>3, <1>7, <1>8, <1>9 DEF f

\* The tail of a sequence without repetitions has all elements but the first.
LEMMA TailLeavesOthers ==
  ASSUME NEW S, NEW s \in Seq(S), s # <<>>, IsInjective(s)
  PROVE  /\ Tail(s) \in Seq(S) /\ IsInjective(Tail(s))
         /\ ToSet(Tail(s)) = ToSet(s) \ {Head(s)}
         /\ Head(s) \in ToSet(s) /\ Head(s) \in S
         /\ (Len(s) = 1 <=> Tail(s) = <<>>)
<1>1. /\ Head(s) \in S /\ Tail(s) \in Seq(S) /\ Len(Tail(s)) = Len(s) - 1
      /\ \A i \in 1 .. Len(Tail(s)) : Tail(s)[i] = s[i + 1]
  BY HeadTailProperties
<1> DEFINE t == Tail(s)
           n == Len(s)
<1>2. /\ n \in Nat \ {0} /\ DOMAIN s = 1 .. n /\ DOMAIN t = 1 .. n - 1 /\ Head(s) = s[1]
      /\ \A i \in 1 .. n - 1 : t[i] = s[i + 1]
  BY <1>1
<1> HIDE DEF t, n
<1>3. IsInjective(t)
  <2>1. ASSUME NEW i \in 1 .. n - 1, NEW j \in 1 .. n - 1, t[i] = t[j] PROVE i = j
    <3>1. i + 1 \in 1 .. n /\ j + 1 \in 1 .. n /\ s[i + 1] = s[j + 1]
      BY <1>2, <2>1
    <3>2. i + 1 = j + 1
      BY <1>2, <3>1 DEF IsInjective
    <3> QED
      BY <3>2
  <2> QED
    BY <1>2, <2>1 DEF IsInjective
<1>4. ToSet(t) \subseteq ToSet(s) \ {Head(s)}
  <2> SUFFICES ASSUME NEW i \in 1 .. n - 1
               PROVE  t[i] \in ToSet(s) \ {Head(s)}
    BY <1>2 DEF ToSet
  <2>1. i + 1 \in DOMAIN s /\ 1 \in DOMAIN s /\ i + 1 # 1
    BY <1>2
  <2>2. s[i + 1] # s[1]
    BY <2>1 DEF IsInjective
  <2> QED
    BY <1>2, <2>1, <2>2 DEF ToSet
<1>5. ToSet(s) \ {Head(s)} \subseteq ToSet(t)
  <2> SUFFICES ASSUME NEW i \in 1 .. n, s[i] # s[1]
               PROVE  s[i] \in ToSet(t)
    BY <1>2 DEF ToSet
  <2>1. i - 1 \in 1 .. n - 1 /\ (i - 1) + 1 = i
    BY <1>2
  <2>2. t[i - 1] = s[i]
    BY <1>2, <2>1
  <2> QED
    BY <1>2, <2>1, <2>2 DEF ToSet
<1>6. 1 \in DOMAIN s /\ Head(s) \in ToSet(s)
  BY <1>2 DEF ToSet
<1>7. n = 1 <=> t = <<>>
  BY <1>1, <1>2 DEF t, n
<1> QED
  BY <1>1, <1>3, <1>4, <1>5, <1>6, <1>7 DEF t, n

\* Appending adds an element.
LEMMA AppendAddsElement ==
  ASSUME NEW S, NEW s \in Seq(S), NEW x \in S
  PROVE  ToSet(Append(s, x)) = ToSet(s) \cup {x}
<1>1. /\ Append(s, x) \in Seq(S)
      /\ Len(Append(s, x)) = Len(s) + 1
      /\ \A k \in 1 .. Len(s) : Append(s, x)[k] = s[k]
      /\ Append(s, x)[Len(s) + 1] = x
  BY AppendProperties
<1>2. Len(s) \in Nat
  OBVIOUS
<1> QED
  BY <1>1, <1>2 DEF ToSet
=============================================================================
