----------------------------- MODULE Aggregates -----------------------------
(***************************************************************************)
(* Facts about sums and extremes of finite sets, about the order a         *)
(* comparison puts a set in, and about the parts of sequences, which the   *)
(* proofs of the specifications rest on.  A sum is SumFunctionOnSet of the *)
(* community modules, a fold that takes its elements in an order of its    *)
(* own choosing; what it adds up to does not depend on that order.         *)
(* Induction is taken from the well-foundedness of the naturals: a set of  *)
(* naturals that is not empty has a least element.                         *)
(***************************************************************************)
EXTENDS Integers, Sequences, FiniteSets, FiniteSetsExt, Functions, SequencesExt,
        FiniteSetTheorems, WellFoundedInduction, SequenceTheorems, TLAPS

-----------------------------------------------------------------------------
(* Induction, over sets rather than formulas. *)

LEMMA LeastOfNaturals ==
  ASSUME NEW T \in SUBSET Nat, T # {}
  PROVE  \E x \in T : \A y \in T : x <= y
<1>1. IsWellFoundedOn(OpToRel(<, Nat), Nat)
  BY NatLessThanWellFounded
<1>2. PICK x \in T : \A y \in T : <<y, x>> \notin OpToRel(<, Nat)
  BY <1>1, WFMin
<1>3. x \in Nat /\ \A y \in T : y \in Nat
  OBVIOUS
<1>4. \A y \in T : ~(y < x)
  BY <1>2, <1>3 DEF OpToRel
<1>5. \A y \in T : x <= y
  BY <1>3, <1>4
<1> QED BY <1>5

(* Induction on the naturals. *)
LEMMA NaturalsByStep ==
  ASSUME NEW S, 0 \in S, \A n \in Nat : n \in S => n + 1 \in S
  PROVE  Nat \subseteq S
<1> DEFINE T == Nat \ S
<1> SUFFICES ASSUME T # {} PROVE FALSE
  OBVIOUS
<1>1. PICK x \in T : \A y \in T : x <= y
  BY LeastOfNaturals
<1>2. x # 0 /\ x - 1 \in Nat
  OBVIOUS
<1>3. x - 1 \in S
  BY <1>1, <1>2
<1>4. (x - 1) + 1 \in S
  BY <1>2, <1>3
<1> QED BY <1>4

(* Induction on the subsets of a finite set, one element at a time. *)
LEMMA SubsetsByElement ==
  ASSUME NEW S, IsFiniteSet(S), NEW F,
         {} \in F,
         \A T \in SUBSET S : T # {} => \E x \in T : T \ {x} \in F => T \in F
  PROVE  SUBSET S \subseteq F
<1> DEFINE N == {n \in Nat : \A T \in SUBSET S : Cardinality(T) = n => T \in F}
<1>1. \A T \in SUBSET S : IsFiniteSet(T) /\ Cardinality(T) \in Nat
  BY FS_Subset, FS_CardinalityType
<1>2. 0 \in N
  BY <1>1, FS_EmptySet
<1>3. ASSUME NEW n \in Nat, n \in N PROVE n + 1 \in N
  <2> SUFFICES ASSUME NEW T \in SUBSET S, Cardinality(T) = n + 1 PROVE T \in F
    OBVIOUS
  <2>1. Cardinality({}) = 0 /\ Cardinality(T) # 0
    BY FS_EmptySet
  <2>2. PICK x \in T : T \ {x} \in F => T \in F
    BY <2>1
  <2>3. Cardinality(T \ {x}) = Cardinality(T) - 1
    BY <1>1, FS_RemoveElement
  <2>4. Cardinality(T \ {x}) = n /\ T \ {x} \in SUBSET S
    BY <2>3
  <2> QED BY <1>3, <2>2, <2>4
<1> HIDE DEF N
<1>4. Nat \subseteq N
  BY <1>2, <1>3, NaturalsByStep
<1> QED BY <1>1, <1>4 DEF N

-----------------------------------------------------------------------------
(* The fold exists and takes out the element it chooses. *)

Chosen(s) == CHOOSE x \in s : TRUE

Adds(f, S, g) ==
  g = [s \in SUBSET S |-> IF s = {} THEN 0 ELSE f[Chosen(s)] + g[s \ {Chosen(s)}]]

LEMMA SomethingAdds ==
  ASSUME NEW S, IsFiniteSet(S), NEW f
  PROVE  \E g : Adds(f, S, g)
<1> DEFINE Step(g, s) == IF s = {} THEN 0 ELSE f[Chosen(s)] + g[s \ {Chosen(s)}]
           Upto(g, n) == \A s \in SUBSET S : Cardinality(s) <= n => g[s] = Step(g, s)
           N == {n \in Nat : \E g : Upto(g, n)}
<1>1. \A T \in SUBSET S : IsFiniteSet(T) /\ Cardinality(T) \in Nat /\ Cardinality(T) <= Cardinality(S)
  BY FS_Subset, FS_CardinalityType
<1>2. \A s \in SUBSET S : s # {} => /\ Chosen(s) \in s
                                    /\ s \ {Chosen(s)} \in SUBSET S
                                    /\ Cardinality(s \ {Chosen(s)}) = Cardinality(s) - 1
  BY <1>1, FS_RemoveElement DEF Chosen
<1>3. 0 \in N
  <2> DEFINE g == [s \in SUBSET S |-> 0]
  <2>1. \A s \in SUBSET S : Cardinality(s) <= 0 => s = {}
    BY <1>1, FS_EmptySet
  <2>2. Upto(g, 0)
    BY <2>1
  <2> QED BY <2>2
<1>4. ASSUME NEW n \in Nat, n \in N PROVE n + 1 \in N
  <2>1. PICK g : Upto(g, n)
    BY <1>4
  <2> DEFINE h == [s \in SUBSET S |-> Step(g, s)]
  <2>2. \A s \in SUBSET S : Cardinality(s) <= n => h[s] = g[s]
    BY <2>1
  <2>3. ASSUME NEW s \in SUBSET S, Cardinality(s) <= n + 1 PROVE h[s] = Step(h, s)
    <3>1. CASE s = {}
      BY <3>1
    <3>2. CASE s # {}
      <4>1. /\ s \ {Chosen(s)} \in SUBSET S
            /\ Cardinality(s \ {Chosen(s)}) <= n
        BY <1>1, <1>2, <2>3, <3>2
      <4>2. h[s \ {Chosen(s)}] = g[s \ {Chosen(s)}]
        BY <2>2, <4>1
      <4> QED BY <3>2, <4>2
    <3> QED BY <3>1, <3>2
  <2> HIDE DEF h
  <2>4. Upto(h, n + 1)
    BY <2>3
  <2> HIDE DEF Upto
  <2>5. \E k : Upto(k, n + 1)
    BY <2>4
  <2>6. n + 1 \in Nat
    OBVIOUS
  <2> QED BY <2>5, <2>6
<1> HIDE DEF N
<1>5. Cardinality(S) \in N
  BY <1>1, <1>3, <1>4, NaturalsByStep
<1>6. PICK g : Upto(g, Cardinality(S))
  BY <1>5 DEF N
<1> DEFINE h == [s \in SUBSET S |-> Step(g, s)]
<1>7. \A s \in SUBSET S : g[s] = h[s]
  BY <1>1, <1>6
<1>8. ASSUME NEW s \in SUBSET S PROVE h[s] = Step(h, s)
  BY <1>2, <1>7
<1>9. h = [s \in SUBSET S |-> Step(h, s)]
  BY <1>8
<1> HIDE DEF h
<1>10. Adds(f, S, h)
  BY <1>9 DEF Adds
<1> QED BY <1>10

LEMMA SumsUp ==
  ASSUME NEW S, IsFiniteSet(S), NEW f
  PROVE  \E g : Adds(f, S, g) /\ SumFunctionOnSet(f, S) = g[S]
<1> DEFINE Is(h) == h = [s \in SUBSET S |->
                          IF s = {} THEN 0 ELSE f[Chosen(s)] + h[s \ {Chosen(s)}]]
           g == CHOOSE h : Is(h)
<1>1. SumFunctionOnSet(f, S) = g[S]
  BY DEF SumFunctionOnSet, FoldFunctionOnSet, MapThenFoldSet, Chosen
<1>2. \E h : Is(h)
  <2>1. PICK h : Adds(f, S, h)
    BY SomethingAdds
  <2>2. Is(h)
    BY <2>1 DEF Adds
  <2> HIDE DEF Is
  <2> QED BY <2>2
<1>3. Is(g)
  <2> HIDE DEF Is
  <2> QED BY <1>2
<1> HIDE DEF g
<1>4. Adds(f, S, g)
  BY <1>3 DEF Adds
<1> QED BY <1>1, <1>4

(* The part of a sum that runs over a subset is that subset's sum. *)
LEMMA PartsAddUp ==
  ASSUME NEW S, IsFiniteSet(S), NEW T \in SUBSET S, NEW f, NEW g, Adds(f, S, g)
  PROVE  SumFunctionOnSet(f, T) = g[T]
<1>1. IsFiniteSet(T)
  BY FS_Subset
<1>2. PICK h : Adds(f, T, h) /\ SumFunctionOnSet(f, T) = h[T]
  BY <1>1, SumsUp
<1> DEFINE F == {s \in SUBSET T : h[s] = g[s]}
<1>3. h[{}] = 0 /\ g[{}] = 0
  BY <1>2 DEF Adds
<1>4. ASSUME NEW s \in SUBSET T, s # {} PROVE \E x \in s : s \ {x} \in F => s \in F
  <2>1. Chosen(s) \in s
    BY <1>4 DEF Chosen
  <2>2. h[s] = f[Chosen(s)] + h[s \ {Chosen(s)}]
    BY <1>2, <1>4 DEF Adds
  <2>3. s \in SUBSET S /\ g[s] = f[Chosen(s)] + g[s \ {Chosen(s)}]
    BY <1>4 DEF Adds
  <2> QED BY <2>1, <2>2, <2>3
<1>5. {} \in F
  BY <1>3
<1> HIDE DEF F
<1>6. SUBSET T \subseteq F
  BY <1>1, <1>4, <1>5, SubsetsByElement
<1> QED BY <1>2, <1>6 DEF F

-----------------------------------------------------------------------------
(* What a sum is, whatever the order it is taken in. *)

LEMMA SumOfNothing == ASSUME NEW f PROVE SumFunctionOnSet(f, {}) = 0
<1>1. PICK g : Adds(f, {}, g) /\ SumFunctionOnSet(f, {}) = g[{}]
  BY FS_EmptySet, SumsUp
<1> QED BY <1>1 DEF Adds

LEMMA SumTakesChosen ==
  ASSUME NEW S, IsFiniteSet(S), S # {}, NEW f
  PROVE  /\ Chosen(S) \in S
         /\ SumFunctionOnSet(f, S) = f[Chosen(S)] + SumFunctionOnSet(f, S \ {Chosen(S)})
<1>1. Chosen(S) \in S
  BY DEF Chosen
<1>2. PICK g : Adds(f, S, g) /\ SumFunctionOnSet(f, S) = g[S]
  BY SumsUp
<1>3. g[S] = f[Chosen(S)] + g[S \ {Chosen(S)}]
  BY <1>2 DEF Adds
<1>4. SumFunctionOnSet(f, S \ {Chosen(S)}) = g[S \ {Chosen(S)}]
  BY <1>2, PartsAddUp
<1> QED BY <1>1, <1>2, <1>3, <1>4

LEMMA SumIsInteger ==
  ASSUME NEW S, IsFiniteSet(S), NEW f, \A x \in S : f[x] \in Int
  PROVE  SumFunctionOnSet(f, S) \in Int
<1> DEFINE F == {s \in SUBSET S : SumFunctionOnSet(f, s) \in Int}
<1>1. {} \in F
  BY SumOfNothing
<1>2. ASSUME NEW s \in SUBSET S, s # {} PROVE \E x \in s : s \ {x} \in F => s \in F
  <2>1. IsFiniteSet(s)
    BY FS_Subset
  <2>2. /\ Chosen(s) \in s
        /\ SumFunctionOnSet(f, s) = f[Chosen(s)] + SumFunctionOnSet(f, s \ {Chosen(s)})
    BY <1>2, <2>1, SumTakesChosen
  <2>3. f[Chosen(s)] \in Int
    BY <2>2
  <2> DEFINE m == SumFunctionOnSet(f, s \ {Chosen(s)})
  <2>4. m \in Int => f[Chosen(s)] + m \in Int
    <3> HIDE DEF m
    <3> QED BY <2>3
  <2>5. s \ {Chosen(s)} \in F => s \in F
    BY <2>2, <2>4
  <2> HIDE DEF F
  <2> QED BY <2>2, <2>5
<1> HIDE DEF F
<1>3. SUBSET S \subseteq F
  BY <1>1, <1>2, SubsetsByElement
<1> QED BY <1>3 DEF F

LEMMA SumOfNaturals ==
  ASSUME NEW S, IsFiniteSet(S), NEW f, \A x \in S : f[x] \in Nat
  PROVE  SumFunctionOnSet(f, S) \in Nat
<1> DEFINE F == {s \in SUBSET S : SumFunctionOnSet(f, s) \in Nat}
<1>1. {} \in F
  BY SumOfNothing
<1>2. ASSUME NEW s \in SUBSET S, s # {} PROVE \E x \in s : s \ {x} \in F => s \in F
  <2>1. IsFiniteSet(s)
    BY FS_Subset
  <2>2. /\ Chosen(s) \in s
        /\ SumFunctionOnSet(f, s) = f[Chosen(s)] + SumFunctionOnSet(f, s \ {Chosen(s)})
    BY <1>2, <2>1, SumTakesChosen
  <2>3. f[Chosen(s)] \in Nat
    BY <2>2
  <2> QED BY <2>2, <2>3
<1> HIDE DEF F
<1>3. SUBSET S \subseteq F
  BY <1>1, <1>2, SubsetsByElement
<1> QED BY <1>3 DEF F

(* Any element may be taken out first. *)
LEMMA SumTakesAny ==
  ASSUME NEW S, IsFiniteSet(S), NEW f, \A x \in S : f[x] \in Int, NEW e \in S
  PROVE  SumFunctionOnSet(f, S) = f[e] + SumFunctionOnSet(f, S \ {e})
<1> DEFINE Sum(s) == SumFunctionOnSet(f, s)
           F == {s \in SUBSET S : \A x \in s : Sum(s) = f[x] + Sum(s \ {x})}
<1>1. \A s \in SUBSET S : IsFiniteSet(s) /\ Sum(s) \in Int
  <2> SUFFICES ASSUME NEW s \in SUBSET S PROVE IsFiniteSet(s) /\ Sum(s) \in Int
    OBVIOUS
  <2>1. IsFiniteSet(s)
    BY FS_Subset
  <2> QED BY <2>1, SumIsInteger
<1>2. ASSUME NEW s \in SUBSET S, s # {}
      PROVE  Chosen(s) \in s /\ Sum(s) = f[Chosen(s)] + Sum(s \ {Chosen(s)})
  BY <1>1, <1>2, SumTakesChosen
<1> HIDE DEF Sum
<1>3. {} \in F
  OBVIOUS
<1>4. ASSUME NEW n \in Nat,
             \A s \in SUBSET S : Cardinality(s) = n => s \in F,
             NEW s \in SUBSET S, Cardinality(s) = n + 1, NEW x \in s
      PROVE  Sum(s) = f[x] + Sum(s \ {x})
  <2> DEFINE c == Chosen(s)
  <2>1. c \in s /\ Sum(s) = f[c] + Sum(s \ {c})
    BY <1>2
  <2>2. CASE x = c
    BY <2>1, <2>2
  <2>3. CASE x # c
    <3>1. \A y \in s : Cardinality(s \ {y}) = Cardinality(s) - 1
      BY <1>1, FS_RemoveElement
    <3>2. \A y \in s : s \ {y} \in F
      BY <1>4, <3>1
    <3>3. Sum(s \ {c}) = f[x] + Sum((s \ {c}) \ {x})
      BY <2>1, <2>3, <3>2
    <3>4. Sum(s \ {x}) = f[c] + Sum((s \ {x}) \ {c})
      BY <2>1, <2>3, <3>2
    <3>5. (s \ {c}) \ {x} = (s \ {x}) \ {c}
      OBVIOUS
    <3> DEFINE t == (s \ {c}) \ {x}
    <3>6. Sum(t) \in Int /\ f[x] \in Int /\ f[c] \in Int
      BY <1>1, <2>1
    <3>7. Sum(s) = f[c] + (f[x] + Sum(t)) /\ Sum(s \ {x}) = f[c] + Sum(t)
      BY <2>1, <3>3, <3>4, <3>5
    <3> HIDE DEF t, c
    <3> QED BY <3>6, <3>7
  <2> QED BY <2>2, <2>3
<1> DEFINE N == {n \in Nat : \A s \in SUBSET S : Cardinality(s) = n => s \in F}
<1>5. 0 \in N
  <2>1. \A s \in SUBSET S : Cardinality(s) = 0 => s = {}
    BY <1>1, FS_EmptySet
  <2> QED BY <1>3, <2>1
<1>6. ASSUME NEW n \in Nat, n \in N PROVE n + 1 \in N
  <2>1. \A s \in SUBSET S : Cardinality(s) = n => s \in F
    BY <1>6
  <2>2. ASSUME NEW s \in SUBSET S, Cardinality(s) = n + 1 PROVE s \in F
    <3>1. \A x \in s : Sum(s) = f[x] + Sum(s \ {x})
      BY <1>4, <2>1, <2>2
    <3> QED BY <3>1
  <2>3. n + 1 \in Nat
    OBVIOUS
  <2> HIDE DEF F
  <2> QED BY <2>2, <2>3
<1> HIDE DEF N
<1>7. Nat \subseteq N
  BY <1>5, <1>6, NaturalsByStep
<1>8. Cardinality(S) \in Nat
  BY FS_CardinalityType
<1>9. S \in F
  BY <1>7, <1>8 DEF N
<1> QED BY <1>9 DEF Sum

(* Sums of functions that agree are the same. *)
LEMMA SumsAgree ==
  ASSUME NEW S, IsFiniteSet(S), NEW f, NEW g, \A x \in S : f[x] = g[x]
  PROVE  SumFunctionOnSet(f, S) = SumFunctionOnSet(g, S)
<1> DEFINE F == {s \in SUBSET S : SumFunctionOnSet(f, s) = SumFunctionOnSet(g, s)}
<1>1. {} \in F
  BY SumOfNothing
<1>2. ASSUME NEW s \in SUBSET S, s # {} PROVE \E x \in s : s \ {x} \in F => s \in F
  <2>1. IsFiniteSet(s)
    BY FS_Subset
  <2>2. /\ Chosen(s) \in s
        /\ SumFunctionOnSet(f, s) = f[Chosen(s)] + SumFunctionOnSet(f, s \ {Chosen(s)})
        /\ SumFunctionOnSet(g, s) = g[Chosen(s)] + SumFunctionOnSet(g, s \ {Chosen(s)})
    BY <1>2, <2>1, SumTakesChosen
  <2> QED BY <2>2
<1> HIDE DEF F
<1>3. SUBSET S \subseteq F
  BY <1>1, <1>2, SubsetsByElement
<1> QED BY <1>3 DEF F

(* One value changes: the sum moves by the difference. *)
LEMMA SumMoves ==
  ASSUME NEW S, IsFiniteSet(S), NEW f, NEW g, NEW e \in S,
         \A x \in S : f[x] \in Int /\ g[x] \in Int, \A x \in S \ {e} : g[x] = f[x]
  PROVE  SumFunctionOnSet(g, S) = SumFunctionOnSet(f, S) - f[e] + g[e]
<1>1. IsFiniteSet(S \ {e})
  BY FS_RemoveElement
<1>2. SumFunctionOnSet(f, S) = f[e] + SumFunctionOnSet(f, S \ {e})
  BY SumTakesAny
<1>3. SumFunctionOnSet(g, S) = g[e] + SumFunctionOnSet(g, S \ {e})
  BY SumTakesAny
<1>4. SumFunctionOnSet(f, S \ {e}) = SumFunctionOnSet(g, S \ {e})
  BY <1>1, SumsAgree
<1>5. SumFunctionOnSet(f, S \ {e}) \in Int /\ f[e] \in Int /\ g[e] \in Int
  BY <1>1, SumIsInteger
<1> QED BY <1>2, <1>3, <1>4, <1>5

LEMMA SumOfZeroes ==
  ASSUME NEW S, IsFiniteSet(S), NEW f, \A x \in S : f[x] = 0
  PROVE  SumFunctionOnSet(f, S) = 0
<1> DEFINE F == {s \in SUBSET S : SumFunctionOnSet(f, s) = 0}
<1>1. {} \in F
  BY SumOfNothing
<1>2. ASSUME NEW s \in SUBSET S, s # {} PROVE \E x \in s : s \ {x} \in F => s \in F
  <2>1. IsFiniteSet(s)
    BY FS_Subset
  <2>2. /\ Chosen(s) \in s
        /\ SumFunctionOnSet(f, s) = f[Chosen(s)] + SumFunctionOnSet(f, s \ {Chosen(s)})
    BY <1>2, <2>1, SumTakesChosen
  <2> QED BY <2>2
<1> HIDE DEF F
<1>3. SUBSET S \subseteq F
  BY <1>1, <1>2, SubsetsByElement
<1> QED BY <1>3 DEF F

(* The sum over two sets that share nothing is the two sums together. *)
LEMMA SumOfParts ==
  ASSUME NEW A, NEW B, IsFiniteSet(A), IsFiniteSet(B), A \cap B = {},
         NEW f, \A x \in A \cup B : f[x] \in Int
  PROVE  SumFunctionOnSet(f, A \cup B) = SumFunctionOnSet(f, A) + SumFunctionOnSet(f, B)
<1> DEFINE Sum(s) == SumFunctionOnSet(f, s)
           F == {b \in SUBSET B : Sum(A \cup b) = Sum(A) + Sum(b)}
<1>1. ASSUME NEW b \in SUBSET B
      PROVE  /\ IsFiniteSet(b) /\ IsFiniteSet(A \cup b)
             /\ Sum(b) \in Int /\ Sum(A) \in Int /\ Sum(A \cup b) \in Int
  <2>1. IsFiniteSet(b) /\ IsFiniteSet(A \cup b)
    BY FS_Subset, FS_Union
  <2>2. \A x \in A \cup b : f[x] \in Int
    OBVIOUS
  <2> QED BY <2>1, <2>2, SumIsInteger
<1>2. {} \in F
  <2>1. Sum({}) = 0 /\ A \cup {} = A /\ Sum(A) \in Int
    BY <1>1, SumOfNothing
  <2> QED BY <2>1
<1>3. ASSUME NEW b \in SUBSET B, b # {} PROVE \E x \in b : b \ {x} \in F => b \in F
  <2>1. PICK x \in b : TRUE
    BY <1>3
  <2>2. \A y \in A \cup b : f[y] \in Int
    OBVIOUS
  <2>3. Sum(b) = f[x] + Sum(b \ {x})
    BY <1>1, <2>2, SumTakesAny
  <2>4. Sum(A \cup b) = f[x] + Sum((A \cup b) \ {x})
    BY <1>1, <2>2, SumTakesAny
  <2>5. (A \cup b) \ {x} = A \cup (b \ {x}) /\ b \ {x} \in SUBSET B
    OBVIOUS
  <2>6. f[x] \in Int /\ Sum(b \ {x}) \in Int /\ Sum(A) \in Int
    BY <1>1, <2>2, <2>5
  <2>7. Sum(A \cup (b \ {x})) = Sum(A) + Sum(b \ {x}) => Sum(A \cup b) = Sum(A) + Sum(b)
    <3> DEFINE all == Sum(A \cup b)
               some == Sum(b)
               rest == Sum(b \ {x})
               allrest == Sum(A \cup (b \ {x}))
               first == Sum(A)
    <3>1. all = f[x] + allrest /\ some = f[x] + rest
      BY <2>3, <2>4, <2>5
    <3>2. f[x] \in Int /\ rest \in Int /\ first \in Int
      BY <2>6
    <3> HIDE DEF all, some, rest, allrest, first
    <3>3. allrest = first + rest => all = first + some
      BY <3>1, <3>2
    <3> QED BY <3>3 DEF all, some, rest, allrest, first
  <2>8. b \ {x} \in F => b \in F
    BY <2>5, <2>7
  <2> HIDE DEF F
  <2> QED BY <2>8
<1> HIDE DEF F
<1>4. SUBSET B \subseteq F
  BY <1>2, <1>3, SubsetsByElement
<1> QED BY <1>4 DEF F

(* A number is appended: the sum grows by it. *)
LEMMA SumAppends ==
  ASSUME NEW n \in Nat, NEW f, NEW g, \A k \in 1..n : f[k] \in Int /\ g[k] = f[k], g[n + 1] \in Int
  PROVE  SumFunctionOnSet(g, 1..(n + 1)) = SumFunctionOnSet(f, 1..n) + g[n + 1]
<1>1. IsFiniteSet(1..(n + 1)) /\ IsFiniteSet(1..n)
  BY FS_Interval
<1>2. n + 1 \in 1..(n + 1) /\ (1..(n + 1)) \ {n + 1} = 1..n
  OBVIOUS
<1>3. \A k \in 1..(n + 1) : g[k] \in Int
  OBVIOUS
<1>4. SumFunctionOnSet(g, 1..(n + 1)) = g[n + 1] + SumFunctionOnSet(g, 1..n)
  BY <1>1, <1>2, <1>3, SumTakesAny
<1>5. SumFunctionOnSet(g, 1..n) = SumFunctionOnSet(f, 1..n)
  BY <1>1, SumsAgree
<1>6. SumFunctionOnSet(f, 1..n) \in Int
  BY <1>1, SumIsInteger
<1> QED BY <1>4, <1>5, <1>6

-----------------------------------------------------------------------------
(* The extremes of a finite set of integers. *)

LEMMA SomethingIsLargest ==
  ASSUME NEW S, IsFiniteSet(S), S # {}, S \subseteq Int
  PROVE  \E m \in S : \A x \in S : m >= x
<1> DEFINE F == {T \in SUBSET S : T # {} => \E m \in T : \A x \in T : m >= x}
<1>1. {} \in F
  OBVIOUS
<1>2. ASSUME NEW T \in SUBSET S, T # {} PROVE \E x \in T : T \ {x} \in F => T \in F
  <2>1. PICK x \in T : TRUE
    BY <1>2
  <2>2. ASSUME T \ {x} \in F PROVE \E m \in T : \A y \in T : m >= y
    <3>1. CASE T \ {x} = {}
      <4>1. \A y \in T : x >= y
        BY <3>1
      <4> QED BY <4>1
    <3>2. CASE T \ {x} # {}
      <4>1. PICK m \in T \ {x} : \A y \in T \ {x} : m >= y
        BY <2>2, <3>2
      <4>2. m \in Int /\ x \in Int /\ \A y \in T : y \in Int
        OBVIOUS
      <4>3. CASE m >= x
        <5>1. \A y \in T : m >= y
          BY <4>1, <4>3
        <5> QED BY <5>1
      <4>4. CASE x >= m
        <5>1. \A y \in T : x >= y
          BY <4>1, <4>2, <4>4
        <5> QED BY <5>1
      <4> QED BY <4>2, <4>3, <4>4
    <3> QED BY <3>1, <3>2
  <2>3. T \ {x} \in F => T \in F
    BY <2>2
  <2> HIDE DEF F
  <2> QED BY <2>3
<1> HIDE DEF F
<1>3. SUBSET S \subseteq F
  BY <1>1, <1>2, SubsetsByElement
<1> QED BY <1>3 DEF F

LEMMA MaxIsLargest ==
  ASSUME NEW S, IsFiniteSet(S), S # {}, S \subseteq Int
  PROVE  Max(S) \in S /\ \A x \in S : Max(S) >= x
<1> DEFINE Is(m) == m \in S /\ \A x \in S : m >= x
<1>1. \E m : Is(m)
  BY SomethingIsLargest
<1>2. Max(S) = CHOOSE m \in S : \A x \in S : m >= x
  BY DEF Max
<1>3. Is(CHOOSE m : Is(m))
  BY <1>1
<1>4. (CHOOSE m : Is(m)) = CHOOSE m \in S : \A x \in S : m >= x
  OBVIOUS
<1> QED BY <1>2, <1>3, <1>4

(* What is in a set and above all of it is its largest. *)
LEMMA LargestIsMax ==
  ASSUME NEW S \in SUBSET Int, NEW m \in S, \A x \in S : m >= x
  PROVE  Max(S) = m
<1>1. \A k \in S : (\A x \in S : k >= x) => k = m
  OBVIOUS
<1> QED BY <1>1 DEF Max

LEMMA SmallestIsMin ==
  ASSUME NEW S \in SUBSET Int, NEW m \in S, \A x \in S : m <= x
  PROVE  Min(S) = m
<1>1. \A k \in S : (\A x \in S : k <= x) => k = m
  OBVIOUS
<1> QED BY <1>1 DEF Min

(* Of two. *)
LEMMA LargerOfTwo ==
  ASSUME NEW m \in Int, NEW n \in Int
  PROVE  Max({m, n}) = IF m >= n THEN m ELSE n
<1>1. CASE m >= n
  BY <1>1, LargestIsMax
<1>2. CASE ~(m >= n)
  BY <1>2, LargestIsMax
<1> QED BY <1>1, <1>2

LEMMA SmallerOfTwo ==
  ASSUME NEW m \in Int, NEW n \in Int
  PROVE  Min({m, n}) = IF m <= n THEN m ELSE n
<1>1. CASE m <= n
  BY <1>1, SmallestIsMin
<1>2. CASE ~(m <= n)
  BY <1>2, SmallestIsMin
<1> QED BY <1>1, <1>2

LEMMA TwoApart == ASSUME NEW a, NEW b, a # b PROVE Cardinality({a, b}) = 2
<1>1. IsFiniteSet({a}) /\ Cardinality({a}) = 1
  BY FS_Singleton
<1>2. {a, b} = {a} \cup {b} /\ b \notin {a}
  OBVIOUS
<1>3. Cardinality({a} \cup {b}) = Cardinality({a}) + 1
  BY <1>1, <1>2, FS_AddElement
<1> QED BY <1>1, <1>2, <1>3

LEMMA ThreeAreFinite == ASSUME NEW a, NEW b, NEW c PROVE IsFiniteSet({a, b, c})
<1>1. IsFiniteSet({a}) /\ IsFiniteSet({b}) /\ IsFiniteSet({c})
  BY FS_Singleton
<1>2. IsFiniteSet({a} \cup {b})
  BY <1>1, FS_Union
<1>3. IsFiniteSet(({a} \cup {b}) \cup {c})
  BY <1>1, <1>2, FS_Union
<1>4. {a, b, c} = ({a} \cup {b}) \cup {c}
  OBVIOUS
<1> QED BY <1>3, <1>4

LEMMA ImageIsFinite ==
  ASSUME NEW S, IsFiniteSet(S), NEW f
  PROVE  IsFiniteSet({f[x] : x \in S})
<1> DEFINE T == {f[x] : x \in S}
           g == [x \in S |-> f[x]]
<1>1. g \in Surjection(S, T)
  BY DEF Surjection
<1> HIDE DEF g, T
<1>2. IsFiniteSet(T)
  BY <1>1, FS_Surjection
<1> QED BY <1>2 DEF T

-----------------------------------------------------------------------------
(* A factor that is at most another gives a product that is. *)
LEMMA TimesAtMost ==
  ASSUME NEW n \in Nat, NEW m \in Nat, NEW c \in Nat, m <= c
  PROVE  n * m \in Nat /\ n * m <= n * c
<1>1. n * m \in Nat
  BY SMTT(30)
<1>2. n * c = n * m + n * (c - m)
  BY SMTT(30)
<1>3. c - m \in Nat
  OBVIOUS
<1>4. n * (c - m) \in Nat
  BY <1>3, SMTT(30)
<1> DEFINE u == n * m
           v == n * (c - m)
           w == n * c
<1>5. u \in Nat /\ v \in Nat /\ w = u + v
  BY <1>1, <1>2, <1>4
<1> HIDE DEF u, v, w
<1>6. u <= w
  BY <1>5
<1> QED BY <1>1, <1>6 DEF u, w

(* How many stand above each places a finite set in a row. *)
LEMMA StandingsAreOrder ==
  ASSUME NEW S, IsFiniteSet(S), NEW above,
         \A r \in S : above[r] \subseteq S \ {r},
         \A r, s \in S : r = s \/ r \in above[s] \/ s \in above[r],
         \A r, s \in S : r \in above[s] => above[r] \subseteq above[s]
  PROVE  /\ Cardinality(S) \in Nat
         /\ \A r \in S : Cardinality(above[r]) + 1 \in 1..Cardinality(S)
         /\ \A r, s \in S : Cardinality(above[r]) < Cardinality(above[s]) => r \in above[s]
         /\ \A k \in 1..Cardinality(S) : \E r \in S : Cardinality(above[r]) + 1 = k
<1> DEFINE n == Cardinality(S)
           f == [r \in S |-> Cardinality(above[r]) + 1]
<1>1. n \in Nat /\ IsFiniteSet(1..n) /\ Cardinality(1..n) = n
  <2>1. n \in Nat
    BY FS_CardinalityType
  <2> HIDE DEF n
  <2> QED BY <2>1, FS_Interval
<1>2. ASSUME NEW r \in S
      PROVE  Cardinality(above[r]) \in Nat /\ Cardinality(above[r]) + 1 \in 1..n /\ IsFiniteSet(above[r])
  <2>1. IsFiniteSet(S \ {r}) /\ Cardinality(S \ {r}) = n - 1
    BY FS_RemoveElement
  <2>2. IsFiniteSet(above[r]) /\ Cardinality(above[r]) <= n - 1
    BY <2>1, FS_Subset
  <2>3. Cardinality(above[r]) \in Nat
    BY <2>2, FS_CardinalityType
  <2> QED BY <1>1, <2>2, <2>3
<1>3. ASSUME NEW r \in S, NEW s \in S, r \in above[s]
      PROVE  Cardinality(above[r]) < Cardinality(above[s])
  <2>1. above[r] \subseteq above[s] \ {r}
    BY <1>3
  <2>2. IsFiniteSet(above[s] \ {r}) /\ Cardinality(above[s] \ {r}) = Cardinality(above[s]) - 1
    BY <1>2, <1>3, FS_RemoveElement
  <2>3. Cardinality(above[r]) <= Cardinality(above[s]) - 1
    BY <2>1, <2>2, FS_Subset
  <2> QED BY <1>2, <2>3
<1>4. ASSUME NEW r \in S, NEW s \in S, Cardinality(above[r]) = Cardinality(above[s])
      PROVE  r = s
  BY <1>2, <1>3, <1>4
<1>5. f \in Injection(S, 1..n)
  BY <1>2, <1>4 DEF Injection, IsInjective
<1>6. f \in Surjection(S, 1..n)
  BY <1>1, <1>5, FS_Injection
<1>7. \A k \in 1..n : \E r \in S : f[r] = k
  BY <1>6 DEF Surjection
<1>8. ASSUME NEW r \in S, NEW s \in S, Cardinality(above[r]) < Cardinality(above[s])
      PROVE  r \in above[s]
  BY <1>2, <1>3, <1>8
<1> QED BY <1>1, <1>2, <1>7, <1>8

-----------------------------------------------------------------------------
(* Sequences, one element at a time. *)

IsSequence(q) == Len(q) \in Nat /\ q = [k \in 1..Len(q) |-> q[k]]

LEMMA Appended ==
  ASSUME NEW q, IsSequence(q), NEW x
  PROVE  LET r == Append(q, x)
         IN /\ IsSequence(r) /\ Len(r) = Len(q) + 1 /\ DOMAIN r = 1..(Len(q) + 1)
            /\ r[Len(q) + 1] = x /\ \A k \in 1..Len(q) : r[k] = q[k]
<1> DEFINE n == Len(q)
           S == {q[k] : k \in 1..n} \cup {x}
           r == Append(q, x)
<1>1. n \in Nat /\ q = [k \in 1..n |-> q[k]]
  BY DEF IsSequence
<1>2. q \in Seq(S) /\ x \in S
  BY <1>1
<1> HIDE DEF S
<1>3. /\ r \in Seq(S) /\ Len(r) = n + 1 /\ r[n + 1] = x
      /\ \A k \in 1..n : r[k] = q[k]
  BY <1>2, AppendProperties
<1> HIDE DEF r
<1>4. DOMAIN r = 1..Len(r) /\ r \in [1..Len(r) -> S] /\ Len(r) \in Nat
  BY <1>3, LenProperties
<1>5. r = [k \in 1..Len(r) |-> r[k]]
  BY <1>4
<1> QED BY <1>1, <1>3, <1>4, <1>5 DEF IsSequence, r, n

LEMMA EmptySequence == IsSequence(<<>>) /\ Len(<<>>) = 0
BY DEF IsSequence

(* A part of a sequence, two in a row, one without an element. *)
LEMMA PartOf ==
  ASSUME NEW q, IsSequence(q), NEW m \in 1..(Len(q) + 1), NEW n \in (m - 1)..Len(q)
  PROVE  LET r == SubSeq(q, m, n)
         IN /\ IsSequence(r) /\ Len(r) = n - m + 1
            /\ \A k \in 1..(n - m + 1) : r[k] = q[m + k - 1]
<1> DEFINE S == {q[k] : k \in 1..Len(q)}
           r == SubSeq(q, m, n)
           l == n - m + 1
<1>1. Len(q) \in Nat /\ m \in Int /\ n \in Int /\ l \in Nat
  BY DEF IsSequence
<1>2. \A k \in m..n : q[k] \in S
  BY <1>1
<1> HIDE DEF S
<1>3. /\ r \in Seq(S) /\ Len(r) = IF m <= n THEN n - m + 1 ELSE 0
      /\ \A k \in 1..(n - m + 1) : r[k] = q[m + k - 1]
  BY <1>1, <1>2, SubSeqProperties
<1>4. Len(r) = l
  BY <1>1, <1>3
<1> HIDE DEF r
<1>5. r = [k \in 1..Len(r) |-> r[k]]
  BY <1>3, LenProperties
<1> QED BY <1>1, <1>3, <1>4, <1>5 DEF IsSequence, r

LEMMA Joined ==
  ASSUME NEW p, IsSequence(p), NEW q, IsSequence(q)
  PROVE  LET r == p \o q
         IN /\ IsSequence(r) /\ Len(r) = Len(p) + Len(q)
            /\ \A k \in 1..(Len(p) + Len(q)) :
                 r[k] = IF k <= Len(p) THEN p[k] ELSE q[k - Len(p)]
<1> DEFINE S == {p[k] : k \in 1..Len(p)} \cup {q[k] : k \in 1..Len(q)}
           r == p \o q
<1>1. p \in Seq(S) /\ q \in Seq(S) /\ Len(p) \in Nat /\ Len(q) \in Nat
  BY DEF IsSequence
<1> HIDE DEF S
<1>2. /\ r \in Seq(S) /\ Len(r) = Len(p) + Len(q)
      /\ \A k \in 1..(Len(p) + Len(q)) : r[k] = IF k <= Len(p) THEN p[k] ELSE q[k - Len(p)]
  BY <1>1, ConcatProperties
<1> HIDE DEF r
<1>3. r = [k \in 1..Len(r) |-> r[k]]
  BY <1>2, LenProperties
<1> QED BY <1>1, <1>2, <1>3 DEF IsSequence, r

LEMMA Removed ==
  ASSUME NEW q, IsSequence(q), NEW i \in 1..Len(q)
  PROVE  LET r == RemoveAt(q, i)
         IN /\ IsSequence(r) /\ Len(r) = Len(q) - 1
            /\ \A k \in 1..(Len(q) - 1) : r[k] = IF k < i THEN q[k] ELSE q[k + 1]
<1> DEFINE n == Len(q)
           p == SubSeq(q, 1, i - 1)
           s == SubSeq(q, i + 1, n)
           r == RemoveAt(q, i)
<1>1. n \in Nat /\ i \in Int /\ i - 1 \in (1 - 1)..n /\ i + 1 \in 1..(n + 1) /\ n \in ((i + 1) - 1)..n
      /\ 1 \in 1..(n + 1)
  BY DEF IsSequence
<1>2. /\ IsSequence(p) /\ Len(p) = (i - 1) - 1 + 1
      /\ \A k \in 1..((i - 1) - 1 + 1) : p[k] = q[1 + k - 1]
  BY <1>1, PartOf
<1>3. /\ IsSequence(s) /\ Len(s) = n - (i + 1) + 1
      /\ \A k \in 1..(n - (i + 1) + 1) : s[k] = q[(i + 1) + k - 1]
  BY <1>1, PartOf
<1>4. r = p \o s
  BY DEF RemoveAt
<1> HIDE DEF p, s, r, n
<1>5. /\ IsSequence(r) /\ Len(r) = Len(p) + Len(s)
      /\ \A k \in 1..(Len(p) + Len(s)) : r[k] = IF k <= Len(p) THEN p[k] ELSE s[k - Len(p)]
  BY <1>2, <1>3, <1>4, Joined
<1>6. Len(p) = i - 1 /\ Len(s) = n - i /\ Len(p) + Len(s) = n - 1
  BY <1>1, <1>2, <1>3
<1>7. ASSUME NEW k \in 1..(n - 1) PROVE r[k] = IF k < i THEN q[k] ELSE q[k + 1]
  <2>1. CASE k < i
    <3>1. k \in 1..(i - 1) /\ k <= i - 1 /\ 1 + k - 1 = k /\ (i - 1) - 1 + 1 = i - 1
      BY <1>1, <2>1
    <3>2. p[k] = q[k]
      BY <1>2, <3>1
    <3> QED BY <1>5, <1>6, <2>1, <3>1, <3>2
  <2>2. CASE ~(k < i)
    <3>1. /\ ~(k <= i - 1) /\ k - (i - 1) \in 1..(n - (i + 1) + 1)
          /\ (i + 1) + (k - (i - 1)) - 1 = k + 1
      BY <1>1, <2>2
    <3>2. s[k - (i - 1)] = q[k + 1]
      BY <1>3, <3>1
    <3> QED BY <1>5, <1>6, <2>2, <3>1, <3>2
  <2> QED BY <2>1, <2>2
<1> QED BY <1>5, <1>6, <1>7 DEF r, n

=============================================================================
