------------------------------ MODULE DataLemmas ------------------------------
(***************************************************************************)
(* Lemmas about the data the modules are built from: induction, sums over  *)
(* finite sets, filters, and sequences that hold nothing twice.  The       *)
(* library's induction theorems are about operators; here an induction is  *)
(* over a set of numbers or of sets, whose least counterexample WFMin      *)
(* finds.                                                                  *)
(***************************************************************************)
EXTENDS Filters, Functions, FiniteSetTheorems, SequenceTheorems,
        WellFoundedInduction, TLAPS

-----------------------------------------------------------------------------
(* Induction.                                                              *)

\* Every set of naturals that is not empty has a least element.
LEMMA LeastNatural ==
    ASSUME NEW T \in SUBSET Nat, T # {}
    PROVE  \E x \in T : \A y \in T : x <= y
<1> DEFINE R == {p \in Nat \X Nat : p[1] < p[2]}
<1>1. IsWellFoundedOn(R, Nat)
    <2>1. R = OpToRel(<, Nat)
        BY DEF OpToRel
    <2>2. QED
        BY <2>1, NatLessThanWellFounded, Zenon
<1>2. PICK x \in T : \A y \in T : ~ (<<y, x>> \in R)
    BY <1>1, WFMin, Zenon
<1>3. \A y \in T : ~ (y < x)
    <2>1. \A y \in T : y < x => <<y, x>> \in Nat \X Nat /\ <<y, x>>[1] < <<y, x>>[2]
        OBVIOUS
    <2>2. QED
        BY <1>2, <2>1
<1>4. QED
    BY <1>3

\* A set of naturals with 0 that is closed under successor has them all.
LEMMA NatSetInduction ==
    ASSUME NEW P \in SUBSET Nat, 0 \in P, \A n \in P : n + 1 \in P
    PROVE  P = Nat
<1> SUFFICES ASSUME Nat \ P # {} PROVE FALSE
    OBVIOUS
<1>1. PICK x \in Nat \ P : \A y \in Nat \ P : x <= y
    BY LeastNatural
<1>2. x - 1 \in P
    BY <1>1
<1>3. QED
    BY <1>1, <1>2

\* A set of subsets of a finite set has them all if it has the empty one and
\* every one whose subsets with one element less it has.
LEMMA SubsetInduction ==
    ASSUME NEW S, IsFiniteSet(S), NEW P \in SUBSET (SUBSET S), {} \in P,
           \A s \in SUBSET S : s # {} /\ (\A x \in s : s \ {x} \in P) => s \in P
    PROVE  P = SUBSET S
<1> DEFINE Q == {n \in Nat : \A T \in SUBSET S : Cardinality(T) = n => T \in P}
<1>1. \A T \in SUBSET S : IsFiniteSet(T) /\ Cardinality(T) \in Nat
    BY FS_Subset, FS_CardinalityType
<1>2. 0 \in Q
    BY <1>1, FS_EmptySet
<1>3. ASSUME NEW n \in Q PROVE n + 1 \in Q
    <2>1. n \in Nat /\ n + 1 \in Nat /\ n + 1 # 0
        OBVIOUS
    <2>2. ASSUME NEW T \in SUBSET S, Cardinality(T) = n + 1 PROVE T \in P
        <3>1. T # {}
            BY <2>1, <2>2, FS_EmptySet
        <3>2. \A x \in T : Cardinality(T \ {x}) = n
            <4> SUFFICES ASSUME NEW x \in T PROVE Cardinality(T \ {x}) = n
                OBVIOUS
            <4>1. IsFiniteSet(T)
                BY <1>1
            <4>2. Cardinality(T \ {x}) = Cardinality(T) - 1
                BY <4>1, FS_RemoveElement
            <4>3. QED
                BY <2>1, <2>2, <4>2
        <3>3. \A x \in T : T \ {x} \in P
            BY <3>2
        <3>4. QED
            BY <3>1, <3>3
    <2>3. QED
        BY <2>1, <2>2
<1>4. Q = Nat
    <2> HIDE DEF Q
    <2>1. Q \in SUBSET Nat
        BY DEF Q
    <2>2. QED
        BY <1>2, <1>3, <2>1, NatSetInduction
<1>5. QED
    BY <1>1, <1>4

-----------------------------------------------------------------------------
(* The recursion behind SumFunctionOnSet has a solution.                   *)

SumStep(w, g, s) == IF s = {} THEN 0
                    ELSE LET x == CHOOSE x \in s : TRUE IN w[x] + g[s \ {x}]
IsSum(w, S, g) == g = [s \in SUBSET S |-> SumStep(w, g, s)]
UpTo(S, n) == {s \in SUBSET S : Cardinality(s) <= n}

\* Sets of at most n + 1 elements are summed from sets of at most n.
LEMMA SumExists ==
    ASSUME NEW w, NEW S, IsFiniteSet(S)
    PROVE  \E g : IsSum(w, S, g)
<1> DEFINE Q == {n \in Nat : \E g : g = [s \in UpTo(S, n) |-> SumStep(w, g, s)]}
<1>1. \A T \in SUBSET S : IsFiniteSet(T) /\ Cardinality(T) \in Nat
    BY FS_Subset, FS_CardinalityType
<1>2. 0 \in Q
    <2> DEFINE g == [s \in UpTo(S, 0) |-> 0]
    <2>1. \A s \in UpTo(S, 0) : s = {}
        BY <1>1, FS_EmptySet DEF UpTo
    <2>2. g = [s \in UpTo(S, 0) |-> SumStep(w, g, s)]
        BY <2>1 DEF SumStep
    <2>3. QED
        BY <2>2
<1>3. ASSUME NEW n \in Q PROVE n + 1 \in Q
    <2>1. PICK g : g = [s \in UpTo(S, n) |-> SumStep(w, g, s)]
        OBVIOUS
    <2> DEFINE h == [s \in UpTo(S, n + 1) |-> SumStep(w, g, s)]
    <2>2. ASSUME NEW s \in UpTo(S, n + 1) PROVE SumStep(w, g, s) = SumStep(w, h, s)
        <3>1. CASE s = {}
            BY <3>1 DEF SumStep
        <3>2. CASE s # {}
            <4> DEFINE x == CHOOSE x \in s : TRUE
                       t == s \ {x}
            <4>1. x \in s
                BY <3>2
            <4> HIDE DEF x
            <4>2. t \in SUBSET S /\ Cardinality(t) \in Nat /\ Cardinality(s) \in Nat
                  /\ Cardinality(t) = Cardinality(s) - 1
                BY <1>1, <4>1, FS_RemoveElement DEF UpTo
            <4>3. t \in UpTo(S, n) /\ t \in UpTo(S, n + 1)
                BY <4>2 DEF UpTo
            <4>4. g[t] = h[t]
                BY <2>1, <4>3
            <4>5. QED
                BY <3>2, <4>4 DEF SumStep, x
        <3>3. QED
            BY <3>1, <3>2
    <2>3. h = [s \in UpTo(S, n + 1) |-> SumStep(w, h, s)]
        BY <2>2
    <2>4. n + 1 \in Nat
        OBVIOUS
    <2> HIDE DEF h
    <2>5. QED
        BY <2>3, <2>4
<1>4. Q = Nat
    <2> HIDE DEF Q
    <2>1. Q \in SUBSET Nat
        BY DEF Q
    <2>2. QED
        BY <1>2, <1>3, <2>1, NatSetInduction
<1>5. UpTo(S, Cardinality(S)) = SUBSET S /\ Cardinality(S) \in Nat
    BY <1>1, FS_Subset DEF UpTo
<1>6. PICK g : g = [s \in UpTo(S, Cardinality(S)) |-> SumStep(w, g, s)]
    BY <1>4, <1>5
<1>7. IsSum(w, S, g)
    BY <1>5, <1>6 DEF IsSum
<1>8. QED
    BY <1>7

LEMMA SumDefined ==
    ASSUME NEW w, NEW S, IsFiniteSet(S)
    PROVE  \E g : IsSum(w, S, g) /\ SumFunctionOnSet(w, S) = g[S]
<1> DEFINE g == CHOOSE g : g = [s \in SUBSET S |->
                        IF s = {} THEN 0
                        ELSE w[CHOOSE x \in s : TRUE] + g[s \ {CHOOSE x \in s : TRUE}]]
<1>1. SumFunctionOnSet(w, S) = g[S]
    BY DEF SumFunctionOnSet, FoldFunctionOnSet, MapThenFoldSet
<1>2. PICK h : IsSum(w, S, h)
    BY SumExists
<1>3. h = [s \in SUBSET S |-> IF s = {} THEN 0
                              ELSE w[CHOOSE x \in s : TRUE] + h[s \ {CHOOSE x \in s : TRUE}]]
    BY <1>2 DEF IsSum, SumStep
<1>4. g = [s \in SUBSET S |-> IF s = {} THEN 0
                              ELSE w[CHOOSE x \in s : TRUE] + g[s \ {CHOOSE x \in s : TRUE}]]
    BY <1>3
<1>5. IsSum(w, S, g)
    BY <1>4 DEF IsSum, SumStep
<1>6. QED
    BY <1>1, <1>5

\* Two solutions agree where their domains and weights do.
LEMMA SumUnique ==
    ASSUME NEW v, NEW w, NEW S, NEW T \in SUBSET S, IsFiniteSet(S), NEW g, NEW h,
           IsSum(v, S, g), IsSum(w, T, h), \A x \in T : v[x] = w[x]
    PROVE  g[T] = h[T]
<1> DEFINE P == {s \in SUBSET T : g[s] = h[s]}
<1>1. \A s \in SUBSET T : g[s] = SumStep(v, g, s) /\ h[s] = SumStep(w, h, s)
    BY DEF IsSum
<1>2. {} \in P
    BY <1>1 DEF SumStep
<1>3. ASSUME NEW s \in SUBSET T, s # {}, \A x \in s : s \ {x} \in P PROVE s \in P
    <2> DEFINE x == CHOOSE x \in s : TRUE
    <2>1. x \in s
        BY <1>3
    <2>2. g[s] = v[x] + g[s \ {x}] /\ h[s] = w[x] + h[s \ {x}]
        BY <1>1, <1>3 DEF SumStep
    <2>3. QED
        BY <1>3, <2>1, <2>2
<1>4. P = SUBSET T
    <2> HIDE DEF P
    <2>1. P \in SUBSET (SUBSET T) /\ IsFiniteSet(T)
        BY FS_Subset DEF P
    <2>2. QED
        BY <1>2, <1>3, <2>1, SubsetInduction
<1>5. QED
    BY <1>4

-----------------------------------------------------------------------------
(* The facts themselves.                                                   *)

\* Nothing sums to 0.
LEMMA SumEmpty == \A w : SumFunctionOnSet(w, {}) = 0
<1> SUFFICES ASSUME NEW w PROVE SumFunctionOnSet(w, {}) = 0
    OBVIOUS
<1>1. PICK g : IsSum(w, {}, g) /\ SumFunctionOnSet(w, {}) = g[{}]
    BY SumDefined, FS_EmptySet
<1>2. QED
    BY <1>1 DEF IsSum, SumStep

\* A sum depends on the weights of its indices alone.
LEMMA SumCongruence ==
    ASSUME NEW v, NEW w, NEW S, IsFiniteSet(S), \A x \in S : v[x] = w[x]
    PROVE  SumFunctionOnSet(v, S) = SumFunctionOnSet(w, S)
<1>1. PICK g : IsSum(v, S, g) /\ SumFunctionOnSet(v, S) = g[S]
    BY SumDefined
<1>2. PICK h : IsSum(w, S, h) /\ SumFunctionOnSet(w, S) = h[S]
    BY SumDefined
<1>3. QED
    BY <1>1, <1>2, SumUnique

\* A sum of naturals is a natural, and any one index can be taken out of it.
LEMMA SumRemove ==
    ASSUME NEW w, NEW S, IsFiniteSet(S), \A x \in S : w[x] \in Nat
    PROVE  /\ SumFunctionOnSet(w, S) \in Nat
           /\ \A x \in S : SumFunctionOnSet(w, S) = w[x] + SumFunctionOnSet(w, S \ {x})
<1>1. PICK g : IsSum(w, S, g) /\ SumFunctionOnSet(w, S) = g[S]
    BY SumDefined
<1>2. \A s \in SUBSET S : IsFiniteSet(s) /\ Cardinality(s) \in Nat
    BY FS_Subset, FS_CardinalityType
<1>3. \A s \in SUBSET S : g[s] = SumStep(w, g, s)
    BY <1>1 DEF IsSum
<1>4. \A T \in SUBSET S : SumFunctionOnSet(w, T) = g[T]
    <2> SUFFICES ASSUME NEW T \in SUBSET S PROVE SumFunctionOnSet(w, T) = g[T]
        OBVIOUS
    <2>1. PICK h : IsSum(w, T, h) /\ SumFunctionOnSet(w, T) = h[T]
        BY <1>2, SumDefined
    <2>2. QED
        BY <1>1, <2>1, SumUnique
<1> DEFINE Q == {s \in SUBSET S : g[s] \in Nat}
           P == {s \in SUBSET S : \A x \in s : g[s] = w[x] + g[s \ {x}]}
<1>5. \A s \in SUBSET S : s # {} => \E c \in s : g[s] = w[c] + g[s \ {c}]
    <2> SUFFICES ASSUME NEW s \in SUBSET S, s # {} PROVE \E c \in s : g[s] = w[c] + g[s \ {c}]
        OBVIOUS
    <2> DEFINE c == CHOOSE x \in s : TRUE
    <2>1. c \in s
        OBVIOUS
    <2>2. g[s] = w[c] + g[s \ {c}]
        BY <1>3 DEF SumStep
    <2>3. QED
        BY <2>1, <2>2
<1>6. Q = SUBSET S
    <2>1. {} \in Q
        BY <1>3 DEF SumStep
    <2>2. ASSUME NEW s \in SUBSET S, s # {}, \A x \in s : s \ {x} \in Q PROVE s \in Q
        <3>1. PICK c \in s : g[s] = w[c] + g[s \ {c}]
            BY <1>5, <2>2
        <3>2. w[c] \in Nat /\ g[s \ {c}] \in Nat
            BY <2>2
        <3>3. QED
            BY <3>1, <3>2
    <2> HIDE DEF Q
    <2>3. Q \in SUBSET (SUBSET S)
        BY DEF Q
    <2>4. QED
        BY <2>1, <2>2, <2>3, SubsetInduction
<1>7. P = SUBSET S
    <2>1. {} \in P
        OBVIOUS
    <2>2. ASSUME NEW s \in SUBSET S, s # {}, \A x \in s : s \ {x} \in P PROVE s \in P
        <3>1. PICK c \in s : g[s] = w[c] + g[s \ {c}]
            BY <1>5, <2>2
        <3>2. ASSUME NEW x \in s, x # c PROVE g[s] = w[x] + g[s \ {x}]
            <4>1. x \in s \ {c} /\ c \in s \ {x} /\ (s \ {c}) \ {x} = (s \ {x}) \ {c}
                BY <3>2
            <4> DEFINE t == (s \ {c}) \ {x}
            <4>2. g[s \ {c}] = w[x] + g[t] /\ g[s \ {x}] = w[c] + g[t]
                BY <2>2, <4>1
            <4>3. w[x] \in Nat /\ w[c] \in Nat /\ g[t] \in Nat
                BY <1>6
            <4> HIDE DEF t
            <4>4. QED
                BY <3>1, <4>2, <4>3
        <3>3. QED
            BY <3>1, <3>2
    <2> HIDE DEF P
    <2>3. P \in SUBSET (SUBSET S)
        BY DEF P
    <2>4. QED
        BY <2>1, <2>2, <2>3, SubsetInduction
<1>8. S \in P /\ S \in Q
    BY <1>6, <1>7
<1>9. QED
    BY <1>1, <1>4, <1>8

\* The sum over a set and the sum over the rest make the whole sum.
LEMMA SumSplit ==
    ASSUME NEW w, NEW S, IsFiniteSet(S), \A x \in S : w[x] \in Nat, NEW T \in SUBSET S
    PROVE  SumFunctionOnSet(w, S) = SumFunctionOnSet(w, T) + SumFunctionOnSet(w, S \ T)
<1> DEFINE P == {t \in SUBSET T : SumFunctionOnSet(w, S) = SumFunctionOnSet(w, t) + SumFunctionOnSet(w, S \ t)}
<1>1. \A t \in SUBSET S : IsFiniteSet(t) /\ SumFunctionOnSet(w, t) \in Nat
    BY FS_Subset, SumRemove
<1>2. {} \in P
    BY <1>1, SumEmpty
<1>3. ASSUME NEW t \in SUBSET T, t # {}, \A x \in t : t \ {x} \in P PROVE t \in P
    <2>1. PICK x \in t : TRUE
        BY <1>3
    <2>2. SumFunctionOnSet(w, t) = w[x] + SumFunctionOnSet(w, t \ {x})
        BY <1>1, <2>1, SumRemove
    <2>3. SumFunctionOnSet(w, S \ (t \ {x})) = w[x] + SumFunctionOnSet(w, (S \ (t \ {x})) \ {x})
        <3>1. x \in S \ (t \ {x}) /\ S \ (t \ {x}) \in SUBSET S
            BY <2>1
        <3>2. QED
            BY <1>1, <3>1, SumRemove
    <2>4. (S \ (t \ {x})) \ {x} = S \ t
        BY <2>1
    <2>5. SumFunctionOnSet(w, S) = SumFunctionOnSet(w, t \ {x}) + SumFunctionOnSet(w, S \ (t \ {x}))
        BY <1>3, <2>1
    <2>6. /\ SumFunctionOnSet(w, t \ {x}) \in Nat /\ SumFunctionOnSet(w, S \ t) \in Nat
          /\ w[x] \in Nat
        BY <1>1, <2>1
    <2>7. QED
        BY <2>2, <2>3, <2>4, <2>5, <2>6
<1>4. P = SUBSET T
    <2> HIDE DEF P
    <2>1. P \in SUBSET (SUBSET T) /\ IsFiniteSet(T)
        BY FS_Subset DEF P
    <2>2. QED
        BY <1>2, <1>3, <2>1, SubsetInduction
<1>5. T \in P
    BY <1>4
<1>6. QED
    BY <1>5

\* A sum can be taken over other names for the same things.
LEMMA SumRenamed ==
    ASSUME NEW v, NEW w, NEW S, IsFiniteSet(S), NEW f, NEW R, IsFiniteSet(R),
           \A x \in S : f[x] \in R, \A x, y \in S : f[x] = f[y] => x = y,
           \A x \in S : v[x] \in Nat /\ w[f[x]] = v[x]
    PROVE  SumFunctionOnSet(v, S) = SumFunctionOnSet(w, {f[x] : x \in S})
<1> DEFINE F(s) == {f[x] : x \in s}
           P == {s \in SUBSET S : SumFunctionOnSet(v, s) = SumFunctionOnSet(w, F(s))}
<1>1. {} \in P
    <2>1. F({}) = {}
        OBVIOUS
    <2>2. QED
        BY <2>1, SumEmpty
<1>2. ASSUME NEW s \in SUBSET S, s # {}, \A x \in s : s \ {x} \in P PROVE s \in P
    <2>1. PICK x \in s : TRUE
        BY <1>2
    <2>2. SumFunctionOnSet(v, s) = v[x] + SumFunctionOnSet(v, s \ {x})
        BY <2>1, SumRemove, FS_Subset
    <2>3. SumFunctionOnSet(w, F(s)) = w[f[x]] + SumFunctionOnSet(w, F(s) \ {f[x]})
        <3>1. F(s) \in SUBSET R /\ f[x] \in F(s) /\ \A y \in F(s) : w[y] \in Nat
            BY <2>1
        <3> HIDE DEF F
        <3>2. IsFiniteSet(F(s))
            BY <3>1, FS_Subset
        <3>3. QED
            BY <3>1, <3>2, SumRemove
    <2>4. F(s) \ {f[x]} = F(s \ {x})
        BY <2>1
    <2>5. SumFunctionOnSet(v, s \ {x}) = SumFunctionOnSet(w, F(s \ {x}))
        BY <1>2, <2>1
    <2>6. QED
        BY <2>1, <2>2, <2>3, <2>4, <2>5
<1>3. P = SUBSET S
    <2> HIDE DEF P
    <2>1. P \in SUBSET (SUBSET S)
        BY DEF P
    <2>2. QED
        BY <1>1, <1>2, <2>1, SubsetInduction
<1>4. S \in P
    BY <1>3
<1>5. QED
    BY <1>4

\* Sums add up index by index.
LEMMA SumAdd ==
    ASSUME NEW u, NEW v, NEW w, NEW S, IsFiniteSet(S),
           \A x \in S : u[x] \in Nat /\ v[x] \in Nat /\ w[x] = u[x] + v[x]
    PROVE  SumFunctionOnSet(w, S) = SumFunctionOnSet(u, S) + SumFunctionOnSet(v, S)
<1> DEFINE P == {s \in SUBSET S : SumFunctionOnSet(w, s) = SumFunctionOnSet(u, s) + SumFunctionOnSet(v, s)}
<1>1. {} \in P
    BY SumEmpty
<1>2. ASSUME NEW s \in SUBSET S, s # {}, \A x \in s : s \ {x} \in P PROVE s \in P
    <2>1. PICK x \in s : TRUE
        BY <1>2
    <2>2. /\ IsFiniteSet(s) /\ IsFiniteSet(s \ {x})
          /\ (\A y \in s : w[y] \in Nat) /\ (\A y \in s : u[y] \in Nat) /\ (\A y \in s : v[y] \in Nat)
        BY FS_Subset
    <2>3. /\ SumFunctionOnSet(w, s) = w[x] + SumFunctionOnSet(w, s \ {x})
          /\ SumFunctionOnSet(u, s) = u[x] + SumFunctionOnSet(u, s \ {x})
          /\ SumFunctionOnSet(v, s) = v[x] + SumFunctionOnSet(v, s \ {x})
        <3>1. SumFunctionOnSet(w, s) = w[x] + SumFunctionOnSet(w, s \ {x})
            BY <2>2, SumRemove
        <3>2. SumFunctionOnSet(u, s) = u[x] + SumFunctionOnSet(u, s \ {x})
            BY <2>2, SumRemove
        <3>3. SumFunctionOnSet(v, s) = v[x] + SumFunctionOnSet(v, s \ {x})
            BY <2>2, SumRemove
        <3>4. QED
            BY <3>1, <3>2, <3>3
    <2>4. SumFunctionOnSet(u, s \ {x}) \in Nat /\ SumFunctionOnSet(v, s \ {x}) \in Nat
        BY <2>2, SumRemove
    <2>5. SumFunctionOnSet(w, s \ {x}) = SumFunctionOnSet(u, s \ {x}) + SumFunctionOnSet(v, s \ {x})
        BY <1>2, <2>1
    <2>6. QED
        BY <2>1, <2>3, <2>4, <2>5
<1>3. P = SUBSET S
    <2> HIDE DEF P
    <2>1. P \in SUBSET (SUBSET S)
        BY DEF P
    <2>2. QED
        BY <1>1, <1>2, <2>1, SubsetInduction
<1>4. S \in P
    BY <1>3
<1>5. QED
    BY <1>4

\* Zeros sum to 0.
LEMMA SumZero ==
    ASSUME NEW w, NEW S, IsFiniteSet(S), \A x \in S : w[x] = 0
    PROVE  SumFunctionOnSet(w, S) = 0
<1>1. SumFunctionOnSet(w, S) = SumFunctionOnSet(w, S) + SumFunctionOnSet(w, S)
    BY SumAdd
<1>2. SumFunctionOnSet(w, S) \in Nat
    BY SumRemove
<1>3. \A a \in Nat : a = a + a => a = 0
    OBVIOUS
<1>4. QED
    BY <1>1, <1>2, <1>3, Zenon

\* A change at one index changes the sum by as much.
LEMMA SumUpdate ==
    ASSUME NEW v, NEW w, NEW S, IsFiniteSet(S), NEW x \in S,
           \A y \in S : v[y] \in Nat /\ w[y] \in Nat, \A y \in S \ {x} : v[y] = w[y]
    PROVE  SumFunctionOnSet(w, S) + v[x] = SumFunctionOnSet(v, S) + w[x]
<1>1. IsFiniteSet(S \ {x}) /\ S \ {x} \in SUBSET S
    BY FS_Subset
<1>2. /\ SumFunctionOnSet(w, S) = w[x] + SumFunctionOnSet(w, S \ {x})
      /\ SumFunctionOnSet(v, S) = v[x] + SumFunctionOnSet(v, S \ {x})
    BY SumRemove
<1>3. SumFunctionOnSet(w, S \ {x}) = SumFunctionOnSet(v, S \ {x})
    BY <1>1, SumCongruence
<1>4. SumFunctionOnSet(w, S \ {x}) \in Nat
    BY <1>1, SumRemove
<1>5. QED
    BY <1>2, <1>3, <1>4

-----------------------------------------------------------------------------
(* What a sequence holds.                                                  *)

\* What a sequence reaches with one more.
LEMMA RangeAppend ==
    ASSUME NEW T, NEW p \in Seq(T), NEW x \in T
    PROVE  Range(Append(p, x)) = Range(p) \cup {x}
<1> DEFINE q == Append(p, x)
<1>1. /\ Len(p) \in Nat /\ Len(q) = Len(p) + 1 /\ DOMAIN q = 1 .. Len(p) + 1 /\ DOMAIN p = 1 .. Len(p)
      /\ \A i \in 1 .. Len(p) : q[i] = p[i]
      /\ q[Len(p) + 1] = x
    OBVIOUS
<1>2. \A i : i \in 1 .. Len(p) + 1 <=> i \in 1 .. Len(p) \/ i = Len(p) + 1
    BY <1>1
<1> HIDE DEF q
<1>3. \A y : y \in Range(q) <=> \E i \in 1 .. Len(p) + 1 : y = q[i]
    BY <1>1 DEF Range
<1>4. \A y : y \in Range(p) <=> \E i \in 1 .. Len(p) : y = p[i]
    BY <1>1 DEF Range
<1> QED
    BY <1>1, <1>2, <1>3, <1>4 DEF q

\* What two in a row reach.
LEMMA RangeConcat ==
    ASSUME NEW T, NEW s \in Seq(T), NEW t \in Seq(T)
    PROVE  s \o t \in Seq(T) /\ Range(s \o t) = Range(s) \cup Range(t)
<1> DEFINE q == s \o t
           a == Len(s)
           b == Len(t)
<1>1. /\ a \in Nat /\ b \in Nat /\ q \in Seq(T)
      /\ DOMAIN q = 1 .. a + b /\ DOMAIN s = 1 .. a /\ DOMAIN t = 1 .. b
      /\ \A i \in 1 .. a : q[i] = s[i]
      /\ \A i \in 1 .. b : q[a + i] = t[i]
    OBVIOUS
<1> HIDE DEF q, a, b
<1>2. /\ \A y : y \in Range(q) <=> \E i \in 1 .. a + b : y = q[i]
      /\ \A y : y \in Range(s) <=> \E i \in 1 .. a : y = s[i]
      /\ \A y : y \in Range(t) <=> \E i \in 1 .. b : y = t[i]
    BY <1>1 DEF Range
<1>3. \A i \in 1 .. a + b : i \in 1 .. a \/ (i - a \in 1 .. b /\ i = a + (i - a))
    BY <1>1
<1>4. \A i \in 1 .. a + b : q[i] \in Range(s) \cup Range(t)
    <2> TAKE i \in 1 .. a + b
    <2>1. CASE i \in 1 .. a
        BY <1>1, <1>2, <2>1
    <2>2. CASE i - a \in 1 .. b /\ i = a + (i - a)
        <3>1. q[a + (i - a)] = t[i - a]
            BY <1>1, <2>2
        <3> QED
            BY <1>2, <2>2, <3>1
    <2> QED
        BY <1>3, <2>1, <2>2
<1>5. \A i \in 1 .. a : i \in 1 .. a + b
    BY <1>1
<1>6. \A i \in 1 .. b : a + i \in 1 .. a + b
    BY <1>1
<1>7. Range(s) \cup Range(t) \subseteq Range(q)
    BY <1>1, <1>2, <1>5, <1>6
<1>8. Range(q) \subseteq Range(s) \cup Range(t)
    BY <1>2, <1>4
<1> QED
    BY <1>1, <1>7, <1>8 DEF q

-----------------------------------------------------------------------------
(* What Pick returns.                                                      *)

PickStep(s, S, g, n) ==
    IF n = 0 THEN <<>> ELSE IF s[n] \in S THEN Append(g[n - 1], s[n]) ELSE g[n - 1]

\* The recursion behind Pick has a solution: up to n + 1 from up to n.
LEMMA PickExists ==
    ASSUME NEW s, NEW S, NEW m \in Nat
    PROVE  \E g : g = [n \in 0 .. m |-> PickStep(s, S, g, n)]
<1> DEFINE Q == {k \in Nat : \E g : g = [n \in 0 .. k |-> PickStep(s, S, g, n)]}
<1>1. 0 \in Q
    <2> DEFINE g == [n \in 0 .. 0 |-> <<>>]
    <2>1. g = [n \in 0 .. 0 |-> PickStep(s, S, g, n)]
        BY DEF PickStep
    <2> QED
        BY <2>1
<1>2. ASSUME NEW k \in Q PROVE k + 1 \in Q
    <2>1. PICK g : g = [n \in 0 .. k |-> PickStep(s, S, g, n)]
        OBVIOUS
    <2> DEFINE h == [n \in 0 .. k + 1 |-> PickStep(s, S, g, n)]
    <2>2. ASSUME NEW n \in 0 .. k + 1 PROVE PickStep(s, S, g, n) = PickStep(s, S, h, n)
        <3>1. CASE n = 0
            BY <3>1 DEF PickStep
        <3>2. CASE n # 0
            <4>1. n - 1 \in 0 .. k /\ n - 1 \in 0 .. k + 1
                BY <3>2
            <4>2. g[n - 1] = h[n - 1]
                BY <2>1, <4>1
            <4> QED
                BY <3>2, <4>2 DEF PickStep
        <3> QED
            BY <3>1, <3>2
    <2>3. h = [n \in 0 .. k + 1 |-> PickStep(s, S, h, n)]
        BY <2>2
    <2> HIDE DEF h
    <2>4. k + 1 \in Nat
        OBVIOUS
    <2> QED
        BY <2>3, <2>4
<1>3. Q = Nat
    <2> HIDE DEF Q
    <2>1. Q \in SUBSET Nat
        BY DEF Q
    <2> QED
        BY <1>1, <1>2, <2>1, NatSetInduction
<1> QED
    BY <1>3


\* Pick is the last value of that recursion.
LEMMA PickRecursion ==
    ASSUME NEW T, NEW s \in Seq(T), NEW S
    PROVE  \E g : Pick(s, S) = g[Len(s)] /\ g = [n \in 0 .. Len(s) |-> PickStep(s, S, g, n)]
<1> DEFINE m == Len(s)
           g == CHOOSE g : g = [n \in 0 .. m |-> IF n = 0 THEN <<>>
                                  ELSE IF s[n] \in S THEN Append(g[n - 1], s[n]) ELSE g[n - 1]]
<1>1. m \in Nat
    OBVIOUS
<1>2. Pick(s, S) = g[m]
    BY DEF Pick
<1>3. g = [n \in 0 .. m |-> PickStep(s, S, g, n)]
    <2>1. PICK h : h = [n \in 0 .. m |-> PickStep(s, S, h, n)]
        BY <1>1, PickExists
    <2>2. h = [n \in 0 .. m |-> IF n = 0 THEN <<>>
                                  ELSE IF s[n] \in S THEN Append(h[n - 1], s[n]) ELSE h[n - 1]]
        BY <2>1 DEF PickStep
    <2>3. g = [n \in 0 .. m |-> IF n = 0 THEN <<>>
                                  ELSE IF s[n] \in S THEN Append(g[n - 1], s[n]) ELSE g[n - 1]]
        BY <2>2
    <2> QED
        BY <2>3 DEF PickStep
<1> HIDE DEF g
<1> QED
    BY <1>2, <1>3

\* Filtering a sequence that grew at its end.
LEMMA PickAppend ==
    ASSUME NEW T, NEW s \in Seq(T), NEW x \in T, NEW S
    PROVE  Pick(Append(s, x), S) = IF x \in S THEN Append(Pick(s, S), x) ELSE Pick(s, S)
<1> DEFINE m == Len(s)
           t == Append(s, x)
<1>1. /\ m \in Nat /\ t \in Seq(T) /\ Len(t) = m + 1 /\ t[m + 1] = x
      /\ \A i \in 1 .. m : t[i] = s[i]
    OBVIOUS
<1>2. PICK g : Pick(s, S) = g[m] /\ g = [n \in 0 .. m |-> PickStep(s, S, g, n)]
    BY PickRecursion
<1> HIDE DEF t
<1>3. PICK h : Pick(t, S) = h[m + 1] /\ h = [n \in 0 .. m + 1 |-> PickStep(t, S, h, n)]
    BY <1>1, PickRecursion
<1> HIDE DEF m
<1> DEFINE Q == {n \in Nat : n <= m => g[n] = h[n]}
<1>4. 0 \in Q
    BY <1>1, <1>2, <1>3 DEF PickStep
<1>5. ASSUME NEW n \in Q PROVE n + 1 \in Q
    <2> SUFFICES ASSUME n + 1 <= m PROVE g[n + 1] = h[n + 1]
        OBVIOUS
    <2>1. n \in Nat /\ g[n] = h[n] /\ n + 1 \in 0 .. m /\ n + 1 \in 0 .. m + 1 /\ n + 1 # 0
          /\ (n + 1) - 1 = n /\ n + 1 \in 1 .. m
        BY <1>1
    <2>2. t[n + 1] = s[n + 1]
        BY <1>1, <2>1
    <2>3. g[n + 1] = PickStep(s, S, g, n + 1)
        BY <1>2, <2>1
    <2>4. h[n + 1] = PickStep(t, S, h, n + 1)
        BY <1>3, <2>1
    <2> QED
        BY <2>1, <2>2, <2>3, <2>4 DEF PickStep
<1>6. Q = Nat
    <2> HIDE DEF Q
    <2>1. Q \in SUBSET Nat
        BY DEF Q
    <2> QED
        BY <1>4, <1>5, <2>1, NatSetInduction
<1>7. g[m] = h[m]
    BY <1>1, <1>6
<1>8. h[m + 1] = PickStep(t, S, h, m + 1)
    <2>1. m + 1 \in 0 .. m + 1
        BY <1>1
    <2> HIDE DEF Q
    <2> QED
        BY <1>3, <2>1
<1>9. m + 1 # 0 /\ (m + 1) - 1 = m
    BY <1>1
<1>10. h[m + 1] = IF x \in S THEN Append(h[m], x) ELSE h[m]
    BY <1>1, <1>8, <1>9 DEF PickStep
<1> QED
    BY <1>2, <1>3, <1>7, <1>10 DEF t

\* Where each member of the result was: the order is kept.
LEMMA PickPlaces ==
    ASSUME NEW T, NEW s \in Seq(T), NEW S, NEW u, u = Pick(s, S)
    PROVE  /\ u \in Seq(T)
           /\ \E f \in [1 .. Len(u) -> 1 .. Len(s)] :
                 /\ \A i \in 1 .. Len(u) : u[i] = s[f[i]] /\ u[i] \in S
                 /\ \A i, j \in 1 .. Len(u) : i < j => f[i] < f[j]
                 /\ \A k \in 1 .. Len(s) : s[k] \in S => \E i \in 1 .. Len(u) : f[i] = k
<1> DEFINE m == Len(s)
           Places(p, n, f) ==
              /\ \A i \in 1 .. Len(p) : p[i] = s[f[i]] /\ p[i] \in S
              /\ \A i, j \in 1 .. Len(p) : i < j => f[i] < f[j]
              /\ \A k \in 1 .. n : s[k] \in S => \E i \in 1 .. Len(p) : f[i] = k
           Holds(p, n) == p \in Seq(T) /\ \E f \in [1 .. Len(p) -> 1 .. n] : Places(p, n, f)
<1>1. m \in Nat
    OBVIOUS
<1>2. PICK g : u = g[m] /\ g = [n \in 0 .. m |-> PickStep(s, S, g, n)]
    BY PickRecursion
<1> DEFINE Q == {n \in Nat : n <= m => Holds(g[n], n)}
<1>3. 0 \in Q
    <2>1. g[0] = <<>>
        BY <1>1, <1>2 DEF PickStep
    <2>2. <<>> \in Seq(T) /\ Len(<<>>) = 0 /\ 1 .. 0 = {}
        OBVIOUS
    <2>3. [i \in 1 .. 0 |-> i] \in [1 .. 0 -> 1 .. 0]
        OBVIOUS
    <2>4. Places(<<>>, 0, [i \in 1 .. 0 |-> i])
        BY <2>2
    <2> HIDE DEF Places
    <2>5. Holds(<<>>, 0)
        BY <2>2, <2>3, <2>4
    <2> QED
        BY <2>1, <2>5
<1>4. ASSUME NEW n \in Q PROVE n + 1 \in Q
    <2> HIDE DEF Holds
    <2> SUFFICES ASSUME n + 1 <= m PROVE Holds(g[n + 1], n + 1)
        OBVIOUS
    <2> DEFINE p == g[n]
               x == s[n + 1]
    <2>1. n \in Nat /\ n <= m /\ Holds(p, n)
        BY <1>1
    <2>2. n + 1 \in 0 .. m /\ n + 1 \in 1 .. Len(s) /\ (n + 1) - 1 = n /\ n + 1 # 0
        BY <1>1, <2>1
    <2>9. g[n + 1] = PickStep(s, S, g, n + 1)
        BY <1>2, <2>2
    <2>3. g[n + 1] = IF x \in S THEN Append(p, x) ELSE p
        BY <2>2, <2>9 DEF PickStep
    <2>4. x \in T
        BY <2>2
    <2> HIDE DEF p, Places
    <2>5. PICK f \in [1 .. Len(p) -> 1 .. n] : Places(p, n, f)
        BY <2>1 DEF Holds
    <2>6. p \in Seq(T) /\ Len(p) \in Nat
        BY <2>1 DEF Holds
    <2> HIDE DEF x
    <2>7. CASE x \in S
        <3> DEFINE q == Append(p, x)
                   l == Len(p)
                   h == [i \in 1 .. l + 1 |-> IF i = l + 1 THEN n + 1 ELSE f[i]]
        <3>1. /\ q \in Seq(T) /\ Len(q) = l + 1 /\ q[l + 1] = x /\ l \in Nat
              /\ \A i \in 1 .. l : q[i] = p[i]
            BY <2>4, <2>6
        <3>2. \A i \in 1 .. l : f[i] \in 1 .. n
            BY <2>5
        <3> HIDE DEF q, l
        <3>12. l \in Nat
            BY <3>1
        <3>3. \A i : i \in 1 .. l + 1 <=> i \in 1 .. l \/ i = l + 1
            BY <3>12
        <3>4. \A i \in 1 .. l : i # l + 1 /\ i < l + 1
            BY <3>12
        <3>5. h \in [1 .. l + 1 -> 1 .. n + 1]
            BY <2>1, <3>1, <3>2, <3>3, <3>4
        <3>6. h[l + 1] = n + 1 /\ \A i \in 1 .. l : h[i] = f[i]
            BY <3>1, <3>3, <3>4
        <3> HIDE DEF h
        <3>7. \A i \in 1 .. l + 1 : q[i] = s[h[i]] /\ q[i] \in S
            BY <2>5, <2>7, <3>1, <3>3, <3>6 DEF x, l, Places
        <3>8. ASSUME NEW i \in 1 .. l + 1, NEW j \in 1 .. l + 1, i < j
              PROVE  h[i] < h[j]
            <4>1. i \in 1 .. l
                BY <3>1, <3>8
            <4>2. h[i] = f[i] /\ f[i] \in 1 .. n
                BY <3>2, <3>6, <4>1
            <4>3. CASE j = l + 1
                BY <2>1, <3>6, <4>2, <4>3
            <4>4. CASE j \in 1 .. l
                BY <2>5, <3>6, <3>8, <4>1, <4>4 DEF l, Places
            <4> QED
                BY <3>3, <4>3, <4>4
        <3>9. ASSUME NEW k \in 1 .. n + 1, s[k] \in S
              PROVE  \E i \in 1 .. l + 1 : h[i] = k
            <4>1. k \in 1 .. n \/ k = n + 1
                BY <2>1
            <4>2. CASE k \in 1 .. n
                <5>1. PICK i \in 1 .. l : f[i] = k
                    BY <2>5, <3>9, <4>2 DEF l, Places
                <5> QED
                    BY <3>3, <3>6, <5>1
            <4>3. CASE k = n + 1
                BY <3>3, <3>6, <4>3
            <4> QED
                BY <4>1, <4>2, <4>3
        <3>10. Places(q, n + 1, h)
            BY <3>1, <3>7, <3>8, <3>9 DEF Places
        <3>11. Holds(q, n + 1)
            BY <3>1, <3>5, <3>10 DEF Holds
        <3> QED
            BY <2>3, <2>7, <3>11 DEF q
    <2>8. CASE x \notin S
        <3>1. f \in [1 .. Len(p) -> 1 .. n + 1]
            BY <2>1, <2>5, <2>6
        <3>2. \A k \in 1 .. n + 1 : s[k] \in S => k \in 1 .. n
            BY <2>1, <2>8 DEF x
        <3>3. Places(p, n + 1, f)
            BY <2>5, <3>2 DEF Places
        <3>4. Holds(p, n + 1)
            BY <2>6, <3>1, <3>3 DEF Holds
        <3> QED
            BY <2>3, <2>8, <3>4
    <2> QED
        BY <2>7, <2>8
<1>5. Q = Nat
    <2> HIDE DEF Q
    <2>1. Q \in SUBSET Nat
        BY DEF Q
    <2> QED
        BY <1>3, <1>4, <2>1, NatSetInduction
<1>6. Holds(u, m)
    <2> HIDE DEF Holds
    <2> QED
        BY <1>1, <1>2, <1>5
<1> QED
    BY <1>6

\* Pick gives exactly the members asked for.
LEMMA PickFacts ==
    ASSUME NEW T, NEW s \in Seq(T), NEW S, NEW u, u = Pick(s, S)
    PROVE  u \in Seq(T) /\ Range(u) = Range(s) \cap S
<1>1. PICK f \in [1 .. Len(u) -> 1 .. Len(s)] :
          /\ \A i \in 1 .. Len(u) : u[i] = s[f[i]] /\ u[i] \in S
          /\ \A k \in 1 .. Len(s) : s[k] \in S => \E i \in 1 .. Len(u) : f[i] = k
    BY PickPlaces
<1>2. u \in Seq(T)
    BY PickPlaces
<1>3. DOMAIN u = 1 .. Len(u) /\ DOMAIN s = 1 .. Len(s)
    BY <1>2
<1>4. \A x : x \in Range(u) <=> \E i \in 1 .. Len(u) : x = u[i]
    BY <1>3 DEF Range
<1>5. \A x : x \in Range(s) <=> \E i \in 1 .. Len(s) : x = s[i]
    BY <1>3 DEF Range
<1>6. ASSUME NEW x \in Range(u) PROVE x \in Range(s) \cap S
    <2>1. PICK i \in 1 .. Len(u) : x = u[i]
        BY <1>4
    <2> QED
        BY <1>1, <1>5, <2>1
<1>7. ASSUME NEW x \in Range(s) \cap S PROVE x \in Range(u)
    <2>1. PICK k \in 1 .. Len(s) : x = s[k]
        BY <1>5
    <2>2. PICK i \in 1 .. Len(u) : f[i] = k
        BY <1>1, <2>1
    <2> QED
        BY <1>1, <1>4, <2>1, <2>2
<1> QED
    BY <1>2, <1>6, <1>7

\* What is picked and what is not make up the whole.
LEMMA PickSplit ==
    ASSUME NEW T, NEW S, NEW s \in Seq(T)
    PROVE  Len(Pick(s, S)) + Len(Pick(s, T \ S)) = Len(s)
<1> DEFINE Ok(t) == Len(Pick(t, S)) + Len(Pick(t, T \ S)) = Len(t)
           P == {n \in Nat : \A t \in Seq(T) : Len(t) = n => Ok(t)}
<1>1. \A t \in Seq(T) : Pick(t, S) \in Seq(T) /\ Pick(t, T \ S) \in Seq(T)
    BY PickPlaces
<1>2. 0 \in P
    <2>1. \A R : Pick(<<>>, R) = <<>>
        <3> TAKE R
        <3>1. <<>> \in Seq(T)
            OBVIOUS
        <3>2. PICK g : Pick(<<>>, R) = g[Len(<<>>)]
                       /\ g = [n \in 0 .. Len(<<>>) |-> PickStep(<<>>, R, g, n)]
            BY <3>1, PickRecursion
        <3>3. Len(<<>>) = 0 /\ 0 \in 0 .. 0
            OBVIOUS
        <3> QED
            BY <3>2, <3>3 DEF PickStep
    <2>2. \A t \in Seq(T) : Len(t) = 0 => t = <<>>
        OBVIOUS
    <2> QED
        BY <2>1, <2>2
<1>3. ASSUME NEW n \in P PROVE n + 1 \in P
    <2>0. n + 1 \in Nat
        OBVIOUS
    <2> HIDE DEF Ok
    <2> SUFFICES ASSUME NEW t \in Seq(T), Len(t) = n + 1 PROVE Ok(t)
        BY <2>0
    <2> DEFINE r == SubSeq(t, 1, n)
               x == t[n + 1]
    <2>1. n \in Nat /\ \A q \in Seq(T) : Len(q) = n => Ok(q)
        OBVIOUS
    <2>2. r \in Seq(T) /\ Len(r) = n /\ x \in T /\ t = Append(r, x)
        BY <2>1
    <2> HIDE DEF r, x
    <2>3. Len(Pick(r, S)) + Len(Pick(r, T \ S)) = n
        BY <2>1, <2>2 DEF Ok
    <2>4. /\ Pick(t, S) = IF x \in S THEN Append(Pick(r, S), x) ELSE Pick(r, S)
          /\ Pick(t, T \ S) = IF x \in S THEN Pick(r, T \ S) ELSE Append(Pick(r, T \ S), x)
        <3>1. Pick(Append(r, x), S) = IF x \in S THEN Append(Pick(r, S), x) ELSE Pick(r, S)
            BY <2>2, PickAppend
        <3>2. Pick(Append(r, x), T \ S)
                  = IF x \in T \ S THEN Append(Pick(r, T \ S), x) ELSE Pick(r, T \ S)
            BY <2>2, PickAppend
        <3> QED
            BY <2>2, <3>1, <3>2
    <2>5. \A q \in Seq(T) : Len(Append(q, x)) = Len(q) + 1 /\ Len(q) \in Nat
        OBVIOUS
    <2>6. Pick(r, S) \in Seq(T) /\ Pick(r, T \ S) \in Seq(T)
        BY <1>1, <2>2
    <2> QED
        BY <2>1, <2>3, <2>4, <2>5, <2>6 DEF Ok
<1>4. P = Nat
    <2> HIDE DEF P
    <2>1. P \in SUBSET Nat
        BY DEF P
    <2> QED
        BY <1>2, <1>3, <2>1, NatSetInduction
<1>5. Len(s) \in Nat
    OBVIOUS
<1> QED
    BY <1>4, <1>5

-----------------------------------------------------------------------------
(* Sequences that hold nothing twice.                                      *)

Distinct(s) == \A i, j \in DOMAIN s : s[i] = s[j] => i = j

\* A member is at some place.
LEMMA RangeMember ==
    ASSUME NEW T, NEW s \in Seq(T)
    PROVE  /\ \A x : x \in Range(s) <=> \E i \in 1 .. Len(s) : s[i] = x
           /\ DOMAIN s = 1 .. Len(s) /\ Len(s) \in Nat /\ Range(s) \subseteq T
<1>1. DOMAIN s = 1 .. Len(s) /\ Len(s) \in Nat /\ \A i \in 1 .. Len(s) : s[i] \in T
    OBVIOUS
<1> QED
    BY <1>1 DEF Range

\* Its length is the number of its members.
LEMMA DistinctLength ==
    ASSUME NEW T, NEW s \in Seq(T), Distinct(s)
    PROVE  IsFiniteSet(Range(s)) /\ Len(s) = Cardinality(Range(s))
<1> DEFINE n == Len(s)
           R == Range(s)
<1>1. n \in Nat /\ DOMAIN s = 1 .. n /\ s = [i \in 1 .. n |-> s[i]]
    OBVIOUS
<1>2. \A x : x \in R <=> \E i \in 1 .. n : s[i] = x
    BY RangeMember
<1>3. s \in Bijection(1 .. n, R)
    <2>1. s \in [1 .. n -> R]
        BY <1>1, <1>2
    <2>2. \A i, j \in 1 .. n : s[i] = s[j] => i = j
        BY <1>1 DEF Distinct
    <2>3. \A x \in R : \E i \in 1 .. n : s[i] = x
        BY <1>2
    <2> HIDE DEF n, R
    <2> QED
        BY <2>1, <2>2, <2>3 DEF Bijection, Injection, Surjection, IsInjective
<1>4. IsFiniteSet(1 .. n) /\ Cardinality(1 .. n) = n
    <2>1. 1 \in Int /\ n \in Int
        BY <1>1
    <2>2. IsFiniteSet(1 .. n) /\ Cardinality(1 .. n) = IF 1 > n THEN 0 ELSE n - 1 + 1
        BY ONLY <2>1, FS_Interval
    <2> QED
        BY <1>1, <2>2
<1>5. IsFiniteSet(R) /\ Cardinality(R) = Cardinality(1 .. n)
    <2>1. ExistsBijection(1 .. n, R)
        BY <1>3 DEF ExistsBijection
    <2> HIDE DEF n, R
    <2> QED
        BY <1>4, <2>1, FS_Bijection, FS_SameCardinalityBij
<1> QED
    BY <1>4, <1>5

\* A new member at the end.
LEMMA DistinctAppend ==
    ASSUME NEW T, NEW s \in Seq(T), Distinct(s), NEW x \in T, x \notin Range(s)
    PROVE  Distinct(Append(s, x))
<1> DEFINE q == Append(s, x)
<1>1. /\ Len(s) \in Nat /\ DOMAIN q = 1 .. Len(s) + 1 /\ q[Len(s) + 1] = x
      /\ \A i \in 1 .. Len(s) : q[i] = s[i]
    OBVIOUS
<1>2. \A i \in 1 .. Len(s) : s[i] # x
    BY RangeMember
<1>3. \A i, j \in 1 .. Len(s) : s[i] = s[j] => i = j
    BY DEF Distinct
<1> HIDE DEF q
<1>4. \A i \in 1 .. Len(s) + 1 : i \in 1 .. Len(s) \/ i = Len(s) + 1
    BY <1>1
<1>5. \A i, j \in DOMAIN q : q[i] = q[j] => i = j
    BY <1>1, <1>2, <1>3, <1>4
<1> QED
    BY <1>5 DEF Distinct, q

\* Without its first member.
LEMMA DistinctTail ==
    ASSUME NEW T, NEW s \in Seq(T), Distinct(s), s # <<>>
    PROVE  /\ Tail(s) \in Seq(T) /\ Distinct(Tail(s)) /\ Head(s) \in Range(s)
           /\ Range(Tail(s)) = Range(s) \ {Head(s)} /\ Len(Tail(s)) = Len(s) - 1
<1> DEFINE q == Tail(s)
           n == Len(s)
<1>1. /\ n \in Nat /\ n >= 1 /\ DOMAIN s = 1 .. n /\ Head(s) = s[1]
      /\ q \in Seq(T) /\ Len(q) = n - 1 /\ DOMAIN q = 1 .. n - 1
      /\ \A i \in 1 .. n - 1 : q[i] = s[i + 1]
    OBVIOUS
<1>2. \A x : x \in Range(s) <=> \E i \in 1 .. n : s[i] = x
    BY RangeMember
<1>3. \A x : x \in Range(q) <=> \E i \in 1 .. n - 1 : q[i] = x
    <2>1. \A x : x \in Range(q) <=> \E i \in 1 .. Len(q) : q[i] = x
        BY <1>1, RangeMember
    <2> QED
        BY <1>1, <2>1
<1>4. \A i, j \in 1 .. n : s[i] = s[j] => i = j
    BY <1>1 DEF Distinct
<1> HIDE DEF q, n
<1>5. \A i, j \in 1 .. n - 1 : q[i] = q[j] => i = j
    BY <1>1, <1>4
<1>6. ASSUME NEW x \in Range(q) PROVE x \in Range(s) \ {s[1]}
    <2>1. PICK i \in 1 .. n - 1 : q[i] = x
        BY <1>3
    <2>2. i + 1 \in 1 .. n /\ 1 \in 1 .. n /\ i + 1 # 1 /\ s[i + 1] = x
        BY <1>1, <2>1
    <2> QED
        BY <1>2, <1>4, <2>2
<1>7. ASSUME NEW x \in Range(s) \ {s[1]} PROVE x \in Range(q)
    <2>1. PICK i \in 1 .. n : s[i] = x
        BY <1>2
    <2>2. i - 1 \in 1 .. n - 1 /\ (i - 1) + 1 = i
        BY <1>1, <1>7, <2>1
    <2> QED
        BY <1>1, <1>3, <2>1, <2>2
<1>8. Head(s) \in Range(s)
    BY <1>1, <1>2
<1>9. Distinct(q)
    BY <1>1, <1>5 DEF Distinct
<1> QED
    BY <1>1, <1>6, <1>7, <1>8, <1>9 DEF q, n

\* Two in a row that share nothing.
LEMMA DistinctConcat ==
    ASSUME NEW T, NEW s \in Seq(T), NEW t \in Seq(T), Distinct(s), Distinct(t),
           Range(s) \cap Range(t) = {}
    PROVE  Distinct(s \o t)
<1> DEFINE q == s \o t
           a == Len(s)
           b == Len(t)
<1>1. /\ a \in Nat /\ b \in Nat /\ DOMAIN q = 1 .. a + b
      /\ \A i \in 1 .. a : q[i] = s[i]
      /\ \A i \in 1 .. b : q[a + i] = t[i]
    OBVIOUS
<1>2. \A i \in 1 .. a : s[i] \in Range(s)
    BY RangeMember
<1>3. \A i \in 1 .. b : t[i] \in Range(t)
    BY RangeMember
<1>4. /\ \A i, j \in 1 .. a : s[i] = s[j] => i = j
      /\ \A i, j \in 1 .. b : t[i] = t[j] => i = j
    BY DEF Distinct
<1> HIDE DEF q, a, b
<1>5. \A i \in 1 .. a + b : i \in 1 .. a \/ (i - a \in 1 .. b /\ i = a + (i - a))
    BY <1>1
<1>6. ASSUME NEW i \in 1 .. a + b, NEW j \in 1 .. a + b, q[i] = q[j]
      PROVE  i = j
    <2>1. CASE i \in 1 .. a /\ j \in 1 .. a
        BY <1>1, <1>4, <1>6, <2>1
    <2>2. CASE i \in 1 .. a /\ j - a \in 1 .. b /\ j = a + (j - a)
        BY <1>1, <1>2, <1>3, <1>6, <2>2
    <2>3. CASE j \in 1 .. a /\ i - a \in 1 .. b /\ i = a + (i - a)
        BY <1>1, <1>2, <1>3, <1>6, <2>3
    <2>4. CASE i - a \in 1 .. b /\ i = a + (i - a) /\ j - a \in 1 .. b /\ j = a + (j - a)
        <3>1. t[i - a] = t[j - a]
            BY <1>1, <1>6, <2>4
        <3>2. i - a = j - a
            BY <1>4, <2>4, <3>1
        <3> QED
            BY <2>4, <3>2
    <2> QED
        BY <1>5, <2>1, <2>2, <2>3, <2>4
<1> QED
    BY <1>1, <1>6 DEF Distinct, q

\* Filtering makes nothing double, and keeps any order.
LEMMA PickDistinct ==
    ASSUME NEW T, NEW s \in Seq(T), Distinct(s), NEW S
    PROVE  Distinct(Pick(s, S))
<1> DEFINE u == Pick(s, S)
<1> HIDE DEF u
<1>1. u \in Seq(T) /\ \E f \in [1 .. Len(u) -> 1 .. Len(s)] :
          /\ \A i \in 1 .. Len(u) : u[i] = s[f[i]]
          /\ \A i, j \in 1 .. Len(u) : i < j => f[i] < f[j]
    BY PickPlaces DEF u
<1>2. PICK f \in [1 .. Len(u) -> 1 .. Len(s)] :
          /\ \A i \in 1 .. Len(u) : u[i] = s[f[i]]
          /\ \A i, j \in 1 .. Len(u) : i < j => f[i] < f[j]
    BY <1>1
<1>3. DOMAIN u = 1 .. Len(u) /\ Len(u) \in Nat /\ DOMAIN s = 1 .. Len(s) /\ Len(s) \in Nat
    BY <1>1
<1>4. ASSUME NEW i \in 1 .. Len(u), NEW j \in 1 .. Len(u), u[i] = u[j] PROVE i = j
    <2>1. f[i] = f[j] /\ f[i] \in Nat
        BY <1>2, <1>3, <1>4 DEF Distinct
    <2>2. ~(i < j) /\ ~(j < i)
        BY <1>2, <2>1
    <2> QED
        BY <2>2
<1> QED
    BY <1>3, <1>4 DEF Distinct, u

=============================================================================
