---------------------------- MODULE Sommes_proofs ----------------------------
(***************************************************************************)
(* Sums over a finite set, as MapThenSumSet of the community modules       *)
(* computes them: the elements are taken in the order of CHOOSE.  The fold *)
(* is a recursive function on the subsets; the lemmas show that it exists, *)
(* that the order does not matter, and how sums behave under injections,   *)
(* unions and partitions.                                                  *)
(*                                                                         *)
(* The values are a function v, so that every lemma is first-order, and    *)
(* induction is the absence of a smallest counterexample.                  *)
(***************************************************************************)
EXTENDS Integers, FiniteSets, FiniteSetsExt, FiniteSetTheorems, WellFoundedInduction, TLAPS

-----------------------------------------------------------------------------
(* Induction on a set of numbers, and on a set of subsets *)

LEMMA PlusPetit ==
    ASSUME NEW A, A \subseteq Nat, A # {}
    PROVE  \E n \in A : \A m \in A : n <= m
<1>1. PICK n \in A : \A m \in A : ~(<<m, n>> \in OpToRel(<, Nat))
    BY NatLessThanWellFounded, WFMin, Zenon
<1>2. \A m \in A : m < n => <<m, n>> \in OpToRel(<, Nat)
    BY DEF OpToRel
<1>3. \A m \in A : ~(m < n)
    BY <1>1, <1>2, Zenon
<1> QED
    BY <1>3

\* A set of numbers with 0 and with the next of each of its members has them all.
LEMMA TousLesNombres ==
    ASSUME NEW A, 0 \in A, \A n \in Nat : n \in A => n + 1 \in A
    PROVE  Nat \subseteq A
<1> SUFFICES ASSUME Nat \ A # {}
             PROVE  FALSE
    OBVIOUS
<1>1. PICK n \in Nat \ A : \A m \in Nat \ A : n <= m
    BY PlusPetit
<1>2. n # 0 /\ n - 1 \in Nat /\ ~(n <= n - 1)
    BY <1>1
<1>3. n - 1 \in A /\ (n - 1) + 1 = n
    BY <1>1, <1>2
<1> QED
    BY <1>1, <1>2, <1>3

\* A set of subsets with the empty one, and with each subset all of whose
\* elements can be taken away, has them all.
LEMMA ToutesLesParties ==
    ASSUME NEW S, IsFiniteSet(S), NEW B, {} \in B,
           \A T \in SUBSET S : T # {} /\ (\A x \in T : T \ {x} \in B) => T \in B
    PROVE  SUBSET S \subseteq B
<1> DEFINE A == {n \in Nat : \A T \in SUBSET S : Cardinality(T) = n => T \in B}
<1>1. \A T \in SUBSET S : IsFiniteSet(T) /\ Cardinality(T) \in Nat
    BY FS_Subset, FS_CardinalityType
<1>2. 0 \in A
  <2>1. \A T \in SUBSET S : Cardinality(T) = 0 => T = {}
      BY <1>1, FS_EmptySet
  <2> QED
      BY <2>1
<1>3. ASSUME NEW n \in Nat, n \in A
      PROVE  n + 1 \in A
  <2> SUFFICES ASSUME NEW T \in SUBSET S, Cardinality(T) = n + 1
               PROVE  T \in B
      OBVIOUS
  <2>1. T # {}
      BY FS_EmptySet
  <2>2. ASSUME NEW x \in T
        PROVE  T \ {x} \in B
    <3>1. Cardinality(T \ {x}) = Cardinality(T) - 1
        BY <1>1, FS_RemoveElement
    <3>2. Cardinality(T \ {x}) = n /\ T \ {x} \in SUBSET S
        BY <3>1
    <3> QED
        BY <1>3, <3>2
  <2> QED
      BY <2>1, <2>2
<1>4. Nat \subseteq A
  <2> HIDE DEF A
  <2> QED
      BY <1>2, <1>3, TousLesNombres
<1> QED
    BY <1>1, <1>4

\* What h makes of the elements of S, and the elements of P of a given key.
ImageDe(h, S) == {h[x] : x \in S}
Fibre(cle, P, k) == {x \in P : cle[x] = k}

LEMMA ImageFinie ==
    ASSUME NEW S, IsFiniteSet(S), NEW h
    PROVE  IsFiniteSet(ImageDe(h, S))
<1> DEFINE R == {h[x] : x \in S}
           f == [x \in S |-> h[x]]
<1>1. f \in Surjection(S, R)
    BY DEF Surjection
<1> HIDE DEF R, f
<1>2. IsFiniteSet(R)
    BY <1>1, FS_Surjection, Zenon
<1> QED
    BY <1>2 DEF R, ImageDe
-----------------------------------------------------------------------------
(* The fold *)

Choix(T) == CHOOSE x \in T : TRUE

\* g is the recursive function behind the sum of v on the subsets of S.
EstSomme(g, v, S) ==
    g = [T \in SUBSET S |-> IF T = {} THEN 0 ELSE v[Choix(T)] + g[T \ {Choix(T)}]]

\* The sum of v[x] for the x of S.
SommeDe(v, S) == MapThenSumSet(LAMBDA x : v[x], S)

LEMMA ChoixDedans ==
    ASSUME NEW T, T # {}
    PROVE  Choix(T) \in T
    BY DEF Choix

LEMMA SommeExiste ==
    ASSUME NEW S, IsFiniteSet(S), NEW v
    PROVE  \E g : EstSomme(g, v, S)
<1> DEFINE D(n) == {T \in SUBSET S : Cardinality(T) <= n}
           Suite(h, n) == [T \in D(n) |-> IF T = {} THEN 0 ELSE v[Choix(T)] + h[T \ {Choix(T)}]]
           Sommable(n) == \E h : h = Suite(h, n)
           A == {n \in Nat : Sommable(n)}
<1>1. \A T \in SUBSET S : IsFiniteSet(T) /\ Cardinality(T) \in Nat
    BY FS_Subset, FS_CardinalityType
<1>2. \A T \in SUBSET S : T # {} =>
          /\ Choix(T) \in T /\ T \ {Choix(T)} \in SUBSET S
          /\ Cardinality(T \ {Choix(T)}) = Cardinality(T) - 1
    BY <1>1, ChoixDedans, FS_RemoveElement
<1>3. 0 \in A
  <2>1. \A T \in D(0) : T = {}
      BY <1>1, FS_EmptySet
  <2>2. [T \in D(0) |-> 0] = Suite([T \in D(0) |-> 0], 0)
      BY <2>1
  <2> QED
      BY <2>2
<1>4. ASSUME NEW n \in Nat, n \in A
      PROVE  n + 1 \in A
  <2>1. PICK h : h = Suite(h, n)
      BY <1>4
  <2> DEFINE k == Suite(h, n + 1)
  <2>2. \A T \in D(n) : T \in D(n + 1) /\ k[T] = h[T]
    <3>1. \A T \in D(n) : h[T] = Suite(h, n)[T]
        BY <2>1
    <3>2. \A T \in D(n) : T \in D(n + 1)
        BY <1>1
    <3> QED
        BY <3>1, <3>2
  <2>3. ASSUME NEW T \in D(n + 1), T # {}
        PROVE  T \ {Choix(T)} \in D(n)
      BY <1>1, <1>2, <2>3
  <2>4. \A T \in D(n + 1) :
            k[T] = IF T = {} THEN 0 ELSE v[Choix(T)] + k[T \ {Choix(T)}]
      BY <2>2, <2>3
  <2>5. k = Suite(k, n + 1)
    <3>1. k = [T \in D(n + 1) |-> k[T]]
        OBVIOUS
    <3> HIDE DEF k
    <3>2. Suite(k, n + 1) = [T \in D(n + 1) |-> k[T]]
        BY <2>4
    <3> QED
        BY <3>1, <3>2
  <2>6. Sommable(n + 1)
    <3> HIDE DEF k
    <3> QED
        BY <2>5
  <2> HIDE DEF Sommable
  <2> QED
      BY <2>6
<1>5. Nat \subseteq A
  <2> HIDE DEF A
  <2> QED
      BY <1>3, <1>4, TousLesNombres
<1>6. D(Cardinality(S)) = SUBSET S
  <2>1. \A T \in SUBSET S : Cardinality(T) <= Cardinality(S)
      BY FS_Subset
  <2> QED
      BY <2>1
<1>7. PICK h : h = Suite(h, Cardinality(S))
    BY <1>1, <1>5
<1> QED
    BY <1>6, <1>7 DEF EstSomme

\* The function only depends on the values.
LEMMA SommeUnique ==
    ASSUME NEW S, IsFiniteSet(S), NEW R, S \subseteq R, NEW v, NEW w,
           \A x \in S : v[x] = w[x],
           NEW g, EstSomme(g, v, S), NEW h, EstSomme(h, w, R)
    PROVE  g[S] = h[S]
<1> DEFINE B == {T \in SUBSET S : g[T] = h[T]}
<1>1. /\ \A T \in SUBSET S :
             g[T] = IF T = {} THEN 0 ELSE v[Choix(T)] + g[T \ {Choix(T)}]
      /\ \A T \in SUBSET R :
             h[T] = IF T = {} THEN 0 ELSE w[Choix(T)] + h[T \ {Choix(T)}]
    BY DEF EstSomme
<1>2. {} \in B
    BY <1>1
<1>3. ASSUME NEW T \in SUBSET S, T # {}, \A x \in T : T \ {x} \in B
      PROVE  T \in B
  <2>1. Choix(T) \in T
      BY <1>3, ChoixDedans
  <2>2. v[Choix(T)] = w[Choix(T)] /\ g[T \ {Choix(T)}] = h[T \ {Choix(T)}]
      BY <1>3, <2>1
  <2> QED
      BY <1>1, <1>3, <2>2
<1>4. SUBSET S \subseteq B
  <2> HIDE DEF B
  <2> QED
      BY <1>2, <1>3, ToutesLesParties
<1> QED
    BY <1>4

LEMMA SommeDef ==
    ASSUME NEW S, IsFiniteSet(S), NEW v
    PROVE  \E g : EstSomme(g, v, S) /\ SommeDe(v, S) = g[S]
<1> DEFINE f == CHOOSE g : g = [T \in SUBSET S |->
                    IF T = {} THEN 0
                    ELSE v[CHOOSE x \in T : TRUE] + g[T \ {CHOOSE x \in T : TRUE}]]
<1>1. SommeDe(v, S) = f[S]
    BY DEF SommeDe, MapThenSumSet, MapThenFoldSet
<1>2. \E g : g = [T \in SUBSET S |->
                    IF T = {} THEN 0
                    ELSE v[CHOOSE x \in T : TRUE] + g[T \ {CHOOSE x \in T : TRUE}]]
  <2>1. PICK g : EstSomme(g, v, S)
      BY SommeExiste
  <2> QED
      BY <2>1 DEF EstSomme, Choix
<1>3. f = [T \in SUBSET S |->
               IF T = {} THEN 0
               ELSE v[CHOOSE x \in T : TRUE] + f[T \ {CHOOSE x \in T : TRUE}]]
    BY <1>2
<1> HIDE DEF f
<1>4. EstSomme(f, v, S)
    BY <1>3 DEF EstSomme, Choix
<1> QED
    BY <1>1, <1>4
-----------------------------------------------------------------------------
(* Sums *)

LEMMA SommeVide ==
    ASSUME NEW v
    PROVE  SommeDe(v, {}) = 0
<1>1. PICK g : EstSomme(g, v, {}) /\ SommeDe(v, {}) = g[{}]
    BY SommeDef, FS_EmptySet
<1> QED
    BY <1>1 DEF EstSomme

\* Only the values on S matter.
LEMMA SommeEgale ==
    ASSUME NEW S, IsFiniteSet(S), NEW v, NEW w, \A x \in S : v[x] = w[x]
    PROVE  SommeDe(v, S) = SommeDe(w, S)
<1>1. PICK g : EstSomme(g, v, S) /\ SommeDe(v, S) = g[S]
    BY SommeDef
<1>2. PICK h : EstSomme(h, w, S) /\ SommeDe(w, S) = h[S]
    BY SommeDef
<1>3. g[S] = h[S]
    BY <1>1, <1>2, SommeUnique
<1> QED
    BY <1>1, <1>2, <1>3

LEMMA SommePas ==
    ASSUME NEW S, IsFiniteSet(S), S # {}, NEW v
    PROVE  SommeDe(v, S) = v[Choix(S)] + SommeDe(v, S \ {Choix(S)})
<1> DEFINE R == S \ {Choix(S)}
<1>1. IsFiniteSet(R) /\ R \subseteq S
    BY FS_Subset
<1>2. PICK g : EstSomme(g, v, S) /\ SommeDe(v, S) = g[S]
    BY SommeDef
<1>3. PICK h : EstSomme(h, v, R) /\ SommeDe(v, R) = h[R]
    BY <1>1, SommeDef
<1>4. h[R] = g[R]
  <2> HIDE DEF R
  <2> QED
      BY <1>1, <1>2, <1>3, SommeUnique
<1>5. g[S] = v[Choix(S)] + g[R]
    BY <1>2 DEF EstSomme
<1> QED
    BY <1>2, <1>3, <1>4, <1>5

LEMMA SommeEntiere ==
    ASSUME NEW S, IsFiniteSet(S), NEW v, \A x \in S : v[x] \in Int
    PROVE  \A T \in SUBSET S : IsFiniteSet(T) /\ SommeDe(v, T) \in Int
<1> DEFINE B == {T \in SUBSET S : SommeDe(v, T) \in Int}
<1>1. {} \in B
    BY SommeVide
<1>2. ASSUME NEW T \in SUBSET S, T # {}, \A x \in T : T \ {x} \in B
      PROVE  T \in B
  <2>1. IsFiniteSet(T) /\ Choix(T) \in T
      BY <1>2, FS_Subset, ChoixDedans
  <2>2. SommeDe(v, T) = v[Choix(T)] + SommeDe(v, T \ {Choix(T)})
      BY <1>2, <2>1, SommePas
  <2>3. v[Choix(T)] \in Int /\ SommeDe(v, T \ {Choix(T)}) \in Int
      BY <1>2, <2>1
  <2> QED
      BY <2>2, <2>3
<1>3. SUBSET S \subseteq B
  <2> HIDE DEF B
  <2> QED
      BY <1>1, <1>2, ToutesLesParties
<1> QED
    BY <1>3, FS_Subset

\* The order in which the elements are taken does not matter.
LEMMA SommeRetrait ==
    ASSUME NEW S, IsFiniteSet(S), NEW v, \A x \in S : v[x] \in Int, NEW a \in S
    PROVE  SommeDe(v, S) = v[a] + SommeDe(v, S \ {a})
<1> DEFINE B == {T \in SUBSET S : \A x \in T : SommeDe(v, T) = v[x] + SommeDe(v, T \ {x})}
<1>1. {} \in B
    OBVIOUS
<1>2. ASSUME NEW T \in SUBSET S, T # {}, \A x \in T : T \ {x} \in B
      PROVE  T \in B
  <2> SUFFICES ASSUME NEW x \in T
               PROVE  SommeDe(v, T) = v[x] + SommeDe(v, T \ {x})
      OBVIOUS
  <2> DEFINE c == Choix(T)
  <2>1. IsFiniteSet(T) /\ c \in T
      BY <1>2, FS_Subset, ChoixDedans
  <2>2. SommeDe(v, T) = v[c] + SommeDe(v, T \ {c})
      BY <1>2, <2>1, SommePas
  <2>3. CASE x = c
      BY <2>2, <2>3
  <2>4. CASE x # c
    <3> HIDE DEF c
    <3>1. SommeDe(v, T \ {c}) = v[x] + SommeDe(v, (T \ {c}) \ {x})
        BY <1>2, <2>1, <2>4
    <3>2. SommeDe(v, T \ {x}) = v[c] + SommeDe(v, (T \ {x}) \ {c})
        BY <1>2, <2>1, <2>4
    <3>3. SommeDe(v, (T \ {c}) \ {x}) = SommeDe(v, (T \ {x}) \ {c})
      <4>1. (T \ {c}) \ {x} = (T \ {x}) \ {c}
          OBVIOUS
      <4> QED
          BY <4>1, Zenon
    <3>4. SommeDe(v, (T \ {x}) \ {c}) \in Int /\ v[x] \in Int /\ v[c] \in Int
        BY <2>1, SommeEntiere
    <3> QED
        BY <2>2, <3>1, <3>2, <3>3, <3>4
  <2> QED
      BY <2>3, <2>4
<1>3. SUBSET S \subseteq B
  <2> HIDE DEF B
  <2> QED
      BY <1>1, <1>2, ToutesLesParties
<1> QED
    BY <1>3

LEMMA SommeAjout ==
    ASSUME NEW S, IsFiniteSet(S), NEW v, NEW a, a \notin S, v[a] \in Int,
           \A x \in S : v[x] \in Int
    PROVE  /\ IsFiniteSet(S \cup {a})
           /\ SommeDe(v, S \cup {a}) = v[a] + SommeDe(v, S)
<1>1. IsFiniteSet(S \cup {a}) /\ (S \cup {a}) \ {a} = S
    BY FS_AddElement
<1>2. SommeDe(v, S \cup {a}) = v[a] + SommeDe(v, (S \cup {a}) \ {a})
    BY <1>1, SommeRetrait
<1> QED
    BY <1>1, <1>2

\* The same for a part of S, as an induction needs it.
LEMMA SommeParties ==
    ASSUME NEW S, IsFiniteSet(S), NEW v, \A x \in S : v[x] \in Int,
           NEW T \in SUBSET S, NEW a \in T
    PROVE  /\ SommeDe(v, T) = v[a] + SommeDe(v, T \ {a})
           /\ SommeDe(v, T \ {a}) \in Int /\ SommeDe(v, T) \in Int
<1>1. IsFiniteSet(T) /\ T \ {a} \in SUBSET S
    BY FS_Subset
<1> QED
    BY <1>1, SommeRetrait, SommeEntiere

\* The sum over R, the image of S by h, one-to-one, of values that are those of v
\* up to a sign.
LEMMA SommeImage ==
    ASSUME NEW S, IsFiniteSet(S), NEW v, \A x \in S : v[x] \in Int,
           NEW h, NEW w, NEW signe \in {1, -1},
           \A x, y \in S : h[x] = h[y] => x = y,
           \A x \in S : w[h[x]] = signe * v[x]
    PROVE  /\ IsFiniteSet(ImageDe(h, S))
           /\ SommeDe(w, ImageDe(h, S)) = signe * SommeDe(v, S)
<1> DEFINE I(T) == {h[x] : x \in T}
           Voulu(T) == IsFiniteSet(I(T)) /\ SommeDe(w, I(T)) = signe * SommeDe(v, T)
           B == {T \in SUBSET S : Voulu(T)}
<1>1. Voulu({})
  <2>1. I({}) = {} /\ signe * 0 = 0
      OBVIOUS
  <2> HIDE DEF I
  <2>2. SommeDe(w, I({})) = SommeDe(w, {}) /\ IsFiniteSet(I({}))
      BY <2>1, FS_EmptySet, Zenon
  <2> QED
      BY <2>1, <2>2, SommeVide
<1>2. ASSUME NEW T \in SUBSET S, T # {}, \A x \in T : T \ {x} \in B
      PROVE  T \in B
  <2>1. PICK a \in T : TRUE
      BY <1>2
  <2> DEFINE J == I(T \ {a})
  <2>2. h[a] \notin J /\ I(T) = J \cup {h[a]}
      OBVIOUS
  <2>3. (\A y \in J : w[y] \in Int) /\ w[h[a]] = signe * v[a] /\ w[h[a]] \in Int
      BY <2>1
  <2>4. IsFiniteSet(J) /\ SommeDe(w, J) = signe * SommeDe(v, T \ {a})
      BY <1>2, <2>1
  <2> HIDE DEF I, J
  <2>5. /\ IsFiniteSet(J \cup {h[a]})
        /\ SommeDe(w, J \cup {h[a]}) = w[h[a]] + SommeDe(w, J)
      BY <2>2, <2>3, <2>4, SommeAjout
  <2>6. /\ SommeDe(v, T) = v[a] + SommeDe(v, T \ {a})
        /\ SommeDe(v, T \ {a}) \in Int /\ v[a] \in Int
    <3>1. IsFiniteSet(T) /\ T \ {a} \in SUBSET T /\ \A x \in T : v[x] \in Int
        BY FS_Subset
    <3> QED
        BY <3>1, SommeRetrait, SommeEntiere
  <2>7. SommeDe(w, J \cup {h[a]}) = signe * SommeDe(v, T)
      BY <2>3, <2>4, <2>5, <2>6
  <2>8. Voulu(T)
      BY <2>2, <2>5, <2>7, Zenon
  <2> HIDE DEF Voulu
  <2> QED
      BY <2>8
<1> HIDE DEF Voulu
<1>3. SUBSET S \subseteq B
  <2>1. {} \in B
      BY <1>1
  <2> HIDE DEF B
  <2> QED
      BY <2>1, <1>2, ToutesLesParties
<1>4. Voulu(S)
    BY <1>3
<1>5. I(S) = ImageDe(h, S)
    BY DEF ImageDe
<1> HIDE DEF I
<1> QED
    BY <1>4, <1>5, Zenon DEF Voulu

LEMMA SommeOpposee ==
    ASSUME NEW S, IsFiniteSet(S), NEW R, NEW h \in Bijection(S, R), NEW v, NEW w,
           \A x \in S : v[x] \in Int /\ w[h[x]] = -v[x]
    PROVE  IsFiniteSet(R) /\ SommeDe(w, R) = -SommeDe(v, S) /\ SommeDe(v, S) \in Int
<1>1. h \in [S -> R] /\ IsInjective(h) /\ \A y \in R : \E x \in S : h[x] = y
    BY Zenon DEF Bijection, Injection, Surjection
<1>2. \A x, y \in S : h[x] = h[y] => x = y
    BY <1>1 DEF IsInjective
<1>3. R = ImageDe(h, S)
    BY <1>1 DEF ImageDe
<1>4. PICK signe \in {1, -1} : signe = -1
    OBVIOUS
<1>5. \A x \in S : w[h[x]] = signe * v[x]
    BY <1>4
<1>6. SommeDe(v, S) \in Int
    BY SommeEntiere
<1>7. IsFiniteSet(R) /\ SommeDe(w, R) = signe * SommeDe(v, S)
  <2>1. IsFiniteSet(ImageDe(h, S)) /\ SommeDe(w, ImageDe(h, S)) = signe * SommeDe(v, S)
      BY <1>2, <1>5, SommeImage
  <2> QED
      BY <1>3, <2>1, Zenon
<1> QED
    BY <1>4, <1>6, <1>7

LEMMA SommeUnion ==
    ASSUME NEW S, IsFiniteSet(S), NEW R, IsFiniteSet(R), S \cap R = {},
           NEW v, \A x \in S \cup R : v[x] \in Int
    PROVE  SommeDe(v, S \cup R) = SommeDe(v, S) + SommeDe(v, R)
<1> DEFINE B == {T \in SUBSET S : SommeDe(v, T \cup R) = SommeDe(v, T) + SommeDe(v, R)}
<1>1. IsFiniteSet(S \cup R) /\ SommeDe(v, R) \in Int
    BY FS_Union, SommeEntiere
<1>2. {} \in B
  <2>1. {} \cup R = R
      OBVIOUS
  <2>2. SommeDe(v, {} \cup R) = SommeDe(v, R)
      BY <2>1, Zenon
  <2> QED
      BY <1>1, <2>2, SommeVide
<1>3. ASSUME NEW T \in SUBSET S, T # {}, \A x \in T : T \ {x} \in B
      PROVE  T \in B
  <2>1. PICK a \in T : TRUE
      BY <1>3
  <2>2. T \cup R \in SUBSET (S \cup R) /\ a \in T \cup R
      BY <2>1
  <2>3. SommeDe(v, T \cup R) = v[a] + SommeDe(v, (T \cup R) \ {a})
      BY <1>1, <2>2, SommeParties
  <2>4. SommeDe(v, (T \cup R) \ {a}) = SommeDe(v, (T \ {a}) \cup R)
    <3>1. (T \cup R) \ {a} = (T \ {a}) \cup R
        BY <2>1
    <3> QED
        BY <3>1, Zenon
  <2>5. SommeDe(v, (T \ {a}) \cup R) = SommeDe(v, T \ {a}) + SommeDe(v, R)
      BY <1>3, <2>1
  <2>6. /\ SommeDe(v, T) = v[a] + SommeDe(v, T \ {a})
        /\ SommeDe(v, T \ {a}) \in Int /\ v[a] \in Int
      BY <2>1, SommeParties
  <2> QED
      BY <1>1, <2>3, <2>4, <2>5, <2>6
<1>4. SUBSET S \subseteq B
  <2> HIDE DEF B
  <2> QED
      BY <1>2, <1>3, ToutesLesParties
<1> QED
    BY <1>4

\* The sum over the keys of the sums over the elements that have the key.
LEMMA SommeParCles ==
    ASSUME NEW K, IsFiniteSet(K), NEW P, IsFiniteSet(P), NEW v, \A x \in P : v[x] \in Int,
           NEW cle, \A x \in P : cle[x] \in K,
           NEW w, \A k \in K : w[k] = SommeDe(v, Fibre(cle, P, k))
    PROVE  SommeDe(w, K) = SommeDe(v, P)
<1> DEFINE Q(J) == {x \in P : cle[x] \in J}
           F(k) == Fibre(cle, P, k)
           B == {J \in SUBSET K : SommeDe(w, J) = SommeDe(v, Q(J))}
<1>0. \A k \in K : F(k) \in SUBSET P
    BY DEF Fibre
<1>1. \A T \in SUBSET P : IsFiniteSet(T) /\ SommeDe(v, T) \in Int
    BY SommeEntiere
<1>2. \A k \in K : w[k] \in Int
    BY <1>0, <1>1
<1>3. {} \in B
  <2>1. Q({}) = {}
      OBVIOUS
  <2> QED
      BY <2>1, SommeVide, Zenon
<1>4. ASSUME NEW J \in SUBSET K, J # {}, \A k \in J : J \ {k} \in B
      PROVE  J \in B
  <2>1. PICK a \in J : TRUE
      BY <1>4
  <2>2. SommeDe(w, J) = w[a] + SommeDe(w, J \ {a})
      BY <1>2, <2>1, SommeParties
  <2>3. SommeDe(w, J \ {a}) = SommeDe(v, Q(J \ {a}))
      BY <1>4, <2>1
  <2>4. w[a] = SommeDe(v, F(a))
      BY <2>1
  <2>5. /\ Q(J) = F(a) \cup Q(J \ {a})
        /\ F(a) \cap Q(J \ {a}) = {}
        /\ F(a) \in SUBSET P /\ Q(J \ {a}) \in SUBSET P
      BY <2>1 DEF Fibre
  <2> HIDE DEF Q, F
  <2>6. SommeDe(v, F(a) \cup Q(J \ {a})) = SommeDe(v, F(a)) + SommeDe(v, Q(J \ {a}))
      BY <1>1, <2>5, SommeUnion
  <2>7. SommeDe(v, Q(J)) = SommeDe(v, F(a)) + SommeDe(v, Q(J \ {a}))
      BY <2>5, <2>6, Zenon
  <2>8. SommeDe(w, J) = SommeDe(v, Q(J))
      BY <2>2, <2>3, <2>4, <2>7
  <2> QED
      BY <2>8
<1>5. SUBSET K \subseteq B
  <2> HIDE DEF B
  <2> QED
      BY <1>3, <1>4, ToutesLesParties
<1>6. Q(K) = P
    OBVIOUS
<1>7. SommeDe(w, K) = SommeDe(v, Q(K))
    BY <1>5
<1> HIDE DEF Q
<1> QED
    BY <1>6, <1>7, Zenon

\* The same when each key stands for an element of R, as in a GROUP BY.
LEMMA SommeParGroupes ==
    ASSUME NEW K, IsFiniteSet(K), NEW P, IsFiniteSet(P), NEW v, \A x \in P : v[x] \in Int,
           NEW cle, \A x \in P : cle[x] \in K,
           NEW h, \A j, k \in K : h[j] = h[k] => j = k,
           NEW w, \A k \in K : w[h[k]] = SommeDe(v, Fibre(cle, P, k))
    PROVE  SommeDe(w, ImageDe(h, K)) = SommeDe(v, P)
<1> DEFINE u == [k \in K |-> w[h[k]]]
<1>1. \A k \in K : u[k] = SommeDe(v, Fibre(cle, P, k)) /\ w[h[k]] = u[k]
    OBVIOUS
<1>2. \A T \in SUBSET P : SommeDe(v, T) \in Int
    BY SommeEntiere
<1>3. \A k \in K : u[k] \in Int
  <2>1. \A k \in K : Fibre(cle, P, k) \in SUBSET P
      BY DEF Fibre
  <2> QED
      BY <1>1, <1>2, <2>1
<1> HIDE DEF u
<1>4. SommeDe(u, K) = SommeDe(v, P)
    BY <1>1, SommeParCles
<1>5. PICK un \in {1, -1} : un = 1
    OBVIOUS
<1>6. \A k \in K : w[h[k]] = un * u[k]
    BY <1>1, <1>3, <1>5
<1>7. SommeDe(w, ImageDe(h, K)) = un * SommeDe(u, K)
    BY <1>3, <1>6, SommeImage
<1>8. SommeDe(v, P) \in Int
    BY <1>2
<1> QED
    BY <1>4, <1>5, <1>7, <1>8

\* A set has as many elements as one for each of them.
LEMMA SommeDesUns ==
    ASSUME NEW S, IsFiniteSet(S), NEW v, \A x \in S : v[x] = 1
    PROVE  SommeDe(v, S) = Cardinality(S)
<1> DEFINE B == {T \in SUBSET S : SommeDe(v, T) = Cardinality(T)}
<1>1. {} \in B
    BY SommeVide, FS_EmptySet
<1>2. ASSUME NEW T \in SUBSET S, T # {}, \A x \in T : T \ {x} \in B
      PROVE  T \in B
  <2>1. PICK a \in T : TRUE
      BY <1>2
  <2>2. SommeDe(v, T) = v[a] + SommeDe(v, T \ {a})
      BY SommeParties
  <2>3. SommeDe(v, T \ {a}) = Cardinality(T \ {a})
      BY <1>2
  <2>4. IsFiniteSet(T) /\ Cardinality(T) \in Nat
      BY FS_Subset, FS_CardinalityType
  <2>5. Cardinality(T \ {a}) = Cardinality(T) - 1
      BY <2>4, FS_RemoveElement
  <2> QED
      BY <2>2, <2>3, <2>4, <2>5
<1>3. SUBSET S \subseteq B
  <2> HIDE DEF B
  <2> QED
      BY <1>1, <1>2, ToutesLesParties
<1> QED
    BY <1>3
=============================================================================
