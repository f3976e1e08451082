---------------------------- MODULE LibraryLemmas ---------------------------
(***************************************************************************)
(* What the other proofs need of operators of the community modules.       *)
(* Sums over finite sets: the fold that MapThenSumSet is defined by adds   *)
(* up, in whatever order it takes the elements.  Flattening: what          *)
(* FlattenSeq makes of sequences of sequences, and where each of them is   *)
(* found in it.  Both are proved with the smallest set, or the smallest    *)
(* number, for which they would fail.                                      *)
(***************************************************************************)
EXTENDS Integers, FiniteSetsExt, SequencesExt, FiniteSetTheorems, SequenceTheorems,
        NaturalsInduction, WellFoundedInduction, TLAPS

-----------------------------------------------------------------------------
(***************************************************************************)
(* Sums.                                                                   *)
(***************************************************************************)

(* The sum of w over S, as MapThenSumSet computes it. *)
SumOver(w, S) == MapThenSumSet(LAMBDA c : w[c], S)

Chosen(s) == CHOOSE x \in s : TRUE

(* h[s] is the sum of w over each subset s of S. *)
IsFold(h, w, S) ==
  h = [s \in SUBSET S |-> IF s = {} THEN 0 ELSE w[Chosen(s)] + h[s \ {Chosen(s)}]]

FoldOf(w, S) == CHOOSE h : IsFold(h, w, S)

(* MapThenSumSet is that fold. *)
LEMMA SumIsFold == \A w, S : SumOver(w, S) = FoldOf(w, S)[S]
  BY DEF SumOver, MapThenSumSet, MapThenFoldSet, FoldOf, IsFold, Chosen

(* Of the subsets of a finite set that share a property there is a smallest. *)
LEMMA Smallest ==
  ASSUME NEW U, IsFiniteSet(U), NEW F \in SUBSET SUBSET U, F # {}
  PROVE  \E m \in F : \A n \in F : n \subseteq m => n = m
<1>1. IsWellFoundedOn(StrictSubsetOrdering(U), FiniteSubsetsOf(U))
  BY FS_StrictSubsetOrderingWellFounded
<1>2. F \subseteq FiniteSubsetsOf(U)
  BY FS_FiniteSubsetsOfFinite
<1>3. PICK m \in F : \A n \in F : ~(<<n, m>> \in StrictSubsetOrdering(U))
  BY <1>1, <1>2, WFMin
<1> QED
  BY <1>3 DEF StrictSubsetOrdering

LEMMA ChosenIn == \A s : s # {} => Chosen(s) \in s
  BY DEF Chosen

(* There is one fold at most. *)
LEMMA FoldIsUnique ==
  ASSUME NEW w, NEW S, IsFiniteSet(S), NEW g, NEW h, IsFold(g, w, S), IsFold(h, w, S)
  PROVE  g = h
<1>1. /\ \A s \in SUBSET S : g[s] = IF s = {} THEN 0 ELSE w[Chosen(s)] + g[s \ {Chosen(s)}]
      /\ \A s \in SUBSET S : h[s] = IF s = {} THEN 0 ELSE w[Chosen(s)] + h[s \ {Chosen(s)}]
  BY DEF IsFold
<1> DEFINE F == {s \in SUBSET S : g[s] # h[s]}
<1>s. F \in SUBSET SUBSET S
  OBVIOUS
<1> HIDE DEF F
<1>2. CASE F = {}
  <2>1. \A s \in SUBSET S : g[s] = h[s]
    BY <1>2 DEF F
  <2>2. g = [s \in SUBSET S |-> g[s]] /\ h = [s \in SUBSET S |-> h[s]]
    BY DEF IsFold
  <2> QED
    BY <2>1, <2>2
<1>3. CASE F # {}
  <2>1. PICK m \in F : \A n \in F : n \subseteq m => n = m
    BY <1>s, <1>3, Smallest
  <2>2. m \in SUBSET S /\ g[m] # h[m] /\ m # {}
    BY <1>1, <2>1 DEF F
  <2>3. /\ Chosen(m) \in m /\ m \ {Chosen(m)} \in SUBSET S
        /\ m \ {Chosen(m)} # m /\ m \ {Chosen(m)} \subseteq m
    BY <2>2, ChosenIn
  <2>4. g[m \ {Chosen(m)}] = h[m \ {Chosen(m)}]
    BY <2>1, <2>3 DEF F
  <2> QED
    BY <1>1, <2>2, <2>4
<1> QED
  BY <1>2, <1>3

(* A fold over S, cut down to the subsets of T, is one over T. *)
LEMMA FoldRestricts ==
  ASSUME NEW w, NEW S, NEW T \in SUBSET S, NEW h, IsFold(h, w, S)
  PROVE  IsFold([s \in SUBSET T |-> h[s]], w, T)
<1> DEFINE g == [s \in SUBSET T |-> h[s]]
<1>1. \A s \in SUBSET S : h[s] = IF s = {} THEN 0 ELSE w[Chosen(s)] + h[s \ {Chosen(s)}]
  BY DEF IsFold
<1>2. ASSUME NEW s \in SUBSET T
      PROVE  g[s] = IF s = {} THEN 0 ELSE w[Chosen(s)] + g[s \ {Chosen(s)}]
  BY <1>1
<1> QED
  BY <1>2 DEF IsFold

(* And there is one: a smallest set without could be folded with those of its
   proper subsets. *)
LEMMA FoldExists ==
  ASSUME NEW w, NEW U, IsFiniteSet(U)
  PROVE  \A S \in SUBSET U : IsFold(FoldOf(w, S), w, S)
<1> DEFINE F == {S \in SUBSET U : ~ \E h : IsFold(h, w, S)}
<1>s. F \in SUBSET SUBSET U
  OBVIOUS
<1> HIDE DEF F
<1>1. CASE F = {}
  <2>1. \A S \in SUBSET U : \E h : IsFold(h, w, S)
    BY <1>1 DEF F
  <2> QED
    BY <2>1 DEF FoldOf
<1>2. CASE F # {}
  <2>1. PICK m \in F : \A n \in F : n \subseteq m => n = m
    BY <1>s, <1>2, Smallest
  <2>m. m \in SUBSET U /\ ~ \E h : IsFold(h, w, m)
    BY <2>1 DEF F
  <2>2. \A S \in SUBSET m : S # m => IsFold(FoldOf(w, S), w, S)
    <3>1. \A S \in SUBSET m : S # m => \E h : IsFold(h, w, S)
      BY <2>1, <2>m DEF F
    <3> QED
      BY <3>1 DEF FoldOf
  <2>3. \A S \in SUBSET m : IsFiniteSet(S)
    BY <2>m, FS_Subset
  <2>4. ASSUME NEW S \in SUBSET m, S # m, NEW T \in SUBSET S
        PROVE  FoldOf(w, S)[T] = FoldOf(w, T)[T]
    <3>1. IsFold(FoldOf(w, S), w, S) /\ IsFold(FoldOf(w, T), w, T) /\ IsFiniteSet(T)
      BY <2>2, <2>3, <2>4
    <3> DEFINE h == FoldOf(w, S)
               r == [s \in SUBSET T |-> h[s]]
    <3> HIDE DEF h
    <3>2. IsFold(r, w, T)
      BY <3>1, FoldRestricts DEF h
    <3>3. r[T] = h[T]
      OBVIOUS
    <3> HIDE DEF r
    <3>4. FoldOf(w, T) = r
      BY <3>1, <3>2, FoldIsUnique
    <3> QED
      BY <3>3, <3>4 DEF h
  <2> DEFINE c == Chosen(m)
             g == [s \in SUBSET m |-> IF s # m THEN FoldOf(w, s)[s]
                                      ELSE IF m = {} THEN 0 ELSE w[c] + FoldOf(w, m \ {c})[m \ {c}]]
  <2>5. ASSUME NEW s \in SUBSET m
        PROVE  g[s] = IF s = {} THEN 0 ELSE w[Chosen(s)] + g[s \ {Chosen(s)}]
    <3>1. s # {} => s \ {Chosen(s)} \in SUBSET m /\ s \ {Chosen(s)} # m /\ s \ {Chosen(s)} \in SUBSET s
      BY ChosenIn
    <3>2. CASE s = m
      BY <3>1, <3>2
    <3>3. CASE s # m
      <4>1. FoldOf(w, s)[s] = IF s = {} THEN 0 ELSE w[Chosen(s)] + FoldOf(w, s)[s \ {Chosen(s)}]
        BY <2>2, <3>3 DEF IsFold
      <4>2. s # {} => FoldOf(w, s)[s \ {Chosen(s)}] = FoldOf(w, s \ {Chosen(s)})[s \ {Chosen(s)}]
        BY <2>4, <3>1, <3>3
      <4> QED
        BY <3>1, <3>3, <4>1, <4>2
    <3> QED
      BY <3>2, <3>3
  <2>6. IsFold(g, w, m)
    BY <2>5 DEF IsFold
  <2> QED
    BY <2>m, <2>6
<1> QED
  BY <1>1, <1>2

(* What a sum of MapThenSumSet is: nothing, or one element and the rest. *)
LEMMA SumUnfolds ==
  ASSUME NEW w, NEW S, IsFiniteSet(S)
  PROVE  /\ SumOver(w, {}) = 0
         /\ S # {} => SumOver(w, S) = w[Chosen(S)] + SumOver(w, S \ {Chosen(S)})
<1>1. IsFiniteSet({}) /\ {} \in SUBSET {} /\ S \in SUBSET S
  BY FS_EmptySet
<1>2. SumOver(w, {}) = 0
  <2>1. IsFold(FoldOf(w, {}), w, {})
    BY <1>1, FoldExists
  <2> QED
    BY <2>1, SumIsFold DEF IsFold
<1>3. ASSUME S # {}
      PROVE  SumOver(w, S) = w[Chosen(S)] + SumOver(w, S \ {Chosen(S)})
  <2> DEFINE R == S \ {Chosen(S)}
             h == FoldOf(w, S)
             r == [s \in SUBSET R |-> h[s]]
  <2>1. R \in SUBSET S /\ IsFiniteSet(R) /\ r[R] = h[R]
    BY FS_RemoveElement
  <2>2. IsFold(h, w, S) /\ IsFold(FoldOf(w, R), w, R)
    BY <1>1, <2>1, FoldExists
  <2>3. h[S] = w[Chosen(S)] + h[R]
    BY <1>1, <1>3, <2>2 DEF IsFold
  <2> HIDE DEF R, h
  <2>4. IsFold(r, w, R)
    BY <2>1, <2>2, FoldRestricts
  <2> HIDE DEF r
  <2>5. FoldOf(w, R) = r
    BY <2>1, <2>2, <2>4, FoldIsUnique
  <2>6. SumOver(w, S) = h[S] /\ SumOver(w, R) = r[R]
    BY <2>5, SumIsFold DEF h
  <2> QED
    BY <2>1, <2>3, <2>6 DEF R
<1> QED
  BY <1>2, <1>3

(* Sums of natural numbers are natural numbers. *)
LEMMA SumIsNat ==
  ASSUME NEW w, NEW S, IsFiniteSet(S), \A c \in S : w[c] \in Nat
  PROVE  SumOver(w, S) \in Nat
<1> DEFINE F == {T \in SUBSET S : SumOver(w, T) \notin Nat}
<1>1. F \in SUBSET SUBSET S
  OBVIOUS
<1> SUFFICES ASSUME F # {} PROVE FALSE
  OBVIOUS
<1> HIDE DEF F
<1>2. PICK m \in F : \A n \in F : n \subseteq m => n = m
  BY <1>1, Smallest
<1>3. m \in SUBSET S /\ SumOver(w, m) \notin Nat /\ IsFiniteSet(m)
  BY <1>2, FS_Subset DEF F
<1>4. m # {}
  <2>1. SumOver(w, {}) = 0
    BY <1>3, SumUnfolds
  <2>2. SumOver(w, {}) \in Nat
    BY <2>1
  <2> QED
    BY <1>3, <2>2
<1>5. /\ Chosen(m) \in m /\ m \ {Chosen(m)} \subseteq m /\ m \ {Chosen(m)} # m
      /\ SumOver(w, m) = w[Chosen(m)] + SumOver(w, m \ {Chosen(m)})
  BY <1>3, <1>4, ChosenIn, SumUnfolds
<1>6. SumOver(w, m \ {Chosen(m)}) \in Nat
  BY <1>2, <1>3, <1>5 DEF F
<1> QED
  BY <1>3, <1>5, <1>6

(* An element more adds what it is worth: the order of the fold is no matter. *)
LEMMA SumAdds ==
  ASSUME NEW w, NEW U, IsFiniteSet(U), \A c \in U : w[c] \in Nat,
         NEW S \in SUBSET U, NEW x \in U \ S
  PROVE  SumOver(w, S \cup {x}) = w[x] + SumOver(w, S)
<1> DEFINE F == {T \in SUBSET U : \E y \in U \ T : SumOver(w, T \cup {y}) # w[y] + SumOver(w, T)}
<1>1. F \in SUBSET SUBSET U
  OBVIOUS
<1> SUFFICES ASSUME F # {} PROVE FALSE
  OBVIOUS
<1> HIDE DEF F
<1>2. PICK m \in F : \A n \in F : n \subseteq m => n = m
  BY <1>1, Smallest
<1>3. PICK y \in U \ m : SumOver(w, m \cup {y}) # w[y] + SumOver(w, m)
  BY <1>2 DEF F
<1>4. ASSUME NEW T \in SUBSET m, T # m, NEW z \in U \ T
      PROVE  SumOver(w, T \cup {z}) = w[z] + SumOver(w, T)
  <2>1. T \notin F
    BY <1>2, <1>4
  <2> QED
    BY <1>1, <1>2, <1>4, <2>1 DEF F
<1>5. m \in SUBSET U /\ IsFiniteSet(m) /\ IsFiniteSet(m \cup {y})
  BY <1>1, <1>2, FS_Subset, FS_AddElement
<1> DEFINE c == Chosen(m \cup {y})
<1>6. c \in m \cup {y} /\ SumOver(w, m \cup {y}) = w[c] + SumOver(w, (m \cup {y}) \ {c})
  <2>1. m \cup {y} # {}
    OBVIOUS
  <2> QED
    BY <1>5, <2>1, ChosenIn, SumUnfolds
<1> HIDE DEF c
<1>7. CASE c = y
  <2>1. (m \cup {y}) \ {c} = m
    BY <1>3, <1>7
  <2> QED
    BY <1>3, <1>6, <1>7, <2>1
<1>8. CASE c \in m /\ c # y
  <2> DEFINE r == m \ {c}
  <2>1. /\ r \in SUBSET m /\ r # m /\ c \in U \ r /\ y \in U \ r
        /\ (m \cup {y}) \ {c} = r \cup {y} /\ r \cup {c} = m
    BY <1>3, <1>5, <1>8
  <2> HIDE DEF r
  <2>2. /\ SumOver(w, r \cup {y}) = w[y] + SumOver(w, r)
        /\ SumOver(w, r \cup {c}) = w[c] + SumOver(w, r)
    BY <1>4, <2>1
  <2>3. w[c] \in Nat /\ w[y] \in Nat /\ SumOver(w, r) \in Nat
    <3>1. IsFiniteSet(r) /\ \A d \in r : w[d] \in Nat
      BY <1>5, <2>1, FS_Subset
    <3> QED
      BY <1>3, <2>1, <3>1, SumIsNat
  <2>4. /\ SumOver(w, m) = w[c] + SumOver(w, r)
        /\ SumOver(w, m \cup {y}) = w[c] + (w[y] + SumOver(w, r))
    BY <1>6, <2>1, <2>2
  <2>5. w[c] + (w[y] + SumOver(w, r)) = w[y] + (w[c] + SumOver(w, r))
    BY <2>3
  <2> QED
    BY <1>3, <2>4, <2>5
<1> QED
  BY <1>6, <1>7, <1>8

(* The sum over two disjoint sets is the sum of their sums. *)
LEMMA SumOfUnion ==
  ASSUME NEW w, NEW U, IsFiniteSet(U), \A c \in U : w[c] \in Nat,
         NEW S \in SUBSET U, NEW T \in SUBSET U, S \cap T = {}
  PROVE  SumOver(w, S \cup T) = SumOver(w, S) + SumOver(w, T)
<1> DEFINE F == {V \in SUBSET T : SumOver(w, S \cup V) # SumOver(w, S) + SumOver(w, V)}
<1>1. F \in SUBSET SUBSET T /\ IsFiniteSet(T) /\ IsFiniteSet(S)
  BY FS_Subset
<1> SUFFICES ASSUME F # {} PROVE FALSE
  OBVIOUS
<1> HIDE DEF F
<1>2. PICK m \in F : \A n \in F : n \subseteq m => n = m
  BY <1>1, Smallest
<1>3. m \in SUBSET T /\ SumOver(w, S \cup m) # SumOver(w, S) + SumOver(w, m)
  BY <1>2 DEF F
<1>4. SumOver(w, S) \in Nat
  BY <1>1, SumIsNat
<1>5. m # {}
  <2>1. SumOver(w, {}) = 0 /\ S \cup {} = S
    BY <1>1, SumUnfolds
  <2>2. SumOver(w, S \cup {}) = SumOver(w, S) + SumOver(w, {})
    BY <1>4, <2>1
  <2> QED
    BY <1>3, <2>2
<1>6. PICK x : x \in m
  BY <1>5
<1> DEFINE r == m \ {x}
<1>7. /\ r \in SUBSET T /\ r \in SUBSET U /\ r # m /\ r \subseteq m /\ x \in U \ r /\ m = r \cup {x}
      /\ S \cup r \in SUBSET U /\ x \in U \ (S \cup r) /\ S \cup m = (S \cup r) \cup {x}
  BY <1>3, <1>6
<1>8. r \notin F
  BY <1>2, <1>7
<1> HIDE DEF r
<1>9. SumOver(w, S \cup r) = SumOver(w, S) + SumOver(w, r)
  BY <1>7, <1>8 DEF F
<1>10. /\ SumOver(w, m) = w[x] + SumOver(w, r)
       /\ SumOver(w, S \cup m) = w[x] + SumOver(w, S \cup r)
  BY <1>7, SumAdds
<1>11. w[x] \in Nat /\ SumOver(w, r) \in Nat
  <2>1. IsFiniteSet(r) /\ \A d \in r : w[d] \in Nat
    BY <1>7, FS_Subset
  <2> QED
    BY <1>7, <2>1, SumIsNat
<1> QED
  BY <1>3, <1>4, <1>9, <1>10, <1>11

(* The sum over what is left of a set. *)
LEMMA SumOfRest ==
  ASSUME NEW w, NEW U, IsFiniteSet(U), \A c \in U : w[c] \in Nat,
         NEW S \in SUBSET U, NEW T \in SUBSET S
  PROVE  SumOver(w, S) = SumOver(w, S \ T) + SumOver(w, T)
<1>1. S \ T \in SUBSET U /\ T \in SUBSET U /\ (S \ T) \cap T = {} /\ (S \ T) \cup T = S
  OBVIOUS
<1> QED
  BY <1>1, SumOfUnion

(* Sums over a set depend on the worth of its elements alone. *)
LEMMA SumOfEqual ==
  ASSUME NEW w, NEW v, NEW S, IsFiniteSet(S), \A c \in S : w[c] = v[c]
  PROVE  SumOver(w, S) = SumOver(v, S)
<1> DEFINE F == {T \in SUBSET S : SumOver(w, T) # SumOver(v, T)}
<1>1. F \in SUBSET SUBSET S
  OBVIOUS
<1> SUFFICES ASSUME F # {} PROVE FALSE
  OBVIOUS
<1> HIDE DEF F
<1>2. PICK m \in F : \A n \in F : n \subseteq m => n = m
  BY <1>1, Smallest
<1>3. m \in SUBSET S /\ SumOver(w, m) # SumOver(v, m) /\ IsFiniteSet(m)
  BY <1>2, FS_Subset DEF F
<1>4. m # {}
  BY <1>3, SumUnfolds
<1>5. /\ Chosen(m) \in m /\ m \ {Chosen(m)} \subseteq m /\ m \ {Chosen(m)} # m
      /\ SumOver(w, m) = w[Chosen(m)] + SumOver(w, m \ {Chosen(m)})
      /\ SumOver(v, m) = v[Chosen(m)] + SumOver(v, m \ {Chosen(m)})
  BY <1>3, <1>4, ChosenIn, SumUnfolds
<1>6. SumOver(w, m \ {Chosen(m)}) = SumOver(v, m \ {Chosen(m)})
  BY <1>2, <1>3, <1>5 DEF F
<1>7. w[Chosen(m)] = v[Chosen(m)]
  BY <1>3, <1>5
<1> QED
  BY <1>3, <1>5, <1>6, <1>7

(* A finite set has a finite image. *)
LEMMA ImageFinite ==
  ASSUME NEW f, IsFiniteSet(DOMAIN f)
  PROVE  IsFiniteSet({f[x] : x \in DOMAIN f})
<1> DEFINE g == [x \in DOMAIN f |-> f[x]]
<1>1. g \in Surjection(DOMAIN f, {f[x] : x \in DOMAIN f})
  BY DEF Surjection
<1> QED
  BY <1>1, FS_Surjection

(* A sum goes along with a renaming of the elements. *)
LEMMA SumOfImage ==
  ASSUME NEW w, NEW v, NEW f, IsFiniteSet(DOMAIN f),
         \A x, y \in DOMAIN f : f[x] = f[y] => x = y,
         \A x \in DOMAIN f : w[x] \in Nat /\ v[f[x]] = w[x],
         NEW S \in SUBSET DOMAIN f
  PROVE  SumOver(w, S) = SumOver(v, {f[x] : x \in S})
<1> DEFINE U == DOMAIN f
           im(T) == {f[x] : x \in T}
           F == {T \in SUBSET U : SumOver(w, T) # SumOver(v, im(T))}
<1>1. F \in SUBSET SUBSET U
  OBVIOUS
<1> SUFFICES ASSUME F # {} PROVE FALSE
  OBVIOUS
<1> HIDE DEF F
<1>2. PICK m \in F : \A n \in F : n \subseteq m => n = m
  BY <1>1, Smallest
<1>3. m \in SUBSET U /\ SumOver(w, m) # SumOver(v, im(m))
  BY <1>2 DEF F
<1>4. m # {}
  <2>1. SumOver(w, {}) = 0 /\ SumOver(v, {}) = 0 /\ im({}) = {}
    BY FS_EmptySet, SumUnfolds
  <2> QED
    BY <1>3, <2>1
<1>5. PICK x : x \in m
  BY <1>4
<1> DEFINE r == m \ {x}
<1>6. /\ r \in SUBSET U /\ r # m /\ r \subseteq m /\ x \in U \ r /\ m = r \cup {x}
  BY <1>3, <1>5
<1>7. /\ im(r) \in SUBSET im(U) /\ f[x] \in im(U) \ im(r) /\ im(m) = im(r) \cup {f[x]}
  BY <1>3, <1>5
<1>8. r \notin F
  BY <1>2, <1>6
<1> HIDE DEF r
<1>9. SumOver(w, r) = SumOver(v, im(r))
  BY <1>6, <1>8 DEF F
<1>10. IsFiniteSet(im(U)) /\ \A y \in im(U) : v[y] \in Nat
  BY ImageFinite
<1> HIDE DEF im, U
<1>11. SumOver(v, im(m)) = v[f[x]] + SumOver(v, im(r))
  BY <1>7, <1>10, SumAdds
<1>12. SumOver(w, m) = w[x] + SumOver(w, r)
  BY <1>6, SumAdds DEF U
<1> QED
  BY <1>3, <1>6, <1>9, <1>11, <1>12 DEF U

-----------------------------------------------------------------------------
(***************************************************************************)
(* Numbers.                                                                *)
(***************************************************************************)

(* The smallest of some numbers. *)
LEMMA SmallestNumber ==
  ASSUME NEW F \in SUBSET Nat, F # {}
  PROVE  \E m \in F : \A n \in F : m <= n
<1> DEFINE Less == {ss \in Nat \X Nat : ss[1] < ss[2]}
<1>1. IsWellFoundedOn(Less, Nat)
  BY NatLessThanWellFounded DEF OpToRel
<1>s. \A m, n \in Nat : n < m => <<n, m>> \in Less
  OBVIOUS
<1> HIDE DEF Less
<1>2. PICK m \in F : \A n \in F : ~(<<n, m>> \in Less)
  BY <1>1, WFMin
<1>3. \A n \in F : ~(n < m)
  BY <1>2, <1>s
<1> QED
  BY <1>3

(* Division with a remainder, *)
LEMMA DivMod ==
  ASSUME NEW n \in Nat, NEW d \in Nat \ {0}
  PROVE  n \div d \in Nat /\ n % d \in 0 .. d - 1 /\ n = (n \div d) * d + (n % d)
<1>1. d \in Int /\ d > 0 /\ n \in Int
  OBVIOUS
<1>2. n \div d \in Int /\ n \div d >= 0 /\ n % d \in 0 .. d - 1
  OBVIOUS
<1>3. n = d * (n \div d) + (n % d)
  BY <1>1
<1>4. d * (n \div d) = (n \div d) * d
  BY <1>2
<1> QED
  BY <1>2, <1>3, <1>4

(* products, *)
LEMMA Times ==
  ASSUME NEW a \in Nat, NEW b \in Nat, NEW d \in Nat, a <= b
  PROVE  a * d <= b * d
  OBVIOUS

(* one quotient, *)
LEMMA DivUnique ==
  ASSUME NEW d \in Nat \ {0}, NEW q \in Nat, NEW r \in 0 .. d - 1, NEW p \in Nat, NEW s \in 0 .. d - 1, q * d + r = p * d + s
  PROVE  q = p
<1>1. CASE q < p
  <2>1. (q + 1) * d <= p * d
    BY <1>1, Times
  <2>2. (q + 1) * d = q * d + d
    OBVIOUS
  <2> DEFINE x == q * d
             y == p * d
  <2>3. x \in Nat /\ y \in Nat /\ x + d <= y /\ x + r = y + s
    BY <2>1, <2>2
  <2> HIDE DEF x, y
  <2> QED BY <2>3
<1>2. CASE p < q
  <2>1. (p + 1) * d <= q * d
    BY <1>2, Times
  <2>2. (p + 1) * d = p * d + d
    OBVIOUS
  <2> DEFINE x == q * d
             y == p * d
  <2>3. x \in Nat /\ y \in Nat /\ y + d <= x /\ x + r = y + s
    BY <2>1, <2>2
  <2> HIDE DEF x, y
  <2> QED BY <2>3
<1> QED BY <1>1, <1>2

(* and division in two steps. *)
LEMMA DivTwice == \A n \in Nat : \A d, e \in Nat \ {0} : (n \div d) \div e = n \div (d * e)
<1> TAKE n \in Nat
<1> TAKE d, e \in Nat \ {0}
<1> DEFINE a == n \div d
           b == a \div e
           r == n % d
           s == a % e
           c == n \div (d * e)
           t == n % (d * e)
<1>0. d * e \in Nat \ {0}
  OBVIOUS
<1>1. a \in Nat /\ r \in 0 .. d - 1 /\ n = a * d + r
  BY DivMod
<1> HIDE DEF a, r
<1>2. b \in Nat /\ s \in 0 .. e - 1 /\ a = b * e + s
  BY <1>1, DivMod
<1> HIDE DEF b, s
<1>3. c \in Nat /\ t \in 0 .. d * e - 1 /\ n = c * (d * e) + t
  BY <1>0, DivMod
<1> HIDE DEF c, t
<1>4. n = b * (d * e) + (s * d + r)
  <2>1. (b * e + s) * d = b * (d * e) + s * d
    BY <1>2
  <2> QED
    BY <1>1, <1>2, <2>1
<1>5. s * d + r \in 0 .. d * e - 1
  <2>1. (s + 1) * d <= e * d
    BY <1>2, Times
  <2>2. (s + 1) * d = s * d + d /\ e * d = d * e /\ s * d \in Nat
    BY <1>2
  <2> DEFINE x == s * d
             y == d * e
  <2>3. x \in Nat /\ y \in Nat /\ x + d <= y
    BY <1>0, <2>1, <2>2
  <2> HIDE DEF x, y
  <2>4. x + r \in 0 .. y - 1
    BY <1>1, <2>3
  <2> QED
    BY <2>4 DEF x, y
<1>6. b = c
  <2> DEFINE m == d * e
             z == s * d + r
  <2>1. m \in Nat \ {0} /\ z \in 0 .. m - 1 /\ b * m + z = c * m + t /\ t \in 0 .. m - 1
    BY <1>0, <1>3, <1>4, <1>5
  <2> HIDE DEF m, z
  <2> QED
    BY <1>2, <1>3, <2>1, DivUnique
<1> QED
  BY <1>6 DEF a, b, c

-----------------------------------------------------------------------------
(***************************************************************************)
(* Short sequences, and what is put together of them.                      *)
(***************************************************************************)

(* What is put before a sequence is its first item. *)
LEMMA Prefixed ==
  ASSUME NEW S, NEW a \in S, NEW x \in Seq(S), NEW y \in Seq(S), Len(y) = Len(x) + 1,
         y[1] = a, \A i \in 1..Len(x) : y[i + 1] = x[i]
  PROVE  <<a>> \o x = y
<1>1. <<a>> \in Seq(S) /\ Len(<<a>>) = 1 /\ <<a>>[1] = a /\ Len(x) \in Nat
  OBVIOUS
<1>2. /\ <<a>> \o x \in Seq(S) /\ Len(<<a>> \o x) = 1 + Len(x)
      /\ \A i \in 1..(1 + Len(x)) : (<<a>> \o x)[i] = IF i <= 1 THEN <<a>>[i] ELSE x[i - 1]
  BY <1>1, ConcatProperties
<1>3. ASSUME NEW i \in 1..Len(y) PROVE (<<a>> \o x)[i] = y[i]
  <2>1. CASE i = 1
    BY <1>1, <1>2, <2>1
  <2>2. CASE i # 1
    <3>1. i \in 1..(1 + Len(x)) /\ ~(i <= 1) /\ i - 1 \in 1..Len(x) /\ (i - 1) + 1 = i
      BY <1>1, <2>2
    <3> QED
      BY <1>2, <3>1
  <2> QED
    BY <2>1, <2>2
<1> QED
  BY <1>1, <1>2, <1>3, SeqEqual

(* Sequences written out. *)
LEMMA Tuples ==
  /\ \A S : \A a \in S : <<a>> \in Seq(S)
  /\ \A S : \A a, b \in S : <<a, b>> \in Seq(S)
  /\ \A S : \A a, b, c \in S : <<a, b, c>> \in Seq(S)
  /\ \A S : \A a, b, c, d \in S : <<a, b, c, d>> \in Seq(S)
  /\ \A a : Len(<<a>>) = 1 /\ <<a>>[1] = a
  /\ \A a, b : Len(<<a, b>>) = 2 /\ <<a, b>>[1] = a /\ <<a, b>>[2] = b
  /\ \A a, b, c : Len(<<a, b, c>>) = 3 /\ <<a, b, c>>[1] = a /\ <<a, b, c>>[2] = b /\ <<a, b, c>>[3] = c
  /\ \A a, b, c, d : /\ Len(<<a, b, c, d>>) = 4
                     /\ <<a, b, c, d>>[1] = a /\ <<a, b, c, d>>[2] = b
                     /\ <<a, b, c, d>>[3] = c /\ <<a, b, c, d>>[4] = d
<1>1. \A S : \A a \in S : <<a>> \in Seq(S)
  OBVIOUS
<1>2. \A S : \A a, b \in S : <<a, b>> \in Seq(S)
  OBVIOUS
<1>3. \A S : \A a, b, c \in S : <<a, b, c>> \in Seq(S)
  OBVIOUS
<1>4. \A S : \A a, b, c, d \in S : <<a, b, c, d>> \in Seq(S)
  OBVIOUS
<1>5. \A a : Len(<<a>>) = 1 /\ <<a>>[1] = a
  OBVIOUS
<1>6. \A a, b : Len(<<a, b>>) = 2 /\ <<a, b>>[1] = a /\ <<a, b>>[2] = b
  OBVIOUS
<1>7. \A a, b, c : Len(<<a, b, c>>) = 3 /\ <<a, b, c>>[1] = a /\ <<a, b, c>>[2] = b /\ <<a, b, c>>[3] = c
  OBVIOUS
<1>8. \A a, b, c, d : /\ Len(<<a, b, c, d>>) = 4
                     /\ <<a, b, c, d>>[1] = a /\ <<a, b, c, d>>[2] = b
                     /\ <<a, b, c, d>>[3] = c /\ <<a, b, c, d>>[4] = d
  OBVIOUS
<1> QED
  BY <1>1, <1>2, <1>3, <1>4, <1>5, <1>6, <1>7, <1>8

LEMMA LongTuples ==
  /\ \A S : \A a, b, c, d, e \in S : <<a, b, c, d, e>> \in Seq(S)
  /\ \A S : \A a, b, c, d, e, f, g \in S : <<a, b, c, d, e, f, g>> \in Seq(S)
  /\ \A a, b, c, d, e : /\ Len(<<a, b, c, d, e>>) = 5
                       /\ <<a, b, c, d, e>>[1] = a /\ <<a, b, c, d, e>>[2] = b /\ <<a, b, c, d, e>>[3] = c
                       /\ <<a, b, c, d, e>>[4] = d /\ <<a, b, c, d, e>>[5] = e
  /\ \A a, b, c, d, e, f, g :
       /\ Len(<<a, b, c, d, e, f, g>>) = 7
       /\ <<a, b, c, d, e, f, g>>[1] = a /\ <<a, b, c, d, e, f, g>>[2] = b /\ <<a, b, c, d, e, f, g>>[3] = c
       /\ <<a, b, c, d, e, f, g>>[4] = d /\ <<a, b, c, d, e, f, g>>[5] = e
       /\ <<a, b, c, d, e, f, g>>[6] = f /\ <<a, b, c, d, e, f, g>>[7] = g
<1>1. \A S : \A a, b, c, d, e \in S : <<a, b, c, d, e>> \in Seq(S)
  OBVIOUS
<1>2. \A S : \A a, b, c, d, e, f, g \in S : <<a, b, c, d, e, f, g>> \in Seq(S)
  OBVIOUS
<1>3. \A a, b, c, d, e : /\ Len(<<a, b, c, d, e>>) = 5
                       /\ <<a, b, c, d, e>>[1] = a /\ <<a, b, c, d, e>>[2] = b /\ <<a, b, c, d, e>>[3] = c
                       /\ <<a, b, c, d, e>>[4] = d /\ <<a, b, c, d, e>>[5] = e
  OBVIOUS
<1>4. \A a, b, c, d, e, f, g :
       /\ Len(<<a, b, c, d, e, f, g>>) = 7
       /\ <<a, b, c, d, e, f, g>>[1] = a /\ <<a, b, c, d, e, f, g>>[2] = b /\ <<a, b, c, d, e, f, g>>[3] = c
       /\ <<a, b, c, d, e, f, g>>[4] = d /\ <<a, b, c, d, e, f, g>>[5] = e
       /\ <<a, b, c, d, e, f, g>>[6] = f /\ <<a, b, c, d, e, f, g>>[7] = g
  OBVIOUS
<1> QED
  BY <1>1, <1>2, <1>3, <1>4

LEMMA Pairs ==
  ASSUME NEW S, NEW a \in S, NEW b \in S
  PROVE  <<a, b>> \in Seq(S) /\ <<a>> \in Seq(S) /\ <<a, b>> = <<a>> \o <<b>>
<1> DEFINE x == <<b>>
           y == <<a, b>>
<1>1. x \in Seq(S) /\ y \in Seq(S) /\ <<a>> \in Seq(S)
  BY Tuples
<1>2. Len(x) = 1 /\ x[1] = b
  BY Tuples
<1>3. Len(y) = 2 /\ y[1] = a /\ y[2] = b
  BY Tuples
<1> HIDE DEF x, y
<1>4. \A i \in 1..Len(x) : y[i + 1] = x[i]
  <2>1. \A i \in 1..1 : i = 1 /\ 1 + 1 = 2
    OBVIOUS
  <2>2. \A i \in 1..1 : y[i + 1] = x[i]
    BY <1>2, <1>3, <2>1
  <2> QED
    BY <1>2, <2>2
<1>5. <<a>> \o x = y
  <2>1. Len(y) = Len(x) + 1
    BY <1>2, <1>3
  <2>2. y[1] = a
    BY <1>3
  <2> QED
    BY <1>1, <1>4, <2>1, <2>2, Prefixed
<1> QED
  BY <1>1, <1>5 DEF x, y

LEMMA Triples ==
  ASSUME NEW S, NEW a \in S, NEW b \in S, NEW c \in S
  PROVE  <<a, b, c>> \in Seq(S) /\ <<a, b, c>> = <<a>> \o <<b, c>>
<1> DEFINE x == <<b, c>>
           y == <<a, b, c>>
<1>1. x \in Seq(S) /\ y \in Seq(S)
  BY Tuples
<1>2. Len(x) = 2 /\ x[1] = b /\ x[2] = c
  BY Tuples
<1>3. Len(y) = 3 /\ y[1] = a /\ y[2] = b /\ y[3] = c
  BY Tuples
<1> HIDE DEF x, y
<1>4. \A i \in 1..Len(x) : y[i + 1] = x[i]
  <2>1. \A i \in 1..2 : i = 1 \/ i = 2
    OBVIOUS
  <2>2. 1 + 1 = 2 /\ 2 + 1 = 3
    OBVIOUS
  <2>3. y[1 + 1] = x[1] /\ y[2 + 1] = x[2]
    BY <1>2, <1>3, <2>2
  <2> QED
    BY <1>2, <2>1, <2>3
<1>5. <<a>> \o x = y
  <2>1. Len(y) = Len(x) + 1
    BY <1>2, <1>3
  <2>2. y[1] = a
    BY <1>3
  <2> QED
    BY <1>1, <1>4, <2>1, <2>2, Prefixed
<1> QED
  BY <1>1, <1>5 DEF x, y

LEMMA Quads ==
  ASSUME NEW S, NEW a \in S, NEW b \in S, NEW c \in S, NEW d \in S
  PROVE  <<a>> \o <<b, c, d>> = <<a, b, c, d>>
<1> DEFINE x == <<b, c, d>>
           y == <<a, b, c, d>>
<1>1. x \in Seq(S) /\ y \in Seq(S)
  BY Tuples
<1>2. Len(x) = 3 /\ x[1] = b /\ x[2] = c /\ x[3] = d
  BY Tuples
<1>3. Len(y) = 4 /\ y[1] = a /\ y[2] = b /\ y[3] = c /\ y[4] = d
  BY Tuples
<1> HIDE DEF x, y
<1>4. \A i \in 1..Len(x) : y[i + 1] = x[i]
  <2>1. \A i \in 1..3 : i = 1 \/ i = 2 \/ i = 3
    OBVIOUS
  <2>2. 1 + 1 = 2 /\ 2 + 1 = 3 /\ 3 + 1 = 4
    OBVIOUS
  <2>3. y[1 + 1] = x[1] /\ y[2 + 1] = x[2] /\ y[3 + 1] = x[3]
    BY <1>2, <1>3, <2>2
  <2> QED
    BY <1>2, <2>1, <2>3
<1>5. <<a>> \o x = y
  <2>1. Len(y) = Len(x) + 1
    BY <1>2, <1>3
  <2>2. y[1] = a
    BY <1>3
  <2> QED
    BY <1>1, <1>4, <2>1, <2>2, Prefixed
<1> QED
  BY <1>5 DEF x, y

(* Concatenations of two to four, nested to the right. *)
LEMMA Rejoined ==
  ASSUME NEW S, NEW a \in Seq(S), NEW b \in Seq(S), NEW c \in Seq(S)
  PROVE  (a \o b) \o c = a \o (b \o c)
  OBVIOUS

NestsThree(S) ==
  \A a, b, c, d \in Seq(S) : (a \o (b \o c)) \o d = a \o (b \o (c \o d))

NestsFour(S) ==
  \A a, b, c, d, e \in Seq(S) : (a \o (b \o (c \o d))) \o e = a \o (b \o (c \o (d \o e)))

(* Sequences put together in another order. *)
LEMMA Nested == \A S : NestsThree(S) /\ NestsFour(S)
<1> SUFFICES ASSUME NEW S PROVE NestsThree(S) /\ NestsFour(S)
  OBVIOUS
<1>1. ASSUME NEW a \in Seq(S), NEW b \in Seq(S), NEW c \in Seq(S), NEW d \in Seq(S)
      PROVE  (a \o (b \o c)) \o d = a \o (b \o (c \o d))
  <2> DEFINE x == b \o c
  <2>1. x \in Seq(S)
    OBVIOUS
  <2> HIDE DEF x
  <2>2. (a \o x) \o d = a \o (x \o d)
    BY <2>1, Rejoined
  <2>3. (b \o c) \o d = b \o (c \o d)
    BY Rejoined
  <2> QED
    BY <2>2, <2>3 DEF x
<1>2. ASSUME NEW a \in Seq(S), NEW b \in Seq(S), NEW c \in Seq(S), NEW d \in Seq(S), NEW e \in Seq(S)
      PROVE  (a \o (b \o (c \o d))) \o e = a \o (b \o (c \o (d \o e)))
  <2> DEFINE x == b \o (c \o d)
  <2>1. x \in Seq(S)
    <3>1. c \o d \in Seq(S)
      OBVIOUS
    <3> QED
      BY <3>1, ConcatProperties
  <2> HIDE DEF x
  <2>2. (a \o x) \o e = a \o (x \o e)
    BY <2>1
  <2>3. (b \o (c \o d)) \o e = b \o (c \o (d \o e))
    <3> DEFINE y == c \o d
    <3>1. y \in Seq(S)
      OBVIOUS
    <3> HIDE DEF y
    <3>2. (b \o y) \o e = b \o (y \o e)
      BY <3>1, Rejoined
    <3>3. (c \o d) \o e = c \o (d \o e)
      BY Rejoined
    <3> QED
      BY <3>2, <3>3 DEF y
  <2> QED
    BY <2>2, <2>3 DEF x
<1>3. \A a, b, c, d \in Seq(S) : (a \o (b \o c)) \o d = a \o (b \o (c \o d))
  BY <1>1
<1>4. \A a, b, c, d, e \in Seq(S) : (a \o (b \o (c \o d))) \o e = a \o (b \o (c \o (d \o e)))
  BY <1>2
<1> QED
  BY <1>3, <1>4 DEF NestsThree, NestsFour

LEMMA Listed ==
  /\ \A a, b : <<a, b>> = <<a>> \o <<b>>
  /\ \A a, b, c : <<a, b, c>> = <<a>> \o (<<b>> \o <<c>>)
  /\ \A a, b, c, d : <<a, b, c, d>> = <<a>> \o (<<b>> \o (<<c>> \o <<d>>))
<1>1. ASSUME NEW a, NEW b PROVE <<a, b>> = <<a>> \o <<b>>
  <2> DEFINE S == {a, b}
  <2>1. a \in S /\ b \in S
    OBVIOUS
  <2> HIDE DEF S
  <2> QED
    BY <2>1, Pairs
<1>2. ASSUME NEW a, NEW b, NEW c PROVE <<a, b, c>> = <<a>> \o (<<b>> \o <<c>>)
  <2> DEFINE S == {a, b, c}
  <2>1. a \in S /\ b \in S /\ c \in S
    OBVIOUS
  <2> HIDE DEF S
  <2>2. <<a, b, c>> = <<a>> \o <<b, c>>
    BY <2>1, Triples
  <2>3. <<b, c>> = <<b>> \o <<c>>
    BY <1>1
  <2> QED
    BY <2>2, <2>3
<1>3. ASSUME NEW a, NEW b, NEW c, NEW d PROVE <<a, b, c, d>> = <<a>> \o (<<b>> \o (<<c>> \o <<d>>))
  <2> DEFINE S == {a, b, c, d}
  <2>1. a \in S /\ b \in S /\ c \in S /\ d \in S
    OBVIOUS
  <2> HIDE DEF S
  <2>2. <<a>> \o <<b, c, d>> = <<a, b, c, d>>
    BY <2>1, Quads
  <2>3. <<b, c, d>> = <<b>> \o (<<c>> \o <<d>>)
    BY <1>2
  <2> QED
    BY <2>2, <2>3
<1> QED
  BY <1>1, <1>2, <1>3

(* The reads of then take the place of the first of td. *)
LEMMA Spliced ==
  ASSUME NEW S, NEW td \in Seq(S), td # <<>>, NEW then \in Seq(S)
  PROVE  LET u == then \o Tail(td) IN
         /\ u \in Seq(S) /\ Len(u) = Len(then) + Len(td) - 1 /\ Len(then) \in Nat /\ Len(td) \in Nat \ {0}
         /\ \A i \in 1..Len(then) : i \in 1..Len(u) /\ u[i] = then[i]
         /\ \A j \in 2..Len(td) : Len(then) + j - 1 \in 1..Len(u) /\ u[Len(then) + j - 1] = td[j]
         /\ \A i \in 1..Len(u) : \/ i \in 1..Len(then)
                                 \/ \E j \in 2..Len(td) : i = Len(then) + j - 1
<1> DEFINE u == then \o Tail(td)
           m == Len(then)
           n == Len(td)
<1>1. Tail(td) \in Seq(S) /\ Len(Tail(td)) = n - 1 /\ \A i \in 1..Len(Tail(td)) : Tail(td)[i] = td[i + 1]
  BY HeadTailProperties
<1>2. m \in Nat /\ n \in Nat \ {0}
  BY EmptySeq
<1>3. /\ u \in Seq(S) /\ Len(u) = m + Len(Tail(td))
      /\ \A i \in 1..(m + Len(Tail(td))) : u[i] = IF i <= m THEN then[i] ELSE Tail(td)[i - m]
  BY <1>1, ConcatProperties
<1> HIDE DEF u, m, n
<1>4. Len(u) = m + n - 1
  BY <1>1, <1>2, <1>3
<1>5. \A i \in 1..m : i \in 1..Len(u) /\ i \in 1..(m + Len(Tail(td))) /\ i <= m
  BY <1>1, <1>2, <1>4
<1>6. \A j \in 2..n : /\ m + j - 1 \in 1..Len(u) /\ m + j - 1 \in 1..(m + Len(Tail(td))) /\ ~(m + j - 1 <= m)
                      /\ (m + j - 1) - m = j - 1 /\ j - 1 \in 1..Len(Tail(td)) /\ (j - 1) + 1 = j
  BY <1>1, <1>2, <1>4
<1>7. \A i \in 1..m : u[i] = then[i]
  BY <1>3, <1>5
<1>8. ASSUME NEW j \in 2..n PROVE u[m + j - 1] = td[j]
  <2> DEFINE i == m + j - 1
  <2>1. i \in 1..(m + Len(Tail(td))) /\ ~(i <= m) /\ i - m = j - 1 /\ j - 1 \in 1..Len(Tail(td)) /\ (j - 1) + 1 = j
    BY <1>6
  <2> HIDE DEF i
  <2>2. u[i] = Tail(td)[j - 1]
    BY <1>3, <2>1
  <2> QED
    BY <1>1, <2>1, <2>2 DEF i
<1>9. ASSUME NEW i \in 1..Len(u), i \notin 1..m PROVE \E j \in 2..n : i = m + j - 1
  <2>1. i - m + 1 \in 2..n /\ i = m + (i - m + 1) - 1
    BY <1>2, <1>4, <1>9
  <2> QED
    BY <2>1
<1> QED
  BY <1>2, <1>3, <1>4, <1>5, <1>6, <1>7, <1>8, <1>9 DEF u, m, n

-----------------------------------------------------------------------------
(***************************************************************************)
(* Flattening.                                                             *)
(***************************************************************************)

(* f[i] is the first i sequences of ss, one after the other. *)
Flattens(f, ss, n) ==
  f = [i \in 1..n |-> IF i = 1 THEN ss[i] ELSE f[i - 1] \o ss[i]]

FlatOf(ss) == CHOOSE f : Flattens(f, ss, Len(ss))

(* FlattenSeq is the last of these. *)
LEMMA FlattenIs == \A ss : FlattenSeq(ss) = IF Len(ss) = 0 THEN ss ELSE FlatOf(ss)[Len(ss)]
  BY DEF FlattenSeq, FlatOf, Flattens

(* There is one for every number of sequences. *)
LEMMA FlatExists ==
  ASSUME NEW ss
  PROVE  \A n \in Nat : \E f : Flattens(f, ss, n)
<1> DEFINE F == {n \in Nat : ~ \E f : Flattens(f, ss, n)}
<1> SUFFICES ASSUME F # {} PROVE FALSE
  OBVIOUS
<1>1. PICK n \in F : \A m \in F : n <= m
  BY SmallestNumber
<1>2. n \in Nat /\ ~ \E f : Flattens(f, ss, n)
  BY <1>1
<1>3. n # 0
  <2> DEFINE e == [i \in 1..0 |-> 0]
  <2>1. Flattens(e, ss, 0)
    BY DEF Flattens
  <2> QED
    BY <1>2, <2>1
<1>4. n - 1 \in Nat /\ ~(n <= n - 1)
  BY <1>2, <1>3
<1>5. PICK h : Flattens(h, ss, n - 1)
  BY <1>1, <1>4
<1> HIDE DEF F
<1> DEFINE g == [i \in 1..n |-> IF i # n THEN h[i] ELSE IF n = 1 THEN ss[1] ELSE h[n - 1] \o ss[n]]
<1>6. ASSUME NEW i \in 1..n
      PROVE  g[i] = IF i = 1 THEN ss[i] ELSE g[i - 1] \o ss[i]
  <2>1. CASE i = n
    <3>1. CASE n = 1
      BY <2>1, <3>1
    <3>2. CASE n # 1
      <4>1. n - 1 \in 1..n /\ n - 1 # n
        BY <1>2, <1>3, <3>2
      <4> QED
        BY <2>1, <3>2, <4>1
    <3> QED
      BY <3>1, <3>2
  <2>2. CASE i # n
    <3>1. i \in 1..(n - 1) /\ g[i] = h[i]
      BY <1>2, <2>2
    <3>2. h[i] = IF i = 1 THEN ss[i] ELSE h[i - 1] \o ss[i]
      BY <1>5, <3>1 DEF Flattens
    <3>3. i # 1 => i - 1 \in 1..n /\ i - 1 # n
      BY <1>2, <2>2
    <3> QED
      BY <3>1, <3>2, <3>3
  <2> QED
    BY <2>1, <2>2
<1>7. Flattens(g, ss, n)
  <2>1. g = [i \in 1..n |-> g[i]]
    OBVIOUS
  <2> HIDE DEF g
  <2> QED
    BY <1>6, <2>1 DEF Flattens
<1> QED
  BY <1>2, <1>7

(* The flattening of the first sequences of ss, one sequence more each time. *)
FlatSteps(f, ss, S) ==
  /\ f \in [0..Len(ss) -> Seq(S)] /\ f[0] = <<>>
  /\ \A i \in 1..Len(ss) : f[i] = f[i - 1] \o ss[i]

LEMMA FlatStepsAre ==
  ASSUME NEW S, NEW ss \in Seq(Seq(S)), NEW f, FlatSteps(f, ss, S)
  PROVE  f[Len(ss)] = FlattenSeq(ss)
<1> DEFINE N == Len(ss)
           g == FlatOf(ss)
<1>1. N \in Nat /\ \A i \in 1..N : ss[i] \in Seq(S)
  OBVIOUS
<1>2. \A i \in 1..N : g[i] = IF i = 1 THEN ss[i] ELSE g[i - 1] \o ss[i]
  <2>1. Flattens(g, ss, N)
    BY <1>1, FlatExists DEF FlatOf
  <2> HIDE DEF g, N
  <2> QED
    BY <2>1 DEF Flattens
<1>3. f[0] = <<>> /\ \A i \in 1..N : f[i] = f[i - 1] \o ss[i]
  BY DEF FlatSteps
<1>4. CASE N = 0
  BY <1>3, <1>4, FlattenIs, EmptySeq
<1>5. CASE N # 0
  <2> DEFINE F == {n \in Nat : n \in 1..N /\ f[n] # g[n]}
  <2> HIDE DEF g, N
  <2>1. F = {}
    <3> SUFFICES ASSUME F # {} PROVE FALSE
      OBVIOUS
    <3>1. PICK n \in F : \A m \in F : n <= m
      BY SmallestNumber
    <3>2. n \in Nat /\ n \in 1..N /\ f[n] # g[n]
      BY <3>1
    <3>3. CASE n = 1
      <4>0. 1 \in 1..N /\ 1 - 1 = 0
        BY <3>2, <3>3
      <4>1. f[1] = <<>> \o ss[1] /\ ss[1] \in Seq(S) /\ g[1] = ss[1]
        BY <1>1, <1>2, <1>3, <4>0
      <4> QED
        BY <3>2, <3>3, <4>1, ConcatEmptySeq
    <3>4. CASE n # 1
      <4>1. n - 1 \in Nat /\ n - 1 \in 1..N /\ ~(n <= n - 1)
        BY <1>1, <3>2, <3>4
      <4>2. f[n - 1] = g[n - 1]
        BY <3>1, <4>1
      <4> QED
        BY <1>2, <1>3, <3>2, <3>4, <4>2
    <3> QED
      BY <3>3, <3>4
  <2>2. N \in Nat /\ N \in 1..N
    BY <1>1, <1>5
  <2>3. f[N] = g[N]
    BY <2>1, <2>2
  <2> QED
    BY <1>5, <2>3, FlattenIs DEF g, N
<1> QED
  BY <1>4, <1>5

LEMMA FlatStepsExist ==
  ASSUME NEW S, NEW ss \in Seq(Seq(S))
  PROVE  \E f : FlatSteps(f, ss, S)
<1> DEFINE N == Len(ss)
           g == FlatOf(ss)
           f == [i \in 0..N |-> IF i = 0 THEN <<>> ELSE g[i]]
<1>1. N \in Nat /\ \A i \in 1..N : ss[i] \in Seq(S)
  OBVIOUS
<1>2. \A i \in 1..N : g[i] = IF i = 1 THEN ss[i] ELSE g[i - 1] \o ss[i]
  <2>1. Flattens(g, ss, N)
    BY <1>1, FlatExists DEF FlatOf
  <2> HIDE DEF g, N
  <2> QED
    BY <2>1 DEF Flattens
<1> HIDE DEF g, N
<1>3. f[0] = <<>> /\ \A i \in 1..N : f[i] = g[i]
  BY <1>1
<1>4. ASSUME NEW i \in 1..N PROVE f[i] = f[i - 1] \o ss[i]
  <2>1. CASE i = 1
    <3>1. f[i - 1] = <<>> /\ f[i] = ss[i] /\ ss[i] \in Seq(S)
      BY <1>1, <1>2, <1>3, <2>1
    <3> HIDE DEF f
    <3> QED
      BY <3>1, ConcatEmptySeq
  <2>2. CASE i # 1
    <3>1. i - 1 \in 1..N
      BY <1>1, <2>2
    <3>2. f[i - 1] = g[i - 1] /\ f[i] = g[i]
      BY <1>3, <3>1
    <3> HIDE DEF f
    <3> QED
      BY <1>2, <2>2, <3>2
  <2> QED
    BY <2>1, <2>2
<1>5. \A i \in 0..N : f[i] \in Seq(S)
  <2> DEFINE F == {n \in Nat : n \in 0..N /\ f[n] \notin Seq(S)}
  <2> HIDE DEF f
  <2> SUFFICES ASSUME F # {} PROVE FALSE
    BY <1>1
  <2>1. PICK n \in F : \A m \in F : n <= m
    BY SmallestNumber
  <2>2. n \in Nat /\ n \in 0..N /\ f[n] \notin Seq(S)
    BY <2>1
  <2>3. n # 0
    BY <1>3, <2>2, EmptySeq
  <2>4. n \in 1..N /\ n - 1 \in Nat /\ n - 1 \in 0..N /\ ~(n <= n - 1)
    BY <1>1, <2>2, <2>3
  <2>5. f[n - 1] \in Seq(S)
    BY <2>1, <2>4
  <2> QED
    BY <1>1, <1>4, <2>2, <2>4, <2>5, ConcatProperties
<1>6. f \in [0..N -> Seq(S)]
  BY <1>5
<1> HIDE DEF f
<1>7. FlatSteps(f, ss, S)
  BY <1>3, <1>4, <1>6 DEF FlatSteps, N
<1> QED
  BY <1>7

(* Sequences of items of S make a sequence of items of S. *)
LEMMA FlattenType ==
  ASSUME NEW S, NEW ss \in Seq(Seq(S))
  PROVE  FlattenSeq(ss) \in Seq(S)
<1>1. PICK f : FlatSteps(f, ss, S)
  BY FlatStepsExist
<1>2. f \in [0..Len(ss) -> Seq(S)] /\ Len(ss) \in 0..Len(ss)
  BY <1>1 DEF FlatSteps
<1>3. f[Len(ss)] \in Seq(S)
  BY <1>2
<1> QED
  BY <1>1, <1>3, FlatStepsAre

(* Nothing, flattened. *)
LEMMA FlattenEmpty == FlattenSeq(<<>>) = <<>>
  BY FlattenIs

Joins(a, b, c) == (a \o b) \o c = a \o (b \o c)

Associates(S) == \A a, b, c \in Seq(S) : Joins(a, b, c)

(* Three sequences, put together in either order. *)
LEMMA ConcatAssociates == \A S : Associates(S)
  BY ConcatAssociative DEF Associates, Joins

(* Flattening takes concatenations to concatenations. *)
LEMMA FlattenConcat ==
  ASSUME NEW S, NEW ss \in Seq(Seq(S)), NEW tt \in Seq(Seq(S))
  PROVE  FlattenSeq(ss \o tt) = FlattenSeq(ss) \o FlattenSeq(tt)
<1>1. PICK f : FlatSteps(f, ss, S)
  BY FlatStepsExist
<1>2. PICK g : FlatSteps(g, tt, S)
  BY FlatStepsExist
<1>3. f[Len(ss)] = FlattenSeq(ss) /\ g[Len(tt)] = FlattenSeq(tt)
  BY <1>1, <1>2, FlatStepsAre
<1> DEFINE M == Len(ss)
           N == Len(tt)
           u == ss \o tt
           h == [i \in 0..(M + N) |-> IF i <= M THEN f[i] ELSE f[M] \o g[i - M]]
<1>4. /\ M \in Nat /\ N \in Nat /\ u \in Seq(Seq(S)) /\ Len(u) = M + N
      /\ \A i \in 1..(M + N) : u[i] = IF i <= M THEN ss[i] ELSE tt[i - M]
  BY ConcatProperties
<1>5. /\ \A i \in 0..M : f[i] \in Seq(S)
      /\ \A i \in 0..N : g[i] \in Seq(S)
      /\ \A i \in 1..M : f[i] = f[i - 1] \o ss[i]
      /\ \A i \in 1..N : g[i] = g[i - 1] \o tt[i]
      /\ f[0] = <<>> /\ g[0] = <<>>
  BY <1>1, <1>2 DEF FlatSteps
<1>t. \A i \in 1..N : tt[i] \in Seq(S)
  BY <1>4
<1>a. Associates(S)
  BY ConcatAssociates
<1> HIDE DEF M, N, u
<1>6. ASSUME NEW i \in 0..(M + N) PROVE h[i] \in Seq(S)
  <2>1. CASE i <= M
    <3>1. i \in 0..M /\ h[i] = f[i]
      BY <1>4, <2>1
    <3> HIDE DEF h
    <3> QED
      BY <1>5, <3>1
  <2>2. CASE ~(i <= M)
    <3>1. h[i] = f[M] \o g[i - M]
      BY <2>2
    <3> HIDE DEF h
    <3>3. i - M \in 0..N /\ M \in 0..M
      BY <1>4, <2>2
    <3>2. f[M] \in Seq(S) /\ g[i - M] \in Seq(S)
      BY <1>5, <3>3
    <3> QED
      BY <3>1, <3>2, ConcatProperties
  <2> QED
    BY <2>1, <2>2
<1>7. ASSUME NEW i \in 1..(M + N) PROVE h[i] = h[i - 1] \o u[i]
  <2>1. CASE i <= M
    <3>1. i \in 1..M /\ h[i] = f[i] /\ h[i - 1] = f[i - 1] /\ u[i] = ss[i]
      BY <1>4, <2>1
    <3> HIDE DEF h
    <3> QED
      BY <1>5, <3>1
  <2>2. CASE i = M + 1
    <3>1. /\ ~(i <= M) /\ i - M = 1 /\ i - 1 = M /\ 1 \in 1..N /\ M \in 0..M /\ 0 \in 0..N
          /\ i - 1 <= M /\ i \in 0..(M + N) /\ i - 1 \in 0..(M + N)
      BY <1>4, <2>2
    <3>2. h[i] = f[M] \o g[1] /\ h[i - 1] = f[M]
      BY <3>1
    <3>3. u[i] = tt[1]
      BY <1>4, <3>1
    <3>4. g[1] = <<>> \o tt[1] /\ tt[1] \in Seq(S)
      <4>1. \A k \in 1..N : g[k] = g[k - 1] \o tt[k]
        BY <1>5
      <4>2. \A k \in 1..N : k = 1 => k - 1 = 0
        OBVIOUS
      <4>3. \A k \in 1..N : k = 1 => g[k] = g[0] \o tt[k]
        BY <4>1, <4>2
      <4> QED
        BY <1>5, <1>t, <3>1, <4>3
    <3>5. g[1] = tt[1]
      BY <3>4, ConcatEmptySeq
    <3> HIDE DEF h
    <3> QED
      BY <3>2, <3>3, <3>5
  <2>3. CASE i > M + 1
    <3>1. /\ ~(i <= M) /\ ~(i - 1 <= M) /\ (i - 1) - M = (i - M) - 1 /\ i - M \in 1..N
          /\ (i - M) - 1 \in 0..N /\ M \in 0..M
          /\ i \in 0..(M + N) /\ i - 1 \in 0..(M + N)
      BY <1>4, <2>3
    <3>2. h[i] = f[M] \o g[i - M] /\ h[i - 1] = f[M] \o g[(i - M) - 1] /\ u[i] = tt[i - M]
      BY <1>4, <3>1
    <3> DEFINE j == i - M
    <3>3. /\ g[j] = g[j - 1] \o tt[j] /\ g[j - 1] \in Seq(S) /\ tt[j] \in Seq(S) /\ f[M] \in Seq(S)
      BY <1>5, <1>t, <3>1
    <3> HIDE DEF h, j
    <3>4. f[M] \o (g[j - 1] \o tt[j]) = (f[M] \o g[j - 1]) \o tt[j]
      <4> DEFINE a == f[M]  b == g[j - 1]  c == tt[j]
      <4>1. a \in Seq(S) /\ b \in Seq(S) /\ c \in Seq(S)
        BY <3>3
      <4> HIDE DEF a, b, c
      <4>2. (a \o b) \o c = a \o (b \o c)
        BY <4>1, <1>a DEF Associates, Joins
      <4> QED
        BY <4>2 DEF a, b, c
    <3>5. h[i] = f[M] \o g[j] /\ h[i - 1] = f[M] \o g[j - 1] /\ u[i] = tt[j]
      BY <3>2 DEF j
    <3> QED
      BY <3>3, <3>4, <3>5
  <2> HIDE DEF h
  <2>4. i <= M \/ i = M + 1 \/ i > M + 1
    BY <1>4
  <2> QED
    BY <2>1, <2>2, <2>3, <2>4
<1>8. FlatSteps(h, u, S)
  <2>1. h \in [0..(M + N) -> Seq(S)]
    BY <1>6
  <2>2. h[0] = <<>>
    BY <1>4, <1>5
  <2> HIDE DEF h
  <2> QED
    BY <1>4, <1>7, <2>1, <2>2 DEF FlatSteps
<1>9. h[M + N] = f[M] \o g[N]
  <2>1. CASE N = 0
    <3>1. M + N <= M /\ M + N \in 0..(M + N) /\ M + N = M
      BY <1>4, <2>1
    <3>2. h[M + N] = f[M] /\ g[N] = <<>> /\ f[M] \in Seq(S)
      BY <1>4, <1>5, <2>1, <3>1
    <3> HIDE DEF h
    <3> QED
      BY <3>2, ConcatEmptySeq
  <2>2. CASE N # 0
    <3>1. ~(M + N <= M) /\ M + N \in 0..(M + N) /\ (M + N) - M = N
      BY <1>4, <2>2
    <3> QED
      BY <3>1
  <2> QED
    BY <2>1, <2>2
<1>10. h[M + N] = FlattenSeq(u)
  <2> HIDE DEF h
  <2> QED
    BY <1>4, <1>8, FlatStepsAre
<1> QED
  BY <1>3, <1>9, <1>10 DEF M, N, u

(* One sequence is itself. *)
LEMMA FlattenOne ==
  ASSUME NEW S, NEW s \in Seq(S)
  PROVE  FlattenSeq(<<s>>) = s
<1> DEFINE f == [i \in 0..1 |-> IF i = 0 THEN <<>> ELSE s]
<1>1. <<s>> \in Seq(Seq(S)) /\ Len(<<s>>) = 1
  OBVIOUS
<1>2. f[0] = <<>> /\ f[1] = s /\ f \in [0..1 -> Seq(S)]
  OBVIOUS
<1>3. <<s>>[1] = s /\ <<>> \o s = s
  BY ConcatEmptySeq
<1> HIDE DEF f
<1>4. \A i \in 1..1 : f[i] = f[i - 1] \o <<s>>[i]
  BY <1>2, <1>3
<1>5. FlatSteps(f, <<s>>, S)
  BY <1>1, <1>2, <1>4 DEF FlatSteps
<1> QED
  BY <1>1, <1>2, <1>5, FlatStepsAre

(* The first sequence, and then the others flattened. *)
LEMMA FlattenCons ==
  ASSUME NEW S, NEW s \in Seq(S), NEW ss \in Seq(Seq(S))
  PROVE  FlattenSeq(<<s>> \o ss) = s \o FlattenSeq(ss)
<1>1. <<s>> \in Seq(Seq(S))
  OBVIOUS
<1>2. FlattenSeq(<<s>>) = s
  BY FlattenOne
<1>3. FlattenSeq(<<s>> \o ss) = FlattenSeq(<<s>>) \o FlattenSeq(ss)
  BY <1>1, FlattenConcat
<1> QED
  BY <1>2, <1>3

-----------------------------------------------------------------------------
(***************************************************************************)
(* The values that are read one after the other by a reader of their own.  *)
(***************************************************************************)
(* The first sequences are at the start of all of them. *)
LEMMA FlatStarts ==
  ASSUME NEW S, NEW ss \in Seq(Seq(S)), NEW f, FlatSteps(f, ss, S)
  PROVE  \A k \in 0..Len(ss) :
           /\ Len(f[k]) <= Len(f[Len(ss)])
           /\ \A j \in 1..Len(f[k]) : f[Len(ss)][j] = f[k][j]
<1> DEFINE N == Len(ss)
           Good(k) == Len(f[k]) <= Len(f[N]) /\ \A j \in 1..Len(f[k]) : f[N][j] = f[k][j]
           F == {m \in Nat : m <= N /\ ~Good(N - m)}
<1>1. N \in Nat /\ \A i \in 1..N : ss[i] \in Seq(S)
  OBVIOUS
<1>2. (\A k \in 0..N : f[k] \in Seq(S)) /\ \A i \in 1..N : f[i] = f[i - 1] \o ss[i]
  BY DEF FlatSteps
<1> HIDE DEF N
<1>3. F = {}
  <2> SUFFICES ASSUME F # {} PROVE FALSE
    OBVIOUS
  <2>1. PICK m \in F : \A i \in F : m <= i
    BY SmallestNumber
  <2>2. m \in Nat /\ m <= N /\ ~Good(N - m)
    BY <2>1
  <2>3. m # 0
    <3>1. N - 0 = N /\ N \in 0..N
      BY <1>1
    <3>2. Len(f[N]) \in Nat
      BY <1>2, <3>1
    <3>3. Good(N)
      BY <3>2
    <3> QED
      BY <2>2, <3>1, <3>3
  <2> DEFINE k == N - m
  <2>4. m - 1 \in Nat /\ m - 1 <= N /\ ~(m <= m - 1) /\ N - (m - 1) = k + 1
    BY <1>1, <2>2, <2>3
  <2>5. Good(k + 1)
    <3> HIDE DEF Good
    <3> QED
      BY <2>1, <2>4
  <2>6. k + 1 \in 1..N /\ k \in 0..N /\ (k + 1) - 1 = k /\ k + 1 \in 0..N
    BY <1>1, <2>2, <2>3
  <2> HIDE DEF k
  <2>7. f[k + 1] = f[k] \o ss[k + 1] /\ f[k] \in Seq(S) /\ ss[k + 1] \in Seq(S) /\ f[N] \in Seq(S)
    <3>1. N \in 0..N
      BY <1>1
    <3> QED
      BY <1>1, <1>2, <2>6, <3>1
  <2>8. /\ Len(f[k + 1]) = Len(f[k]) + Len(ss[k + 1]) /\ Len(f[k]) \in Nat /\ Len(ss[k + 1]) \in Nat /\ Len(f[N]) \in Nat
        /\ \A j \in 1..(Len(f[k]) + Len(ss[k + 1])) :
             f[k + 1][j] = IF j <= Len(f[k]) THEN f[k][j] ELSE ss[k + 1][j - Len(f[k])]
    <3>1. /\ Len(f[k] \o ss[k + 1]) = Len(f[k]) + Len(ss[k + 1])
          /\ \A j \in 1..(Len(f[k]) + Len(ss[k + 1])) :
             (f[k] \o ss[k + 1])[j] = IF j <= Len(f[k]) THEN f[k][j] ELSE ss[k + 1][j - Len(f[k])]
      BY <2>7, ConcatProperties
    <3>2. Len(f[k]) \in Nat /\ Len(ss[k + 1]) \in Nat /\ Len(f[N]) \in Nat
      BY <2>7
    <3> QED
      BY <2>7, <3>1, <3>2
  <2>s. /\ Len(f[k + 1]) = Len(f[k]) + Len(ss[k + 1]) /\ Len(f[k]) \in Nat /\ Len(ss[k + 1]) \in Nat
        /\ Len(f[N]) \in Nat
    BY <2>8
  <2>t. \A x, y, z \in Nat : x = y + z => y <= x /\ \A j \in 1..y : j \in 1..(y + z) /\ j <= y /\ j \in 1..x
    OBVIOUS
  <2>u. Len(f[k + 1]) \in Nat
    <3>1. f[k + 1] \in Seq(S)
      BY <1>2, <2>6
    <3> QED
      BY <3>1
  <2>9. /\ Len(f[k]) <= Len(f[k + 1])
        /\ \A j \in 1..Len(f[k]) : j \in 1..(Len(f[k]) + Len(ss[k + 1])) /\ j <= Len(f[k]) /\ j \in 1..Len(f[k + 1])
    BY <2>s, <2>t, <2>u
  <2>10. \A j \in 1..Len(f[k]) : f[N][j] = f[k][j]
    <3>1. \A j \in 1..Len(f[k]) : f[k + 1][j] = f[k][j]
      BY <2>8, <2>9
    <3>2. \A j \in 1..Len(f[k + 1]) : f[N][j] = f[k + 1][j]
      BY <2>5
    <3> HIDE DEF Good
    <3> QED
      BY <2>9, <3>1, <3>2
  <2>11. Good(k)
    <3>1. Len(f[k + 1]) <= Len(f[N])
      BY <2>5
    <3>2. Len(f[k]) <= Len(f[N])
      <4>1. \A x, y, z \in Nat : x <= y /\ y <= z => x <= z
        OBVIOUS
      <4> QED
        BY <2>s, <2>u, <2>9, <3>1, <4>1
    <3> QED
      BY <2>10, <3>2
  <2> QED
    BY <2>2, <2>11 DEF k
<1>4. ASSUME NEW k \in 0..N PROVE Good(k)
  <2> DEFINE m == N - k
  <2>1. m \in Nat /\ m <= N /\ N - m = k
    BY <1>1
  <2> HIDE DEF Good, m
  <2>2. m \notin F
    BY <1>3
  <2>3. Good(N - m)
    BY <2>1, <2>2
  <2> QED
    BY <2>1, <2>3
<1> QED
  BY <1>4 DEF N

(* Each sequence has its place. *)
PlaceOf(f, ss, S, cells, k) ==
  /\ Len(f[k]) = Len(f[k - 1]) + Len(ss[k]) /\ Len(f[k - 1]) \in Nat /\ Len(ss[k]) \in Nat
  /\ cells \in Seq(S) /\ Len(f[k]) <= Len(cells) /\ Len(cells) \in Nat
  /\ \A j \in 1..Len(ss[k]) : cells[Len(f[k - 1]) + j] = ss[k][j]

(* Where each sequence begins in what is made of all. *)
LEMMA FlatPlaces ==
  ASSUME NEW S, NEW ss \in Seq(Seq(S)), NEW f, FlatSteps(f, ss, S), NEW rest \in Seq(S), NEW k \in 1..Len(ss)
  PROVE  PlaceOf(f, ss, S, f[Len(ss)] \o rest, k)
<1> DEFINE N == Len(ss)
           cells == f[N] \o rest
           a == f[k - 1]
           b == ss[k]
<1>1. N \in Nat /\ k \in 0..N /\ k - 1 \in 0..N /\ N \in 0..N /\ k \in 1..N
  OBVIOUS
<1>2. b \in Seq(S)
  OBVIOUS
<1>3. (\A i \in 0..N : f[i] \in Seq(S)) /\ f[k] = a \o b
  BY <1>1 DEF FlatSteps
<1>4. Len(f[k]) <= Len(f[N]) /\ \A j \in 1..Len(f[k]) : f[N][j] = f[k][j]
  BY <1>1, FlatStarts
<1> HIDE DEF N
<1>5. a \in Seq(S) /\ f[N] \in Seq(S)
  BY <1>1, <1>3
<1> HIDE DEF a, b
<1>6. /\ Len(f[k]) = Len(a) + Len(b)
      /\ \A j \in 1..(Len(a) + Len(b)) : f[k][j] = IF j <= Len(a) THEN a[j] ELSE b[j - Len(a)]
  BY <1>2, <1>3, <1>5, ConcatProperties
<1>7. Len(a) \in Nat /\ Len(b) \in Nat /\ Len(f[N]) \in Nat /\ Len(rest) \in Nat
  BY <1>2, <1>5
<1>8. /\ cells \in Seq(S) /\ Len(cells) = Len(f[N]) + Len(rest)
      /\ \A j \in 1..(Len(f[N]) + Len(rest)) : cells[j] = IF j <= Len(f[N]) THEN f[N][j] ELSE rest[j - Len(f[N])]
  BY <1>5, ConcatProperties
<1> HIDE DEF cells
<1>9. \A j \in 1..Len(b) : /\ Len(a) + j \in 1..(Len(a) + Len(b)) /\ ~(Len(a) + j <= Len(a)) /\ (Len(a) + j) - Len(a) = j
                           /\ Len(a) + j \in 1..Len(f[k]) /\ Len(a) + j <= Len(f[N])
                           /\ Len(a) + j \in 1..(Len(f[N]) + Len(rest))
  <2>1. Len(f[k]) <= Len(f[N]) /\ Len(f[k]) = Len(a) + Len(b)
    BY <1>4, <1>6
  <2> QED
    BY <1>7, <2>1
<1>10. ASSUME NEW j \in 1..Len(b) PROVE cells[Len(a) + j] = b[j]
  <2>1. f[k][Len(a) + j] = b[j]
    BY <1>6, <1>9
  <2> DEFINE i == Len(a) + j
  <2>2. i \in 1..Len(f[k]) /\ i \in 1..(Len(f[N]) + Len(rest)) /\ i <= Len(f[N])
    BY <1>9
  <2> HIDE DEF i
  <2>3. f[N][i] = f[k][i]
    BY <1>4, <2>2
  <2>4. cells[i] = f[N][i]
    BY <1>8, <2>2
  <2> QED
    BY <2>1, <2>3, <2>4 DEF i
<1>11. Len(f[k]) <= Len(cells) /\ Len(cells) \in Nat
  BY <1>4, <1>6, <1>7, <1>8
<1> QED
  BY <1>6, <1>7, <1>8, <1>10, <1>11 DEF PlaceOf, a, b, cells, N

=============================================================================
