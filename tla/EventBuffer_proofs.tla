------------------------- MODULE EventBuffer_proofs -------------------------
(***************************************************************************)
(* What paging through an event buffer gives, for any buffer, filter,      *)
(* cursor and limit, and what eviction leaves, for any buffer and sizes.   *)
(***************************************************************************)
EXTENDS EventBuffer, FiniteSetTheorems, WellFoundedInduction, TLAPS

LEMMA StrictSubset ==
  ASSUME NEW S, NEW A \in SUBSET S, NEW B \in SUBSET S, A # B, A \subseteq B
  PROVE  <<A, B>> \in StrictSubsetOrdering(S)
  BY DEF StrictSubsetOrdering

(* A finite non-empty set of naturals has a least and a greatest element:   *)
(* the sets of smaller (of greater) elements cannot shrink for ever.        *)
LEMMA HasLeast ==
  ASSUME NEW S \in SUBSET Nat, IsFiniteSet(S), S # {}
  PROVE  \E m \in S : \A n \in S : m <= n
  <1> DEFINE Below(x) == {y \in S : y < x}
             T == {Below(x) : x \in S}
  <1>1. T \subseteq FiniteSubsetsOf(S) /\ T # {}
    <2>1. T \subseteq SUBSET S /\ T # {}
      OBVIOUS
    <2> QED
      BY <2>1, FS_FiniteSubsetsOfFinite
  <1>2. PICK t \in T : \A u \in T : ~ (<<u, t>> \in StrictSubsetOrdering(S))
    BY <1>1, FS_StrictSubsetOrderingWellFounded, WFMin
  <1>3. PICK m \in S : t = Below(m)
    OBVIOUS
  <1>4. ASSUME NEW n \in S, n < m PROVE FALSE
    <2>1. Below(n) \subseteq Below(m) /\ n \in Below(m) /\ n \notin Below(n)
      <3>1. \A y \in S : y \in Nat
        OBVIOUS
      <3>2. n \in Below(m) /\ n \notin Below(n)
        BY <1>4, <3>1
      <3>3. ASSUME NEW y \in Below(n) PROVE y \in Below(m)
        BY <1>4, <3>1
      <3> HIDE DEF Below
      <3> QED
        BY <3>2, <3>3
    <2>2. Below(n) \in SUBSET S /\ Below(m) \in SUBSET S
      OBVIOUS
    <2> HIDE DEF Below
    <2>3. <<Below(n), Below(m)>> \in StrictSubsetOrdering(S)
      BY <2>1, <2>2, StrictSubset
    <2> QED
      BY <1>2, <1>3, <2>3
  <1> QED
    BY <1>4

LEMMA HasGreatest ==
  ASSUME NEW S \in SUBSET Nat, IsFiniteSet(S), S # {}
  PROVE  Max(S) \in S /\ \A n \in S : n <= Max(S)
  <1> DEFINE Above(x) == {y \in S : y > x}
             T == {Above(x) : x \in S}
  <1>1. T \subseteq FiniteSubsetsOf(S) /\ T # {}
    <2>1. T \subseteq SUBSET S /\ T # {}
      OBVIOUS
    <2> QED
      BY <2>1, FS_FiniteSubsetsOfFinite
  <1>2. PICK t \in T : \A u \in T : ~ (<<u, t>> \in StrictSubsetOrdering(S))
    BY <1>1, FS_StrictSubsetOrderingWellFounded, WFMin
  <1>3. PICK m \in S : t = Above(m)
    OBVIOUS
  <1>4. ASSUME NEW n \in S, n > m PROVE FALSE
    <2>1. Above(n) \subseteq Above(m) /\ n \in Above(m) /\ n \notin Above(n)
      <3>1. \A y \in S : y \in Nat
        OBVIOUS
      <3>2. n \in Above(m) /\ n \notin Above(n)
        BY <1>4, <3>1
      <3>3. ASSUME NEW y \in Above(n) PROVE y \in Above(m)
        BY <1>4, <3>1
      <3> HIDE DEF Above
      <3> QED
        BY <3>2, <3>3
    <2>2. Above(n) \in SUBSET S /\ Above(m) \in SUBSET S
      OBVIOUS
    <2> HIDE DEF Above
    <2>3. <<Above(n), Above(m)>> \in StrictSubsetOrdering(S)
      BY <2>1, <2>2, StrictSubset
    <2> QED
      BY <1>2, <1>3, <2>3
  <1>5. \A n \in S : m >= n
    BY <1>4
  <1> QED
    BY <1>5 DEF Max

-----------------------------------------------------------------------------
LEMMA SeqsFinite ==
  ASSUME NEW E, IsFiniteSet(E)
  PROVE  IsFiniteSet({e.seq : e \in E})
  <1> DEFINE T == {e.seq : e \in E}
             g == [e \in E |-> e.seq]
  <1>1. g \in Surjection(E, T)
    BY DEF Surjection
  <1> HIDE DEF T, g
  <1>2. IsFiniteSet(T)
    BY <1>1, FS_Surjection
  <1> QED
    BY <1>2 DEF T

(* A page is what is pending up to the cursor the reader is told to         *)
(* continue from: nothing is left out and nothing is given beyond it.       *)
LEMMA PageIsPrefix ==
  ASSUME NEW E, IsFiniteSet(E), NEW last \in Nat, \A e \in E : e.seq \in Nat /\ e.seq <= last,
         NEW f, NEW after \in Nat, after <= last, NEW limit \in Nat \ {0}
  PROVE  /\ NextCursor(E, last, f, after, limit) \in after..last
         /\ Page(E, f, after, limit) \subseteq Pending(E, f, after)
         /\ \A e \in Pending(E, f, after) :
              e \in Page(E, f, after, limit) <=> e.seq <= NextCursor(E, last, f, after, limit)
  <1> DEFINE P == Pending(E, f, after)
             Before(e) == {g \in P : g.seq < e.seq}
             G == Page(E, f, after, limit)
             c == NextCursor(E, last, f, after, limit)
  <1>1. IsFiniteSet(P) /\ \A e \in P : e.seq \in Nat /\ e.seq > after /\ e.seq <= last
    <2>1. P \subseteq E
      BY DEF Pending
    <2> QED
      BY <2>1, FS_Subset DEF Pending
  <1>2. \A e \in P : IsFiniteSet(Before(e)) /\ Cardinality(Before(e)) \in Nat
    BY <1>1, FS_Subset, FS_CardinalityType
  <1>3. G = {e \in P : Cardinality(Before(e)) < limit}
    BY DEF Page
  <1>4. limit \in Nat /\ limit > 0 /\ last \in Nat /\ Cardinality(P) \in Nat
    BY <1>1, FS_CardinalityType
  <1>5. CASE Cardinality(P) <= limit
    <2>1. c = last
      BY <1>4, <1>5 DEF NextCursor
    <2>2. ASSUME NEW e \in P PROVE e \in G
      <3>1. Before(e) \subseteq P /\ Before(e) # P
        <4>1. e \notin Before(e)
          BY <1>1
        <4> QED
          BY <4>1
      <3> HIDE DEF P, Before
      <3>2. Cardinality(Before(e)) < Cardinality(P)
        <4>1. Cardinality(Before(e)) <= Cardinality(P) /\ Cardinality(Before(e)) # Cardinality(P)
          BY <1>1, <3>1, FS_Subset
        <4> QED
          BY <1>2, <1>4, <4>1
      <3> HIDE DEF G
      <3> QED
        BY <1>2, <1>3, <1>4, <1>5, <2>2, <3>2
    <2>3. G = P
      BY <1>3, <2>2
    <2> HIDE DEF P, G, c
    <2> QED
      BY <1>1, <1>4, <2>1, <2>3 DEF P, G, c
  <1>6. CASE Cardinality(P) > limit
    <2> DEFINE S == {e.seq : e \in G}
    <2>1. c = Max(S)
      BY <1>6 DEF NextCursor
    <2>2. S \subseteq Nat /\ IsFiniteSet(S)
      <3>1. IsFiniteSet(G)
        BY <1>1, <1>3, FS_Subset
      <3>2. S \subseteq Nat
        BY <1>1, <1>3
      <3>3. IsFiniteSet(S)
        BY <3>1, SeqsFinite
      <3> QED
        BY <3>2, <3>3
    <2>3. S # {}
      <3>1. P # {}
        BY <1>4, <1>6, FS_EmptySet
      <3> DEFINE Q == {e.seq : e \in P}
      <3>2. Q \subseteq Nat /\ Q # {}
        BY <1>1, <3>1
      <3>3. IsFiniteSet(Q)
        <4> HIDE DEF P
        <4> QED
          BY <1>1, SeqsFinite DEF Q
      <3>4. PICK m \in Q : \A n \in Q : m <= n
        <4> HIDE DEF Q
        <4> QED
          BY <3>2, <3>3, HasLeast
      <3>5. PICK e \in P : m = e.seq
        OBVIOUS
      <3>6. \A g \in P : g.seq \in Nat /\ m <= g.seq
        BY <1>1, <3>4
      <3>7. Before(e) = {}
        BY <1>1, <3>5, <3>6
      <3>8. Cardinality(Before(e)) = 0
        BY <3>7, FS_EmptySet
      <3>9. e \in G
        BY <1>3, <1>4, <3>8
      <3> QED
        BY <3>9
    <2>4. c \in S /\ \A n \in S : n <= c
      <3> HIDE DEF S, c
      <3> QED
        BY <2>1, <2>2, <2>3, HasGreatest
    <2>5. PICK m \in G : c = m.seq
      BY <2>4
    <2>6. m \in P
      BY <1>3, <2>5
    <2>7. c \in after..last
      BY <1>1, <1>4, <2>5, <2>6
    <2>8. ASSUME NEW e \in P, e.seq <= c PROVE e \in G
      <3>1. Before(e) \subseteq Before(m)
        <4> SUFFICES ASSUME NEW g \in P, g.seq < e.seq PROVE g.seq < m.seq
          OBVIOUS
        <4>1. g.seq \in Nat /\ e.seq \in Nat /\ m.seq \in Nat
          BY <1>1, <2>6
        <4> QED
          BY <2>5, <2>8, <4>1
      <3>2. Cardinality(Before(m)) < limit
        BY <1>3, <2>5
      <3>3. Cardinality(Before(e)) <= Cardinality(Before(m))
        <4> HIDE DEF Before
        <4> QED
          BY <1>2, <2>6, <3>1, FS_Subset
      <3> HIDE DEF G, Before
      <3> QED
        BY <1>2, <1>3, <1>4, <2>6, <2>8, <3>2, <3>3
    <2>9. \A e \in G : e \in P /\ e.seq <= c
      BY <1>3, <2>4
    <2> HIDE DEF P, G, c
    <2>10. G = {e \in P : e.seq <= c}
      BY <2>8, <2>9
    <2> QED
      BY <2>7, <2>10 DEF P, G, c
  <1> QED
    BY <1>4, <1>5, <1>6

-----------------------------------------------------------------------------
(* The bytes of a set of events.  Bytes folds over the set in an order that *)
(* CHOOSE picks; the sum does not depend on it.                             *)

\* A set of subsets of a finite set has a minimal one.
LEMMA MinimalSet ==
  ASSUME NEW S, IsFiniteSet(S), NEW B \in SUBSET (SUBSET S), B # {}
  PROVE  \E T \in B : \A U \in B : U \subseteq T => U = T
  <1>1. PICK T \in B : \A U \in B : ~ (<<U, T>> \in StrictSubsetOrdering(S))
    BY FS_FiniteSubsetsOfFinite, FS_StrictSubsetOrderingWellFounded, WFMin
  <1>2. ASSUME NEW U \in B, U \subseteq T, U # T PROVE FALSE
    BY <1>1, <1>2, StrictSubset
  <1> QED
    BY <1>2

\* What the fold of Bytes over S is defined by.
Sums(f, S) ==
  f = [T \in SUBSET S |->
         IF T = {} THEN 0 ELSE LET e == CHOOSE x \in T : TRUE IN e.size + f[T \ {e}]]

LEMMA BytesIsChosen ==
  ASSUME NEW E
  PROVE  Bytes(E) = (CHOOSE f : Sums(f, E))[E]
  BY DEF Bytes, MapThenSumSet, MapThenFoldSet, Sums

LEMMA SumsAt ==
  ASSUME NEW S, NEW f, Sums(f, S), NEW T \in SUBSET S
  PROVE  /\ T = {} => f[T] = 0
         /\ T # {} => LET e == CHOOSE x \in T : TRUE
                      IN  e \in T /\ f[T] = e.size + f[T \ {e}]
  BY DEF Sums

LEMMA SumsAgree ==
  ASSUME NEW S, IsFiniteSet(S), NEW R \in SUBSET S, NEW f, NEW g, Sums(f, S), Sums(g, R)
  PROVE  \A T \in SUBSET R : f[T] = g[T]
  <1> DEFINE Bad == {T \in SUBSET R : f[T] # g[T]}
  <1> SUFFICES ASSUME Bad # {} PROVE FALSE
    OBVIOUS
  <1>1. IsFiniteSet(R) /\ Bad \in SUBSET (SUBSET R)
    BY FS_Subset
  <1>2. PICK T \in Bad : \A U \in Bad : U \subseteq T => U = T
    <2> HIDE DEF Bad
    <2> QED
      BY <1>1, MinimalSet
  <1>3. T \in SUBSET R /\ T \in SUBSET S /\ f[T] # g[T]
    OBVIOUS
  <1> DEFINE e == CHOOSE x \in T : TRUE
  <1>4. T # {}
    BY <1>3, SumsAt
  <1>5. e \in T /\ f[T] = e.size + f[T \ {e}] /\ g[T] = e.size + g[T \ {e}]
    BY <1>3, <1>4, SumsAt
  <1>6. T \ {e} \in SUBSET R /\ T \ {e} \notin Bad
    BY <1>2, <1>3, <1>5
  <1> QED
    BY <1>3, <1>5, <1>6

LEMMA Summable ==
  ASSUME NEW S, IsFiniteSet(S)
  PROVE  \E f : Sums(f, S)
  <1> DEFINE Bad == {T \in SUBSET S : ~ \E f : Sums(f, T)}
  <1> SUFFICES ASSUME Bad # {} PROVE FALSE
    OBVIOUS
  <1>1. Bad \in SUBSET (SUBSET S)
    OBVIOUS
  <1>2. PICK T \in Bad : \A U \in Bad : U \subseteq T => U = T
    <2> HIDE DEF Bad
    <2> QED
      BY <1>1, MinimalSet
  <1>3. T \in SUBSET S /\ ~ \E f : Sums(f, T)
    OBVIOUS
  <1> DEFINE first(X) == CHOOSE x \in X : TRUE
             f == [X \in SUBSET T |-> IF X = {} THEN 0 ELSE first(X).size + Bytes(X \ {first(X)})]
  <1>4. ASSUME NEW X \in SUBSET T, X # T
        PROVE  Sums(CHOOSE g : Sums(g, X), X) /\ Bytes(X) = (CHOOSE g : Sums(g, X))[X]
    <2>1. X \notin Bad
      BY <1>2, <1>4
    <2>2. \E g : Sums(g, X)
      BY <1>3, <2>1
    <2> QED
      BY <2>2, BytesIsChosen
  <1>5. ASSUME NEW Y \in SUBSET T, Y # T PROVE f[Y] = Bytes(Y)
    <2> DEFINE g == CHOOSE h : Sums(h, Y)
    <2>1. Sums(g, Y) /\ Bytes(Y) = g[Y]
      BY <1>4, <1>5
    <2> HIDE DEF g
    <2>2. CASE Y = {}
      BY <2>1, <2>2, SumsAt
    <2>3. CASE Y # {}
      <3> DEFINE e == first(Y)
                 R == Y \ {e}
                 h == CHOOSE k : Sums(k, R)
      <3>1. e \in Y /\ g[Y] = e.size + g[R]
        BY <2>1, <2>3, SumsAt
      <3>2. R \in SUBSET T /\ R \in SUBSET Y /\ R # T
        BY <3>1
      <3>3. Sums(h, R) /\ Bytes(R) = h[R]
        BY <1>4, <3>2
      <3>4. IsFiniteSet(Y)
        BY <1>3, FS_Subset
      <3>5. f[Y] = e.size + Bytes(R)
        BY <2>3
      <3> HIDE DEF h, R, e
      <3>6. g[R] = h[R]
        BY <2>1, <3>2, <3>3, <3>4, SumsAgree
      <3> QED
        BY <2>1, <3>1, <3>3, <3>5, <3>6
    <2> QED
      BY <2>2, <2>3
  <1>6. ASSUME NEW X \in SUBSET T, X # {}
        PROVE  f[X] = first(X).size + f[X \ {first(X)}]
    <2>1. first(X) \in X
      BY <1>6
    <2>2. X \ {first(X)} \in SUBSET T /\ X \ {first(X)} # T
      BY <2>1
    <2>3. f[X \ {first(X)}] = Bytes(X \ {first(X)})
      BY <1>5, <2>2
    <2> QED
      BY <1>6, <2>3
  <1>7. f = [X \in SUBSET T |-> IF X = {} THEN 0 ELSE first(X).size + f[X \ {first(X)}]]
    <2>1. \A X \in SUBSET T : f[X] = IF X = {} THEN 0 ELSE first(X).size + f[X \ {first(X)}]
      BY <1>6
    <2>2. f = [X \in SUBSET T |-> f[X]]
      OBVIOUS
    <2> HIDE DEF f
    <2> QED
      BY <2>1, <2>2
  <1>8. Sums(f, T)
    <2> HIDE DEF f
    <2> QED
      BY <1>7 DEF Sums
  <1> QED
    BY <1>3, <1>8

\* Nothing has no bytes; of other sets, some event can be counted first.
LEMMA BytesUnfold ==
  ASSUME NEW E, IsFiniteSet(E)
  PROVE  /\ Bytes({}) = 0
         /\ E # {} => \E e \in E : Bytes(E) = e.size + Bytes(E \ {e})
  <1>1. ASSUME NEW S, IsFiniteSet(S) PROVE Sums(CHOOSE f : Sums(f, S), S)
    BY <1>1, Summable
  <1>2. Bytes({}) = 0
    BY <1>1, FS_EmptySet, BytesIsChosen, SumsAt
  <1>3. ASSUME E # {} PROVE \E e \in E : Bytes(E) = e.size + Bytes(E \ {e})
    <2> DEFINE f == CHOOSE h : Sums(h, E)
               e == CHOOSE x \in E : TRUE
               R == E \ {e}
               g == CHOOSE h : Sums(h, R)
    <2>1. Sums(f, E) /\ Bytes(E) = f[E]
      BY <1>1, BytesIsChosen
    <2>2. IsFiniteSet(R) /\ R \in SUBSET E
      BY FS_RemoveElement
    <2>3. Sums(g, R) /\ Bytes(R) = g[R]
      <3> HIDE DEF R
      <3> QED
        BY <1>1, <2>2, BytesIsChosen
    <2>4. e \in E /\ f[E] = e.size + f[R]
      <3> HIDE DEF f
      <3> QED
        BY <1>3, <2>1, SumsAt
    <2> HIDE DEF f, g, R
    <2>5. f[R] = g[R]
      BY <2>1, <2>2, <2>3, SumsAgree
    <2> QED
      BY <2>1, <2>3, <2>4, <2>5 DEF R
  <1> QED
    BY <1>2, <1>3

Sized(E) == IsFiniteSet(E) /\ \A e \in E : e.size \in Nat

LEMMA SizedSubset ==
  ASSUME NEW E, Sized(E), NEW A \in SUBSET E
  PROVE  Sized(A)
  BY FS_Subset DEF Sized

LEMMA BytesNat ==
  ASSUME NEW E, Sized(E)
  PROVE  Bytes(E) \in Nat
  <1> DEFINE Bad == {T \in SUBSET E : Bytes(T) \notin Nat}
  <1> SUFFICES ASSUME Bad # {} PROVE FALSE
    OBVIOUS
  <1>1. IsFiniteSet(E) /\ Bad \in SUBSET (SUBSET E)
    BY DEF Sized
  <1>2. PICK T \in Bad : \A U \in Bad : U \subseteq T => U = T
    <2> HIDE DEF Bad
    <2> QED
      BY <1>1, MinimalSet
  <1>3. T \in SUBSET E /\ Bytes(T) \notin Nat /\ IsFiniteSet(T)
    BY SizedSubset DEF Sized
  <1>4. T # {}
    <2>1. Bytes({}) = 0
      BY <1>3, BytesUnfold
    <2> QED
      BY <1>3, <2>1
  <1>5. PICK e \in T : Bytes(T) = e.size + Bytes(T \ {e})
    BY <1>3, <1>4, BytesUnfold
  <1>6. e.size \in Nat /\ Bytes(T \ {e}) \in Nat
    BY <1>2, <1>3 DEF Sized
  <1> QED
    BY <1>3, <1>5, <1>6

\* Any event can be counted first.
LEMMA BytesWithout ==
  ASSUME NEW E, Sized(E), NEW x \in E
  PROVE  Bytes(E) = x.size + Bytes(E \ {x})
  <1> DEFINE Bad == {T \in SUBSET E : \E y \in T : Bytes(T) # y.size + Bytes(T \ {y})}
  <1> SUFFICES ASSUME Bad # {} PROVE FALSE
    OBVIOUS
  <1>1. IsFiniteSet(E) /\ Bad \in SUBSET (SUBSET E)
    BY DEF Sized
  <1>2. PICK T \in Bad : \A U \in Bad : U \subseteq T => U = T
    <2> HIDE DEF Bad
    <2> QED
      BY <1>1, MinimalSet
  <1>3. PICK y \in T : Bytes(T) # y.size + Bytes(T \ {y})
    OBVIOUS
  <1>4. T \in SUBSET E /\ Sized(T)
    BY SizedSubset
  <1>5. PICK e \in T : Bytes(T) = e.size + Bytes(T \ {e})
    BY <1>4, BytesUnfold DEF Sized
  <1>6. e # y
    BY <1>3, <1>5
  <1>7. ASSUME NEW U \in SUBSET T, U # T, NEW z \in U PROVE Bytes(U) = z.size + Bytes(U \ {z})
    BY <1>2, <1>4, <1>7
  <1>8. Bytes(T \ {e}) = y.size + Bytes((T \ {e}) \ {y})
    BY <1>6, <1>7
  <1>9. Bytes(T \ {y}) = e.size + Bytes((T \ {y}) \ {e})
    BY <1>6, <1>7
  <1>10. (T \ {e}) \ {y} = (T \ {y}) \ {e}
    OBVIOUS
  <1>11. /\ e.size \in Nat /\ y.size \in Nat /\ Bytes((T \ {e}) \ {y}) \in Nat
    BY <1>4, SizedSubset, BytesNat DEF Sized
  <1> DEFINE b == Bytes((T \ {e}) \ {y})
  <1>12. /\ Bytes(T) = e.size + (y.size + b) /\ Bytes(T \ {y}) = e.size + b /\ b \in Nat
    BY <1>5, <1>8, <1>9, <1>10, <1>11
  <1>13. e.size + (y.size + b) = y.size + (e.size + b)
    <2> HIDE DEF b
    <2> QED
      BY <1>11, <1>12
  <1> QED
    BY <1>3, <1>12, <1>13

LEMMA BytesAdded ==
  ASSUME NEW E, Sized(E), NEW x, x \notin E, x.size \in Nat
  PROVE  Sized(E \cup {x}) /\ Bytes(E \cup {x}) = Bytes(E) + x.size
  <1>1. Sized(E \cup {x})
    BY FS_AddElement DEF Sized
  <1>2. (E \cup {x}) \ {x} = E
    OBVIOUS
  <1>3. Bytes(E \cup {x}) = x.size + Bytes(E)
    BY <1>1, <1>2, BytesWithout
  <1>4. Bytes(E) \in Nat
    BY BytesNat
  <1> QED
    BY <1>1, <1>3, <1>4

\* What goes takes its bytes with it.
LEMMA BytesApart ==
  ASSUME NEW E, Sized(E), NEW A \in SUBSET E
  PROVE  Bytes(E \ A) = Bytes(E) - Bytes(A)
  <1> DEFINE Bad == {T \in SUBSET E : Bytes(E \ T) # Bytes(E) - Bytes(T)}
  <1> SUFFICES ASSUME Bad # {} PROVE FALSE
    OBVIOUS
  <1>1. IsFiniteSet(E) /\ Bad \in SUBSET (SUBSET E)
    BY DEF Sized
  <1>2. PICK T \in Bad : \A U \in Bad : U \subseteq T => U = T
    <2> HIDE DEF Bad
    <2> QED
      BY <1>1, MinimalSet
  <1>3. T \in SUBSET E /\ Sized(T) /\ Bytes(E \ T) # Bytes(E) - Bytes(T)
    BY SizedSubset
  <1>4. T # {}
    <2>1. E \ {} = E /\ Bytes({}) = 0 /\ Bytes(E) \in Nat
      BY BytesUnfold, BytesNat DEF Sized
    <2> QED
      BY <1>3, <2>1
  <1>5. PICK x \in T : TRUE
    BY <1>4
  <1> DEFINE R == T \ {x}
  <1>6. R \in SUBSET E /\ R \notin Bad /\ Sized(R)
    BY <1>2, <1>3, SizedSubset
  <1>7. Bytes(E \ R) = Bytes(E) - Bytes(R)
    BY <1>6
  <1>8. E \ R = (E \ T) \cup {x} /\ x \notin E \ T /\ x.size \in Nat /\ Sized(E \ T)
    BY <1>3, SizedSubset DEF Sized
  <1>9. Bytes(E \ R) = Bytes(E \ T) + x.size
    BY <1>8, BytesAdded
  <1>10. Bytes(T) = x.size + Bytes(R)
    BY <1>3, BytesWithout
  <1> HIDE DEF R
  <1>11. Bytes(E) \in Nat /\ Bytes(R) \in Nat /\ Bytes(E \ T) \in Nat
    BY <1>6, <1>8, BytesNat
  <1> QED
    BY <1>3, <1>7, <1>8, <1>9, <1>10, <1>11

-----------------------------------------------------------------------------
(* Eviction.                                                                *)

LEMMA OldestAll ==
  ASSUME NEW E, IsFiniteSet(E), \A e \in E : e.seq \in Nat
  PROVE  Oldest(E, Cardinality(E)) = E
  <1> SUFFICES ASSUME NEW e \in E PROVE Cardinality({f \in E : f.seq < e.seq}) < Cardinality(E)
    BY DEF Oldest
  <1> DEFINE older == {f \in E : f.seq < e.seq}
  <1>1. older \subseteq E \ {e}
    OBVIOUS
  <1>2. IsFiniteSet(E \ {e}) /\ Cardinality(E \ {e}) = Cardinality(E) - 1
    BY FS_RemoveElement
  <1>3. IsFiniteSet(older) /\ Cardinality(older) <= Cardinality(E) - 1
    <2> HIDE DEF older
    <2> QED
      BY <1>1, <1>2, FS_Subset
  <1>4. Cardinality(older) \in Nat /\ Cardinality(E) \in Nat
    <2> HIDE DEF older
    <2> QED
      BY <1>3, FS_CardinalityType
  <1> HIDE DEF older
  <1> QED
    BY <1>3, <1>4 DEF older

\* The n oldest of at least n events are at least n.
LEMMA OldestCount ==
  ASSUME NEW E, IsFiniteSet(E), \A e \in E : e.seq \in Nat
  PROVE  \A n \in 0..Cardinality(E) :
           Oldest(E, n) \in SUBSET E /\ Cardinality(Oldest(E, n)) >= n
  <1> DEFINE older(e) == {f \in E : f.seq < e.seq}
             O(n) == Oldest(E, n)
             Bad  == {n \in 0..Cardinality(E) : ~(Cardinality(O(n)) >= n)}
  <1>1. \A n : O(n) \in SUBSET E /\ IsFiniteSet(O(n)) /\ Cardinality(O(n)) \in Nat
    BY FS_Subset, FS_CardinalityType DEF Oldest
  <1> SUFFICES ASSUME Bad # {} PROVE FALSE
    BY <1>1
  <1>2. Cardinality(E) \in Nat
    BY FS_CardinalityType
  <1>3. Bad \in SUBSET Nat /\ IsFiniteSet(Bad)
    <2>1. Bad \in SUBSET (0..Cardinality(E)) /\ IsFiniteSet(0..Cardinality(E))
      BY <1>2, FS_Interval
    <2> HIDE DEF Bad
    <2> QED
      BY <1>2, <2>1, FS_Subset
  <1>4. PICK n \in Bad : \A k \in Bad : n <= k
    <2> HIDE DEF Bad
    <2> QED
      BY <1>3, HasLeast
  <1>5. n \in 0..Cardinality(E) /\ ~(Cardinality(O(n)) >= n)
    OBVIOUS
  <1>6. n # 0
    BY <1>1, <1>5
  <1> DEFINE m == n - 1
  <1>7. m \in 0..Cardinality(E) /\ m \in Nat /\ n = m + 1 /\ m < Cardinality(E)
    BY <1>2, <1>5, <1>6
  <1>8. Cardinality(O(m)) >= m
    BY <1>4, <1>7
  <1>9. \A e \in E : Cardinality(older(e)) \in Nat
    BY FS_Subset, FS_CardinalityType
  <1>10. /\ \A e \in E : e \in O(n) <=> Cardinality(older(e)) < n
         /\ \A e \in E : e \in O(m) <=> Cardinality(older(e)) < m
    BY DEF Oldest
  <1> HIDE DEF Bad, older, O, m
  <1>11. O(m) \subseteq O(n)
    BY <1>1, <1>7, <1>9, <1>10
  <1>12. Cardinality(O(m)) = m
    <2>1. Cardinality(O(m)) <= Cardinality(O(n))
      BY <1>1, <1>11, FS_Subset
    <2> QED
      BY <1>1, <1>5, <1>7, <1>8, <2>1
  <1>13. E \ O(m) # {}
    <2>1. O(m) # E
      BY <1>7, <1>12
    <2> QED
      BY <1>1, <2>1
  <1> DEFINE rest == E \ O(m)
             S == {e.seq : e \in rest}
  <1>14. PICK e \in rest : \A f \in rest : e.seq <= f.seq
    <2>1. IsFiniteSet(rest)
      BY FS_Subset
    <2>2. IsFiniteSet(S)
      <3> HIDE DEF rest
      <3> QED
        BY <2>1, SeqsFinite
    <2>3. S \in SUBSET Nat /\ S # {}
      BY <1>13
    <2>4. PICK s \in S : \A r \in S : s <= r
      <3> HIDE DEF S
      <3> QED
        BY <2>2, <2>3, HasLeast
    <2> QED
      BY <2>4
  <1>15. older(e) \subseteq O(m)
    <2> SUFFICES ASSUME NEW f \in E, f.seq < e.seq PROVE f \in O(m)
      BY DEF older
    <2>1. ~(e.seq <= f.seq)
      OBVIOUS
    <2> QED
      BY <1>14, <2>1
  <1>16. Cardinality(older(e)) <= m
    BY <1>1, <1>12, <1>15, FS_Subset
  <1>17. e \in O(n) /\ e \notin O(m)
    BY <1>7, <1>9, <1>10, <1>16
  <1>18. Cardinality(O(m) \cup {e}) = m + 1
    BY <1>1, <1>12, <1>17, FS_AddElement
  <1>19. Cardinality(O(m) \cup {e}) <= Cardinality(O(n))
    <2>1. O(m) \cup {e} \in SUBSET O(n)
      BY <1>11, <1>17
    <2> QED
      BY <1>1, <2>1, FS_Subset
  <1> QED
    BY <1>1, <1>5, <1>7, <1>18, <1>19

(* Eviction makes room for an event that is not larger than the buffer.     *)
LEMMA EvictionMakesRoom ==
  ASSUME NEW E, Sized(E), \A e \in E : e.seq \in Nat,
         NEW size \in Nat, size <= MaxBytes
  PROVE  LET old == Evicted(E, Bytes(E), size)
         IN  /\ old \in SUBSET E
             /\ Cardinality(E \ old) < MaxEvents
             /\ Bytes(E) - Bytes(old) + size <= MaxBytes
  <1> DEFINE N    == Cardinality(E)
             R(n) == MakesRoom(E, Bytes(E), size, n)
             Is(n) == R(n) /\ \A k \in 0..(n - 1) : ~R(k)
             c    == CHOOSE n \in 0..N : Is(n)
             old  == Oldest(E, c)
             Good == {n \in 0..N : R(n)}
  <1>1. IsFiniteSet(E) /\ N \in Nat
    BY FS_CardinalityType DEF Sized
  <1>2. \E n \in 0..N : Is(n)
    <2>1. R(N) /\ N \in 0..N
      BY <1>1 DEF MakesRoom
    <2>2. Good \in SUBSET Nat /\ Good # {} /\ IsFiniteSet(Good)
      <3>1. Good \in SUBSET (0..N) /\ IsFiniteSet(0..N)
        BY <1>1, FS_Interval
      <3>2. Good # {}
        BY <2>1
      <3> HIDE DEF Good, N
      <3>3. IsFiniteSet(Good)
        BY <3>1, FS_Subset
      <3>4. 0..N \subseteq Nat
        BY <1>1
      <3> QED
        BY <3>1, <3>2, <3>3, <3>4
    <2>3. PICK n \in Good : \A k \in Good : n <= k
      <3> HIDE DEF Good
      <3> QED
        BY <2>2, HasLeast
    <2>4. n \in 0..N /\ R(n)
      OBVIOUS
    <2>5. ASSUME NEW k \in 0..(n - 1), R(k) PROVE FALSE
      <3> HIDE DEF R, N
      <3>1. k \in 0..N /\ ~(n <= k)
        BY <1>1, <2>4
      <3>2. k \in Good
        BY <2>5, <3>1
      <3> QED
        BY <2>3, <3>1, <3>2
    <2> QED
      BY <2>4, <2>5
  <1>3. c \in 0..N /\ R(c)
    <2> HIDE DEF R
    <2> QED
      BY <1>2
  <1>4. Evicted(E, Bytes(E), size) = old
    BY DEF Evicted
  <1> HIDE DEF c
  <1>5. old \in SUBSET E /\ Cardinality(old) >= c
    BY <1>1, <1>3, OldestCount
  <1>6. Sized(old) /\ Bytes(old) \in Nat /\ Bytes(E) \in Nat
    BY <1>5, SizedSubset, BytesNat
  <1>7. CASE c = N
    <2>1. old = E
      BY <1>1, <1>7, OldestAll
    <2>2. E \ old = {} /\ Cardinality({}) = 0
      BY <2>1, FS_EmptySet
    <2> HIDE DEF old
    <2> QED
      BY <1>4, <1>5, <1>6, <2>1, <2>2, BufferAssumption
  <1>8. CASE c # N
    <2>1. N - c < MaxEvents /\ Bytes(E) - Bytes(old) + size <= MaxBytes
      BY <1>3, <1>8 DEF MakesRoom
    <2> HIDE DEF old
    <2>2. Cardinality(E \ old) = N - Cardinality(old) /\ Cardinality(old) \in Nat
      <3>1. E \cap old = old /\ IsFiniteSet(old)
        BY <1>1, <1>5, FS_Subset
      <3> QED
        BY <1>1, <3>1, FS_Difference, FS_CardinalityType
    <2>3. Cardinality(E \ old) < MaxEvents
      <3> HIDE DEF N
      <3> QED
        BY <1>1, <1>3, <1>5, <2>1, <2>2, BufferAssumption
    <2> QED
      BY <1>4, <1>5, <2>1, <2>3
  <1> QED
    BY <1>7, <1>8

-----------------------------------------------------------------------------
(* The accounts of a buffer: what a capture and a clear do to the two       *)
(* counters the code keeps, and to the number of events.                    *)

LEMMA CountApart ==
  ASSUME NEW E, IsFiniteSet(E), NEW A \in SUBSET E
  PROVE  /\ Cardinality(E \ A) = Cardinality(E) - Cardinality(A)
         /\ Cardinality(E) \in Nat /\ Cardinality(A) \in Nat /\ Cardinality(E \ A) \in Nat
  <1>1. E \cap A = A /\ IsFiniteSet(A) /\ IsFiniteSet(E \ A)
    BY FS_Subset
  <1> QED
    BY <1>1, FS_Difference, FS_CardinalityType

(* A capture evicts what it must, keeps within both limits, and adds what   *)
(* it keeps to the byte counter.                                            *)
LEMMA CaptureAccounts ==
  ASSUME NEW E, Sized(E), \A e \in E : e.seq \in Nat, NEW x, x \notin E,
         x.size \in Nat, x.size <= MaxBytes
  PROVE  LET old  == Evicted(E, Bytes(E), x.size)
             kept == (E \ old) \cup {x}
         IN  /\ Sized(kept)
             /\ Bytes(kept) = Bytes(E) - Bytes(old) + x.size /\ Bytes(kept) <= MaxBytes
             /\ Cardinality(kept) <= MaxEvents
             /\ Cardinality(kept) + Cardinality(old) = Cardinality(E) + 1
             /\ Cardinality(old) \in Nat
  <1> DEFINE old  == Evicted(E, Bytes(E), x.size)
             left == E \ old
             kept == left \cup {x}
  <1>1. /\ old \in SUBSET E /\ Cardinality(left) < MaxEvents
        /\ Bytes(E) - Bytes(old) + x.size <= MaxBytes
    BY EvictionMakesRoom
  <1> HIDE DEF old
  <1>2. Sized(left) /\ x \notin left /\ IsFiniteSet(left) /\ IsFiniteSet(E)
    BY <1>1, SizedSubset DEF Sized
  <1>3. /\ Cardinality(left) = Cardinality(E) - Cardinality(old)
        /\ Cardinality(E) \in Nat /\ Cardinality(old) \in Nat /\ Cardinality(left) \in Nat
    BY <1>1, <1>2, CountApart
  <1>4. Bytes(left) = Bytes(E) - Bytes(old)
    BY <1>1, BytesApart
  <1> HIDE DEF left
  <1>5. Sized(kept) /\ Bytes(kept) = Bytes(left) + x.size
    BY <1>2, BytesAdded
  <1>6. Cardinality(kept) = Cardinality(left) + 1
    BY <1>2, FS_AddElement
  <1> HIDE DEF kept
  <1>7. Cardinality(kept) <= MaxEvents /\ Cardinality(kept) + Cardinality(old) = Cardinality(E) + 1
    BY <1>1, <1>3, <1>6, BufferAssumption
  <1>8. Bytes(kept) = Bytes(E) - Bytes(old) + x.size /\ Bytes(kept) <= MaxBytes
    BY <1>1, <1>4, <1>5
  <1> QED
    BY <1>3, <1>5, <1>7, <1>8 DEF old, left, kept

(* What is left of a buffer has no more bytes, and no event is lost count of.*)
LEMMA ClearAccounts ==
  ASSUME NEW E, Sized(E), NEW left \in SUBSET E
  PROVE  /\ Sized(left) /\ Bytes(left) \in Nat /\ Bytes(left) <= Bytes(E)
         /\ Cardinality(left) + Cardinality(E \ left) = Cardinality(E)
         /\ Cardinality(left) <= Cardinality(E)
         /\ {Cardinality(left), Cardinality(E \ left), Cardinality(E)} \subseteq Nat
  <1>1. Sized(left) /\ Sized(E \ left) /\ IsFiniteSet(E)
    BY SizedSubset DEF Sized
  <1>2. Bytes(E \ left) = Bytes(E) - Bytes(left)
    BY BytesApart
  <1>3. Bytes(left) \in Nat /\ Bytes(E) \in Nat /\ Bytes(E \ left) \in Nat
    BY <1>1, BytesNat
  <1>4. /\ Cardinality(E \ left) = Cardinality(E) - Cardinality(left)
        /\ Cardinality(E) \in Nat /\ Cardinality(left) \in Nat /\ Cardinality(E \ left) \in Nat
    BY <1>1, CountApart
  <1> QED
    BY <1>1, <1>2, <1>3, <1>4
=============================================================================
