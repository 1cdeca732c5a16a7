--------------------------- MODULE TransferProofs ---------------------------
(***************************************************************************)
(* Of the transfer of one file (Transfer), for any manifest, sizes,        *)
(* sources, peers, limits and space.                                       *)
(*                                                                         *)
(* The folds by which the model counts bytes and orders chunks are written *)
(* over recursive functions of the community modules.  What is needed of   *)
(* them (a sum exists, does not depend on the order, grows with its set)   *)
(* is proved from least counterexamples, first by cardinality and then     *)
(* among the subsets of one finite set.                                    *)
(***************************************************************************)
EXTENDS Transfer, FiniteSetTheorems, SequenceTheorems, TLAPS

-----------------------------------------------------------------------------
(* Sums over finite sets. *)

Pick(s) == CHOOSE x \in s : TRUE

\* IsSum: f gives the sum of g over each set of `sets`, the way the folds
\* compute it.
IsSum(f, g, sets) ==
    /\ f \in [sets -> Nat]
    /\ \A s \in sets : f[s] = IF s = {} THEN 0 ELSE g[Pick(s)] + f[s \ {Pick(s)}]

LEMMA LeastNatural ==
    ASSUME NEW Z \in SUBSET Nat, Z # {}
    PROVE  \E n \in Z : \A m \in Z : n <= m
  <1> DEFINE R == {ss \in Nat \X Nat : ss[1] < ss[2]}
  <1>1. IsWellFoundedOn(R, Nat)
    BY NatLessThanWellFounded DEF OpToRel
  <1>2. PICK n \in Z : \A m \in Z : ~(<<m, n>> \in R)
    BY <1>1, WFMin
  <1>3. \A m \in Z : ~(m < n)
    BY <1>2
  <1> QED
    BY <1>3

\* Every number is in a set that 0 is in and that is closed under successor.
LEMMA Counting ==
    ASSUME NEW G, 0 \in G, \A n \in Nat : n \in G => n + 1 \in G
    PROVE  Nat \subseteq G
  <1> SUFFICES ASSUME Nat \ G # {} PROVE FALSE
    OBVIOUS
  <1>1. PICK n \in Nat \ G : \A m \in Nat \ G : n <= m
    BY LeastNatural
  <1>2. n # 0 /\ n - 1 \in Nat /\ n - 1 \in G
    BY <1>1
  <1> QED
    BY <1>1, <1>2

\* A least subset, among those of a kind.
LEMMA LeastSubset ==
    ASSUME NEW Z, IsFiniteSet(Z), NEW K \in SUBSET SUBSET Z, K # {}
    PROVE  \E s \in K : \A t \in K : t \subseteq s => t = s
  <1>1. IsWellFoundedOn(StrictSubsetOrdering(Z), SUBSET Z)
    BY FS_StrictSubsetOrderingWellFounded, FS_FiniteSubsetsOfFinite
  <1>2. PICK s \in K : \A t \in K : ~(<<t, s>> \in StrictSubsetOrdering(Z))
    BY <1>1, WFMin
  <1>3. ASSUME NEW t \in K, t \subseteq s
        PROVE  t = s
    <2>1. <<t, s>> \in (SUBSET Z) \X (SUBSET Z)
      OBVIOUS
    <2> QED
      BY <1>2, <1>3, <2>1 DEF StrictSubsetOrdering
  <1> QED
    BY <1>3

\* Folds: f is what the fold over each set of `sets` comes to, if elements are
\* taken out by pick.
IsFold(f, combine, pick, base, sets) ==
    \A s \in sets : f[s] = IF s = {} THEN base ELSE combine[<<pick[s], f[s \ {pick[s]}]>>]

\* FoldExists: the recursion of a fold over a finite set has a solution.
LEMMA FoldExists ==
    ASSUME NEW Z, IsFiniteSet(Z), NEW V, NEW base \in V, NEW combine \in [Z \X V -> V],
           NEW pick, \A s \in SUBSET Z : s # {} => pick[s] \in s
    PROVE  \E f \in [SUBSET Z -> V] : IsFold(f, combine, pick, base, SUBSET Z)
  <1> DEFINE D(n) == {s \in SUBSET Z : Cardinality(s) <= n}
             G == {n \in Nat : \E f \in [D(n) -> V] : IsFold(f, combine, pick, base, D(n))}
  <1>1. \A s \in SUBSET Z : IsFiniteSet(s) /\ Cardinality(s) \in Nat
    BY FS_Subset, FS_CardinalityType
  <1>2. \A s \in SUBSET Z : s # {} =>
          /\ pick[s] \in s /\ s \ {pick[s]} \in SUBSET Z
          /\ Cardinality(s \ {pick[s]}) = Cardinality(s) - 1
    BY <1>1, FS_RemoveElement
  <1>3. 0 \in G
    <2>1. \A s \in D(0) : s = {}
      BY <1>1, FS_EmptySet
    <2> DEFINE h == [s \in D(0) |-> base]
    <2>2. h \in [D(0) -> V] /\ IsFold(h, combine, pick, base, D(0))
      BY <2>1 DEF IsFold
    <2> HIDE DEF h, D
    <2>3. 0 \in Nat /\ \E f \in [D(0) -> V] : IsFold(f, combine, pick, base, D(0))
      BY <2>2
    <2> QED
      BY <2>3
  <1>4. ASSUME NEW n \in Nat, n \in G
        PROVE  n + 1 \in G
    <2>1. PICK f \in [D(n) -> V] : IsFold(f, combine, pick, base, D(n))
      BY <1>4
    <2> DEFINE h == [s \in D(n + 1) |-> IF s = {} THEN base ELSE combine[<<pick[s], f[s \ {pick[s]}]>>]]
    <2>2. \A s \in D(n + 1) : s # {} => s \ {pick[s]} \in D(n) /\ pick[s] \in Z
      BY <1>1, <1>2
    <2>3. h \in [D(n + 1) -> V]
      <3> SUFFICES ASSUME NEW s \in D(n + 1), s # {}
                   PROVE  combine[<<pick[s], f[s \ {pick[s]}]>>] \in V
        OBVIOUS
      <3>1. pick[s] \in Z /\ f[s \ {pick[s]}] \in V
        BY <2>1, <2>2
      <3>2. <<pick[s], f[s \ {pick[s]}]>> \in Z \X V
        BY <3>1
      <3> QED
        BY <3>2
    <2>4. \A s \in D(n) : s \in D(n + 1) /\ h[s] = f[s]
      <3>1. D(n) \subseteq D(n + 1)
        BY <1>1
      <3> QED
        BY <2>1, <3>1 DEF IsFold
    <2>5. IsFold(h, combine, pick, base, D(n + 1))
      <3> SUFFICES ASSUME NEW s \in D(n + 1), s # {}
                   PROVE  h[s] = combine[<<pick[s], h[s \ {pick[s]}]>>]
        BY DEF IsFold
      <3>1. h[s \ {pick[s]}] = f[s \ {pick[s]}]
        BY <2>2, <2>4
      <3>2. h[s] = combine[<<pick[s], f[s \ {pick[s]}]>>]
        OBVIOUS
      <3> HIDE DEF h
      <3> QED
        BY <3>1, <3>2
    <2> HIDE DEF h, D
    <2>6. n + 1 \in Nat /\ \E k \in [D(n + 1) -> V] : IsFold(k, combine, pick, base, D(n + 1))
      BY <2>3, <2>5
    <2> QED
      BY <2>6
  <1> HIDE DEF G
  <1>5. Cardinality(Z) \in G
    BY <1>1, <1>3, <1>4, Counting
  <1>6. D(Cardinality(Z)) = SUBSET Z
    BY FS_Subset
  <1>7. \E f \in [D(Cardinality(Z)) -> V] : IsFold(f, combine, pick, base, D(Cardinality(Z)))
    BY <1>5 DEF G
  <1> HIDE DEF D
  <1> QED
    BY <1>6, <1>7

LEMMA SumExists ==
    ASSUME NEW Z, IsFiniteSet(Z), NEW g, \A x \in Z : g[x] \in Nat
    PROVE  \E f : IsSum(f, g, SUBSET Z)
  <1> DEFINE combine == [x \in Z \X Nat |-> g[x[1]] + x[2]]
             pick == [s \in SUBSET Z |-> Pick(s)]
  <1>1. combine \in [Z \X Nat -> Nat]
    OBVIOUS
  <1>2. \A s \in SUBSET Z : s # {} => pick[s] \in s /\ pick[s] = Pick(s)
    BY DEF Pick
  <1>3. \A x \in Z, n \in Nat : combine[<<x, n>>] = g[x] + n
    OBVIOUS
  <1> HIDE DEF combine, pick
  <1>4. PICK f \in [SUBSET Z -> Nat] : IsFold(f, combine, pick, 0, SUBSET Z)
    BY <1>1, <1>2, FoldExists
  <1>5. \A s \in SUBSET Z : s # {} => Pick(s) \in Z /\ f[s \ {Pick(s)}] \in Nat
    BY <1>2
  <1>6. \A s \in SUBSET Z : f[s] = IF s = {} THEN 0 ELSE g[Pick(s)] + f[s \ {Pick(s)}]
    BY <1>2, <1>3, <1>4, <1>5 DEF IsFold
  <1>7. IsSum(f, g, SUBSET Z)
    BY <1>6 DEF IsSum
  <1> QED
    BY <1>7

\* The order in which the elements are taken does not matter.
LEMMA SumRemove ==
    ASSUME NEW Z, IsFiniteSet(Z), NEW g, \A x \in Z : g[x] \in Nat,
           NEW f, IsSum(f, g, SUBSET Z)
    PROVE  \A s \in SUBSET Z : \A x \in s : f[s] = g[x] + f[s \ {x}]
  <1> DEFINE K == {s \in SUBSET Z : \E x \in s : f[s] # g[x] + f[s \ {x}]}
  <1> SUFFICES ASSUME K # {} PROVE FALSE
    OBVIOUS
  <1>1. PICK s \in K : \A t \in K : t \subseteq s => t = s
    <2>1. K \in SUBSET SUBSET Z
      OBVIOUS
    <2> HIDE DEF K
    <2> QED
      BY <2>1, LeastSubset
  <1>2. PICK x \in s : f[s] # g[x] + f[s \ {x}]
    OBVIOUS
  <1> DEFINE p == Pick(s)
  <1>3. p \in s /\ f[s] = g[p] + f[s \ {p}]
    BY <1>2 DEF Pick, IsSum
  <1>4. x # p
    BY <1>2, <1>3
  <1>5. s \ {p} \notin K /\ s \ {x} \notin K
    BY <1>1, <1>2, <1>3
  <1>6. f[s \ {p}] = g[x] + f[(s \ {p}) \ {x}]
    BY <1>3, <1>4, <1>5
  <1>7. f[s \ {x}] = g[p] + f[(s \ {x}) \ {p}]
    BY <1>3, <1>4, <1>5
  <1>8. f[(s \ {p}) \ {x}] = f[(s \ {x}) \ {p}]
    <2>1. (s \ {p}) \ {x} = (s \ {x}) \ {p}
      OBVIOUS
    <2> QED
      BY <2>1, Zenon
  <1>9. g[x] \in Nat /\ g[p] \in Nat /\ f[(s \ {x}) \ {p}] \in Nat
    BY <1>3 DEF IsSum
  <1>10. f[s] = g[p] + f[s \ {p}] /\ f[s] # g[x] + f[s \ {x}]
    BY <1>2, <1>3
  <1> HIDE DEF p, K
  <1> QED
    BY ONLY <1>6, <1>7, <1>8, <1>9, <1>10

\* Two sums agree where their summands do.
Alike(f, g, Z, h, k, T) ==
    /\ IsSum(f, g, SUBSET Z) /\ IsSum(h, k, SUBSET T)
    /\ IsFiniteSet(Z) /\ Z \subseteq T /\ \A x \in Z : g[x] = k[x]

LEMMA SumUnique ==
    ASSUME NEW Z, NEW T, NEW f, NEW g, NEW h, NEW k, Alike(f, g, Z, h, k, T)
    PROVE  f[Z] = h[Z]
  <1> USE DEF Alike
  <1> DEFINE K == {s \in SUBSET Z : f[s] # h[s]}
  <1> SUFFICES ASSUME K # {} PROVE FALSE
    OBVIOUS
  <1>1. PICK s \in K : \A t \in K : t \subseteq s => t = s
    <2>1. K \in SUBSET SUBSET Z
      OBVIOUS
    <2> HIDE DEF K
    <2> QED
      BY <2>1, LeastSubset
  <1>2. s \in SUBSET Z /\ s \in SUBSET T /\ f[s] # h[s]
    BY <1>1
  <1>3. s # {}
    BY <1>2 DEF IsSum
  <1>4. Pick(s) \in s
    BY <1>3 DEF Pick
  <1>5. f[s] = g[Pick(s)] + f[s \ {Pick(s)}] /\ h[s] = k[Pick(s)] + h[s \ {Pick(s)}]
    BY <1>2, <1>3 DEF IsSum
  <1>6. f[s \ {Pick(s)}] = h[s \ {Pick(s)}]
    BY <1>1, <1>2, <1>4
  <1> QED
    BY <1>2, <1>4, <1>5, <1>6

Total(g, Z) == (CHOOSE f : IsSum(f, g, SUBSET Z))[Z]

LEMMA SumOf ==
    ASSUME NEW Z, IsFiniteSet(Z), NEW g, \A x \in Z : g[x] \in Nat
    PROVE  \E f : IsSum(f, g, SUBSET Z) /\ Total(g, Z) = f[Z]
  <1>1. IsSum(CHOOSE f : IsSum(f, g, SUBSET Z), g, SUBSET Z)
    BY SumExists
  <1> QED
    BY <1>1 DEF Total

\* SumFacts: what a sum is, whichever element is taken out of it.
LEMMA SumFacts ==
    ASSUME NEW Z, IsFiniteSet(Z), NEW g, \A x \in Z : g[x] \in Nat
    PROVE  /\ Total(g, Z) \in Nat
           /\ Z = {} => Total(g, Z) = 0
           /\ \A x \in Z : Total(g, Z) = g[x] + Total(g, Z \ {x})
  <1>1. PICK f : IsSum(f, g, SUBSET Z) /\ Total(g, Z) = f[Z]
    BY SumOf
  <1>2. Total(g, Z) \in Nat /\ (Z = {} => Total(g, Z) = 0)
    BY <1>1 DEF IsSum
  <1>3. ASSUME NEW x \in Z
        PROVE  Total(g, Z) = g[x] + Total(g, Z \ {x})
    <2> DEFINE R == Z \ {x}
    <2>1. IsFiniteSet(R) /\ R \subseteq Z
      BY FS_Subset
    <2> HIDE DEF R
    <2>2. PICK h : IsSum(h, g, SUBSET R) /\ Total(g, R) = h[R]
      BY <2>1, SumOf
    <2>3. h[R] = f[R]
      <3>1. Alike(h, g, R, f, g, Z)
        BY <1>1, <2>1, <2>2 DEF Alike
      <3> QED
        BY <3>1, SumUnique
    <2>4. f[Z] = g[x] + f[R]
      BY <1>1, SumRemove DEF R
    <2> QED
      BY <1>1, <2>2, <2>3, <2>4 DEF R
  <1> QED
    BY <1>2, <1>3

LEMMA SumAgree ==
    ASSUME NEW Z, IsFiniteSet(Z), NEW g, NEW k, \A x \in Z : g[x] \in Nat /\ g[x] = k[x]
    PROVE  Total(g, Z) = Total(k, Z)
  <1>1. PICK f : IsSum(f, g, SUBSET Z) /\ Total(g, Z) = f[Z]
    BY SumOf
  <1>2. PICK h : IsSum(h, k, SUBSET Z) /\ Total(k, Z) = h[Z]
    <2>1. \A x \in Z : k[x] \in Nat
      OBVIOUS
    <2> QED
      BY <2>1, SumOf
  <1>3. f[Z] = h[Z]
    <2>1. Alike(f, g, Z, h, k, Z)
      BY <1>1, <1>2 DEF Alike
    <2> QED
      BY <2>1, SumUnique
  <1> QED
    BY <1>1, <1>2, <1>3

LEMMA SumMonotone ==
    ASSUME NEW Z, IsFiniteSet(Z), NEW g, \A x \in Z : g[x] \in Nat, NEW T \in SUBSET Z
    PROVE  Total(g, T) <= Total(g, Z)
  <1> DEFINE K == {s \in SUBSET Z : T \subseteq s /\ ~(Total(g, T) <= Total(g, s))}
  <1> SUFFICES ASSUME K # {} PROVE FALSE
    OBVIOUS
  <1>1. PICK s \in K : \A t \in K : t \subseteq s => t = s
    <2>1. K \in SUBSET SUBSET Z
      OBVIOUS
    <2> HIDE DEF K
    <2> QED
      BY <2>1, LeastSubset
  <1>2. \A t \in SUBSET Z : IsFiniteSet(t)
    BY FS_Subset
  <1>3. \A t \in SUBSET Z : Total(g, t) \in Nat /\ \A x \in t : Total(g, t) = g[x] + Total(g, t \ {x})
    BY <1>2, SumFacts
  <1>4. PICK x \in s : x \notin T
    BY <1>3
  <1>5. s \ {x} \notin K
    BY <1>1
  <1>6. Total(g, T) <= Total(g, s \ {x})
    BY <1>1, <1>4, <1>5
  <1>7. Total(g, s) = g[x] + Total(g, s \ {x}) /\ Total(g, s \ {x}) \in Nat /\ g[x] \in Nat
        /\ Total(g, T) \in Nat /\ ~(Total(g, T) <= Total(g, s))
    BY <1>3
  <1> QED
    BY <1>6, <1>7

-----------------------------------------------------------------------------
(* The folds of the store and of the pipeline are sums. *)

Recursion(h, g, Z) ==
    h = [s \in SUBSET Z |-> IF s = {} THEN 0 ELSE g[Pick(s)] + h[s \ {Pick(s)}]]
Backward(h, g, Z) ==
    h = [s \in SUBSET Z |-> IF s = {} THEN 0 ELSE h[s \ {Pick(s)}] + g[Pick(s)]]

\* Whatever satisfies the recursion of a fold is the sum, and something does.
LEMMA FoldIsSum ==
    ASSUME NEW Z, IsFiniteSet(Z), NEW g, \A x \in Z : g[x] \in Nat
    PROVE  /\ \E h : Recursion(h, g, Z)
           /\ \E h : Backward(h, g, Z)
           /\ \A h : Recursion(h, g, Z) \/ Backward(h, g, Z) => h[Z] = Total(g, Z)
  <1>1. PICK f : IsSum(f, g, SUBSET Z) /\ Total(g, Z) = f[Z]
    BY SumOf
  <1>2. \A s \in SUBSET Z : s # {} => Pick(s) \in s /\ s \ {Pick(s)} \in SUBSET Z
    BY DEF Pick
  <1>3. f \in [SUBSET Z -> Nat]
        /\ \A s \in SUBSET Z : f[s] = IF s = {} THEN 0 ELSE g[Pick(s)] + f[s \ {Pick(s)}]
    BY <1>1 DEF IsSum
  <1>4. Recursion(f, g, Z)
    BY <1>3 DEF Recursion
  <1>5. Backward(f, g, Z)
    <2>1. \A s \in SUBSET Z : f[s] = IF s = {} THEN 0 ELSE f[s \ {Pick(s)}] + g[Pick(s)]
      BY <1>2, <1>3
    <2> QED
      BY <1>3, <2>1 DEF Backward
  <1>6. ASSUME NEW h, Recursion(h, g, Z) \/ Backward(h, g, Z)
        PROVE  h[Z] = f[Z]
    <2> DEFINE K == {s \in SUBSET Z : h[s] # f[s]}
    <2> SUFFICES ASSUME K # {} PROVE FALSE
      OBVIOUS
    <2>1. PICK s \in K : \A t \in K : t \subseteq s => t = s
      <3>1. K \in SUBSET SUBSET Z
        OBVIOUS
      <3> HIDE DEF K
      <3> QED
        BY <3>1, LeastSubset
    <2>2. \A t \in SUBSET Z : t # {} =>
             h[t] = g[Pick(t)] + h[t \ {Pick(t)}] \/ h[t] = h[t \ {Pick(t)}] + g[Pick(t)]
      BY <1>6 DEF Recursion, Backward
    <2>3. h[{}] = 0
      BY <1>6 DEF Recursion, Backward
    <2>4. s # {} /\ s \in SUBSET Z /\ h[s] # f[s]
      BY <1>3, <2>1, <2>3
    <2>5. h[s \ {Pick(s)}] = f[s \ {Pick(s)}]
      BY <1>2, <2>1, <2>4
    <2>6. f[s \ {Pick(s)}] \in Nat /\ g[Pick(s)] \in Nat
      BY <1>2, <1>3, <2>4
    <2>7. f[s] = g[Pick(s)] + f[s \ {Pick(s)}]
      BY <1>3, <2>4
    <2> HIDE DEF K
    <2> QED
      BY <2>2, <2>4, <2>5, <2>6, <2>7
  <1> QED
    BY <1>1, <1>4, <1>5, <1>6

LEMMA BytesIsSum ==
    ASSUME NEW Z \in SUBSET Chunk
    PROVE  Bytes(Z) = Total(Size, Z)
  <1>1. Bytes(Z) = (CHOOSE h : Recursion(h, Size, Z))[Z]
    BY DEF Bytes, MapThenSumSet, MapThenFoldSet, Pick, Recursion
  <1>2. IsFiniteSet(Z) /\ \A c \in Z : Size[c] \in Nat
    BY StoreAssumption, FS_Subset
  <1>3. Recursion(CHOOSE h : Recursion(h, Size, Z), Size, Z)
    BY <1>2, FoldIsSum
  <1> QED
    BY <1>1, <1>2, <1>3, FoldIsSum

\* BytesFacts: the bytes of a set of chunks are those of its members.
LEMMA BytesFacts ==
    ASSUME NEW Z \in SUBSET Chunk
    PROVE  /\ Bytes(Z) \in Nat /\ Bytes({}) = 0
           /\ \A c \in Z : Bytes(Z) = Size[c] + Bytes(Z \ {c})
           /\ \A T \in SUBSET Z : Bytes(T) <= Bytes(Z)
           /\ \A c \in Chunk : Bytes({c}) = Size[c] /\ Size[c] \in Nat \ {0}
  <1>1. \A T \in SUBSET Chunk : IsFiniteSet(T) /\ \A c \in T : Size[c] \in Nat
    BY StoreAssumption, FS_Subset
  <1>2. \A T \in SUBSET Chunk : Bytes(T) = Total(Size, T)
    BY BytesIsSum
  <1>3. ASSUME NEW T \in SUBSET Chunk
        PROVE  /\ Bytes(T) \in Nat /\ (T = {} => Bytes(T) = 0)
               /\ \A c \in T : Bytes(T) = Size[c] + Bytes(T \ {c})
    <2>1. \A c \in T : T \ {c} \in SUBSET Chunk
      OBVIOUS
    <2> QED
      BY <1>1, <1>2, <2>1, SumFacts
  <1>4. \A T \in SUBSET Z : Bytes(T) <= Bytes(Z)
    BY <1>1, <1>2, SumMonotone
  <1>5. ASSUME NEW c \in Chunk
        PROVE  Bytes({c}) = Size[c] /\ Size[c] \in Nat \ {0}
    <2>1. Bytes({c}) = Size[c] + Bytes({c} \ {c})
      BY <1>3
    <2>2. {c} \ {c} = {}
      OBVIOUS
    <2>3. Bytes({c} \ {c}) = 0
      BY <1>3, <2>2, Zenon
    <2> QED
      BY <2>1, <2>3, StoreAssumption
  <1> QED
    BY <1>3, <1>4, <1>5

\* Sums along a sequence.
LEMMA SumLast ==
    ASSUME NEW n \in Nat, NEW g, \A i \in 1 .. n + 1 : g[i] \in Nat
    PROVE  Total(g, 1 .. n + 1) = g[n + 1] + Total(g, 1 .. n) /\ Total(g, 1 .. n) \in Nat
  <1> DEFINE Z == 1 .. n + 1
  <1>1. IsFiniteSet(Z) /\ IsFiniteSet(1 .. n)
    BY FS_Interval
  <1>2. n + 1 \in Z /\ Z \ {n + 1} = 1 .. n
    OBVIOUS
  <1> HIDE DEF Z
  <1>3. Total(g, Z) = g[n + 1] + Total(g, Z \ {n + 1})
    <2>1. \A i \in Z : g[i] \in Nat
      BY DEF Z
    <2> QED
      BY <1>1, <1>2, <2>1, SumFacts
  <1>4. Total(g, Z \ {n + 1}) = Total(g, 1 .. n)
    BY <1>2, Zenon
  <1>5. Total(g, 1 .. n) \in Nat
    <2>1. \A i \in 1 .. n : g[i] \in Nat
      OBVIOUS
    <2> QED
      BY <1>1, <2>1, SumFacts
  <1> QED
    BY <1>3, <1>4, <1>5 DEF Z

LEMMA SumShift ==
    ASSUME NEW n \in Nat, NEW g, \A i \in 1 .. n + 1 : g[i] \in Nat,
           NEW h, \A i \in 1 .. n : h[i] = g[i + 1]
    PROVE  Total(g, 1 .. n + 1) = g[1] + Total(h, 1 .. n)
  <1> DEFINE G == {m \in Nat : m <= n => Total(g, 1 .. m + 1) = g[1] + Total(h, 1 .. m)}
  <1>1. \A m \in Nat : m <= n => \A i \in 1 .. m : h[i] \in Nat
    OBVIOUS
  <1>2. ASSUME NEW m \in Nat, m = 0
        PROVE  m \in G
    <2>1. Total(g, 1 .. m + 1) = g[m + 1] + Total(g, 1 .. m)
      <3>1. \A i \in 1 .. m + 1 : g[i] \in Nat
        BY <1>2
      <3> QED
        BY <3>1, SumLast
    <2>2. 1 .. m = {} /\ IsFiniteSet({})
      BY <1>2, FS_EmptySet
    <2>3. Total(g, {}) = 0 /\ Total(h, {}) = 0
      BY <2>2, SumFacts
    <2>4. Total(g, 1 .. m) = 0 /\ Total(h, 1 .. m) = 0
      BY <2>2, <2>3, Zenon
    <2> QED
      BY <1>2, <2>1, <2>4
  <1>3. ASSUME NEW m \in Nat, m \in G
        PROVE  m + 1 \in G
    <2> SUFFICES ASSUME m + 1 <= n
                 PROVE  Total(g, 1 .. (m + 1) + 1) = g[1] + Total(h, 1 .. m + 1)
      OBVIOUS
    <2>1. Total(g, 1 .. (m + 1) + 1) = g[(m + 1) + 1] + Total(g, 1 .. m + 1)
      BY SumLast
    <2>2. Total(h, 1 .. m + 1) = h[m + 1] + Total(h, 1 .. m) /\ Total(h, 1 .. m) \in Nat
      BY <1>1, SumLast
    <2>3. Total(g, 1 .. m + 1) = g[1] + Total(h, 1 .. m)
      BY <1>3
    <2>4. h[m + 1] = g[(m + 1) + 1] /\ g[1] \in Nat /\ g[(m + 1) + 1] \in Nat
      OBVIOUS
    <2> QED
      BY <2>1, <2>2, <2>3, <2>4
  <1> HIDE DEF G
  <1>4. n \in G
    BY <1>2, <1>3, Counting
  <1> QED
    BY <1>4 DEF G

Sizes(chunks) == [i \in DOMAIN chunks |-> Size[chunks[i]]]

LEMMA LengthIsSum ==
    ASSUME NEW q \in Seq(Chunk)
    PROVE  Length(q) = Total(Sizes(q), 1 .. Len(q)) /\ \A i \in 1 .. Len(q) : Sizes(q)[i] \in Nat
  <1> DEFINE Z == DOMAIN q
             g == Sizes(q)
             R(h) == h = [s \in SUBSET Z |-> IF s = {} THEN 0 ELSE h[s \ {Pick(s)}] + Size[q[Pick(s)]]]
  <1>1. Length(q) = (CHOOSE h : R(h))[Z]
    BY DEF Length, FoldSeq, FoldFunction, FoldFunctionOnSet, MapThenFoldSet, Pick
  <1>2. \A i \in Z : g[i] \in Nat /\ g[i] = Size[q[i]]
    BY StoreAssumption DEF Sizes
  <1>3. Z = 1 .. Len(q) /\ IsFiniteSet(Z)
    BY FS_Interval
  <1>4. \A h : R(h) <=> Backward(h, g, Z)
    <2> TAKE h
    <2>1. \A s \in SUBSET Z : s # {} => g[Pick(s)] = Size[q[Pick(s)]]
      BY <1>2 DEF Pick
    <2> QED
      BY <2>1 DEF Backward
  <1> HIDE DEF R, g, Z
  <1>5. R(CHOOSE h : R(h))
    BY <1>2, <1>3, <1>4, FoldIsSum
  <1>6. Length(q) = Total(g, Z)
    BY <1>1, <1>2, <1>3, <1>4, <1>5, FoldIsSum
  <1>7. Total(g, Z) = Total(Sizes(q), 1 .. Len(q))
    BY <1>3, Zenon DEF g
  <1> QED
    BY <1>2, <1>3, <1>6, <1>7 DEF g, Z

\* LengthFacts: how the bytes of a sequence of chunks change at its ends.
LEMMA LengthFacts ==
    ASSUME NEW q \in Seq(Chunk)
    PROVE  /\ Length(q) \in Nat /\ Length(<<>>) = 0
           /\ \A c \in Chunk : Length(Append(q, c)) = Length(q) + Size[c]
  <1>1. \A r \in Seq(Chunk) : Length(r) = Total(Sizes(r), 1 .. Len(r))
                              /\ \A i \in 1 .. Len(r) : Sizes(r)[i] \in Nat
    BY LengthIsSum
  <1>2. Length(<<>>) = 0
    <2>1. <<>> \in Seq(Chunk) /\ 1 .. Len(<<>>) = {} /\ IsFiniteSet({})
      BY FS_EmptySet
    <2>2. Total(Sizes(<<>>), {}) = 0
      BY <2>1, SumFacts
    <2>3. Length(<<>>) = Total(Sizes(<<>>), 1 .. Len(<<>>))
      BY <1>1, <2>1
    <2> QED
      BY <2>1, <2>2, <2>3, Zenon
  <1>3. Length(q) \in Nat
    <2>1. IsFiniteSet(1 .. Len(q))
      BY FS_Interval
    <2> QED
      BY <1>1, <2>1, SumFacts
  <1>4. ASSUME NEW c \in Chunk
        PROVE  Length(Append(q, c)) = Length(q) + Size[c]
    <2> DEFINE r == Append(q, c)  n == Len(q)
    <2>1. r \in Seq(Chunk) /\ Len(r) = n + 1 /\ n \in Nat /\ r[n + 1] = c
          /\ \A i \in 1 .. n : r[i] = q[i]
      OBVIOUS
    <2>2. DOMAIN r = 1 .. n + 1 /\ DOMAIN q = 1 .. n
      BY <2>1
    <2> HIDE DEF r, n
    <2>3. /\ Sizes(r)[n + 1] = Size[c]
          /\ \A i \in 1 .. n : Sizes(r)[i] = Sizes(q)[i]
      BY <2>1, <2>2 DEF Sizes
    <2>4. \A i \in 1 .. n + 1 : Sizes(r)[i] \in Nat
      BY <1>1, <2>1
    <2>5. Total(Sizes(r), 1 .. n + 1) = Size[c] + Total(Sizes(r), 1 .. n)
      BY <2>1, <2>3, <2>4, SumLast
    <2>6. Total(Sizes(r), 1 .. n) = Total(Sizes(q), 1 .. n)
      <3>1. IsFiniteSet(1 .. n) /\ \A i \in 1 .. n : Sizes(r)[i] \in Nat
        <4>1. IsFiniteSet(1 .. n)
          BY <2>1, FS_Interval
        <4> QED
          BY <2>1, <2>4, <4>1
      <3> QED
        BY <2>3, <3>1, SumAgree
    <2>7. Length(r) = Total(Sizes(r), 1 .. n + 1)
      BY <1>1, <2>1
    <2>8. Length(q) = Total(Sizes(q), 1 .. n)
      BY <1>1 DEF n
    <2> QED
      BY <1>3, <2>5, <2>6, <2>7, <2>8, StoreAssumption DEF r
  <1> QED
    BY <1>2, <1>3, <1>4

\* The bytes in memory of the tasks.
Loads(tasks) == [i \in DOMAIN tasks |-> Length(tasks[i].batch)]

LEMMA LoadIsSum ==
    ASSUME NEW t \in Seq(Write)
    PROVE  Load(t) = Total(Loads(t), 1 .. Len(t)) /\ \A i \in 1 .. Len(t) : Loads(t)[i] \in Nat
  <1> DEFINE Z == DOMAIN t
             g == Loads(t)
             R(h) == h = [s \in SUBSET Z |-> IF s = {} THEN 0
                                             ELSE h[s \ {Pick(s)}] + Length(t[Pick(s)].batch)]
  <1>1. Load(t) = (CHOOSE h : R(h))[Z]
    BY DEF Load, FoldSeq, FoldFunction, FoldFunctionOnSet, MapThenFoldSet, Pick
  <1>2. \A i \in Z : g[i] \in Nat /\ g[i] = Length(t[i].batch)
    <2>1. \A i \in Z : t[i] \in Write
      BY ElementOfSeq
    <2>2. \A w \in Write : w.batch \in Seq(Chunk)
      BY DEF Write
    <2> QED
      BY <2>1, <2>2, LengthFacts DEF Loads
  <1>3. Z = 1 .. Len(t) /\ IsFiniteSet(Z)
    BY FS_Interval
  <1>4. \A h : R(h) <=> Backward(h, g, Z)
    <2> TAKE h
    <2>1. \A s \in SUBSET Z : s # {} => g[Pick(s)] = Length(t[Pick(s)].batch)
      BY <1>2 DEF Pick
    <2> QED
      BY <2>1 DEF Backward
  <1> HIDE DEF R, g, Z
  <1>5. R(CHOOSE h : R(h))
    BY <1>2, <1>3, <1>4, FoldIsSum
  <1>6. Load(t) = Total(g, Z)
    BY <1>1, <1>2, <1>3, <1>4, <1>5, FoldIsSum
  <1>7. Total(g, Z) = Total(Loads(t), 1 .. Len(t))
    BY <1>3, Zenon DEF g
  <1> QED
    BY <1>2, <1>3, <1>6, <1>7 DEF g, Z

\* LoadFacts: how the bytes of the tasks change when one starts, is joined or
\* makes progress.
LEMMA LoadFacts ==
    ASSUME NEW t \in Seq(Write)
    PROVE  /\ Load(t) \in Nat
           /\ t = <<>> => Load(t) = 0
           /\ \A w \in Write : Load(Append(t, w)) = Load(t) + Length(w.batch)
           /\ t # <<>> => Load(t) = Length(Head(t).batch) + Load(Tail(t)) /\ Load(Tail(t)) \in Nat
           /\ \A u \in Seq(Write) :
                 Len(u) = Len(t) /\ (\A i \in 1 .. Len(t) : u[i].batch = t[i].batch) => Load(u) = Load(t)
  <1>1. \A r \in Seq(Write) : Load(r) = Total(Loads(r), 1 .. Len(r))
                              /\ \A i \in 1 .. Len(r) : Loads(r)[i] \in Nat
    BY LoadIsSum
  <1>2. t = <<>> => Load(t) = 0
    <2> HAVE t = <<>>
    <2>1. 1 .. Len(t) = {} /\ IsFiniteSet({})
      BY FS_EmptySet
    <2>2. Total(Loads(t), {}) = 0
      BY <2>1, SumFacts
    <2>3. Load(t) = Total(Loads(t), 1 .. Len(t))
      BY <1>1
    <2> QED
      BY <2>1, <2>2, <2>3, Zenon
  <1>3. \A r \in Seq(Write) : Load(r) \in Nat
    <2> TAKE r \in Seq(Write)
    <2>1. IsFiniteSet(1 .. Len(r))
      BY FS_Interval
    <2> QED
      BY <1>1, <2>1, SumFacts
  <1>4. \A r \in Seq(Write) : \A i \in 1 .. Len(r) : Loads(r)[i] = Length(r[i].batch)
    BY DEF Loads
  <1>5. ASSUME NEW u \in Seq(Write), Len(u) = Len(t), \A i \in 1 .. Len(t) : u[i].batch = t[i].batch
        PROVE  Load(u) = Load(t)
    <2>1. IsFiniteSet(1 .. Len(t))
      BY FS_Interval
    <2>2. \A i \in 1 .. Len(t) : Loads(u)[i] \in Nat /\ Loads(u)[i] = Loads(t)[i]
      BY <1>1, <1>4, <1>5
    <2>3. Total(Loads(u), 1 .. Len(t)) = Total(Loads(t), 1 .. Len(t))
      BY <2>1, <2>2, SumAgree
    <2> QED
      BY <1>1, <1>5, <2>3
  <1>6. ASSUME NEW w \in Write
        PROVE  Load(Append(t, w)) = Load(t) + Length(w.batch)
    <2> DEFINE r == Append(t, w)  n == Len(t)
    <2>1. r \in Seq(Write) /\ Len(r) = n + 1 /\ n \in Nat /\ r[n + 1] = w
          /\ \A i \in 1 .. n : r[i] = t[i]
      OBVIOUS
    <2> HIDE DEF r, n
    <2>2. /\ Loads(r)[n + 1] = Length(w.batch)
          /\ \A i \in 1 .. n : Loads(r)[i] = Loads(t)[i]
      BY <1>4, <2>1 DEF n
    <2>3. \A i \in 1 .. n + 1 : Loads(r)[i] \in Nat
      BY <1>1, <2>1
    <2>4. Total(Loads(r), 1 .. n + 1) = Length(w.batch) + Total(Loads(r), 1 .. n)
      BY <2>1, <2>2, <2>3, SumLast
    <2>5. Total(Loads(r), 1 .. n) = Total(Loads(t), 1 .. n)
      <3>1. IsFiniteSet(1 .. n)
        BY <2>1, FS_Interval
      <3>2. \A i \in 1 .. n : Loads(r)[i] \in Nat
        BY <2>1, <2>3
      <3> QED
        BY <2>2, <3>1, <3>2, SumAgree
    <2>6. Load(r) = Total(Loads(r), 1 .. n + 1)
      BY <1>1, <2>1
    <2>7. Load(t) = Total(Loads(t), 1 .. n)
      BY <1>1 DEF n
    <2>8. Length(w.batch) \in Nat
      BY LengthFacts DEF Write
    <2> QED
      BY <1>3, <2>4, <2>5, <2>6, <2>7, <2>8 DEF r
  <1>7. ASSUME t # <<>>
        PROVE  Load(t) = Length(Head(t).batch) + Load(Tail(t)) /\ Load(Tail(t)) \in Nat
    <2> DEFINE r == Tail(t)  n == Len(r)
    <2>1. r \in Seq(Write) /\ Len(t) = n + 1 /\ n \in Nat /\ Head(t) = t[1]
          /\ \A i \in 1 .. n : r[i] = t[i + 1]
      BY <1>7
    <2> HIDE DEF r, n
    <2>2. \A i \in 1 .. n : Loads(r)[i] = Loads(t)[i + 1]
      <3> TAKE i \in 1 .. n
      <3>1. i \in 1 .. Len(r) /\ i + 1 \in 1 .. Len(t)
        BY <2>1 DEF n
      <3> QED
        BY <1>4, <2>1, <3>1
    <2>3. \A i \in 1 .. n + 1 : Loads(t)[i] \in Nat
      BY <1>1, <2>1
    <2>4. Total(Loads(t), 1 .. n + 1) = Loads(t)[1] + Total(Loads(r), 1 .. n)
      BY <2>1, <2>2, <2>3, SumShift
    <2>5. Loads(t)[1] = Length(Head(t).batch)
      BY <1>4, <2>1
    <2>6. Load(t) = Total(Loads(t), 1 .. n + 1)
      BY <1>1, <2>1
    <2>7. Load(r) = Total(Loads(r), 1 .. n)
      BY <1>1, <2>1 DEF n
    <2> QED
      BY <1>3, <2>1, <2>4, <2>5, <2>6, <2>7 DEF r
  <1> QED
    BY <1>2, <1>3, <1>5, <1>6, <1>7

-----------------------------------------------------------------------------
(* Types, with what they need of the steps: a chunk that is pushed was expected, *)
(* and no stream is received outside its phase.  The bounds of the pipeline      *)
(* follow later.                                                                 *)

FillTyped == FillTypeOK /\ IsFiniteSet(fetches)
PipeTyped ==
    /\ step \in Step /\ failed \in BOOLEAN
    /\ expected \in Seq(Chunk) /\ pending \in Seq(Chunk) /\ inflight \in Seq(Write)
    /\ step = "push" => expected # <<>>
PhaseTyped ==
    /\ phase \in Resting \cup {"local", "manifest", "connect", "fill", "pull", "admit", "receive", "ingest"}
    /\ phase # "receive" => step = "closed"
\* FillRests: no state of a fill outlives it.
FillRests == phase # "fill" => FillIdle
Typed == StoreTypeOK /\ FillTyped /\ PipeTyped /\ PhaseTyped /\ FillRests

LEMMA MissingChunks == Missing \in SUBSET Chunk /\ IsFiniteSet(Missing)
  <1>1. Missing \in SUBSET Chunk
    BY DEF Missing
  <1> QED
    BY <1>1, StoreAssumption, FS_Subset

\* What passes the budget check leaves the reserve, and the destination's bytes.
Kept == IF shared THEN Destination + Reserve ELSE Reserve

LEMMA CheckedRoom ==
    ASSUME StoreTypeOK, NEW w \in Nat
    PROVE  /\ CheckState(w) <=> free >= w + Kept
           /\ Kept \in Nat /\ free \in Nat /\ outside \in Nat
           /\ Budget(0, Destination) <=> free >= Kept
  BY StoreAssumption DEF StoreTypeOK, CheckState, Budget, Kept

LEMMA PutTyped ==
    ASSUME StoreTypeOK, NEW c \in Chunk, PutVerified(c), Verified(c) \/ CheckState(Size[c])
    PROVE  StoreTypeOK'
  <1>1. Size[c] \in Nat
    BY StoreAssumption
  <1>2. Verified(c) \/ free >= Size[c]
    BY <1>1, CheckedRoom
  <1> QED
    BY <1>1, <1>2, StoreAssumption DEF StoreTypeOK, PutVerified, Content, Verified

LEMMA InstallTyped ==
    ASSUME StoreTypeOK, NEW c \in Chunk, Install(c)
    PROVE  StoreTypeOK'
  <1>1. Size[c] \in Nat
    BY StoreAssumption
  <1> QED
    BY <1>1, StoreAssumption DEF StoreTypeOK, Install, Content, Verified

LEMMA LossTyped ==
    ASSUME StoreTypeOK, NEW torn \in SUBSET SUBSET Chunk, PowerLoss(torn)
    PROVE  StoreTypeOK'
  <1>1. PICK t \in torn : Bytes(t) <= free /\ free' = free - Bytes(t)
    BY DEF PowerLoss
  <1>2. Bytes(t) \in Nat
    BY BytesFacts
  <1>3. free' \in 0 .. MaxFree
    BY <1>1, <1>2, StoreAssumption DEF StoreTypeOK
  <1> QED
    BY <1>3 DEF StoreTypeOK, PowerLoss, Content

LEMMA ConsumeTyped ==
    ASSUME StoreTypeOK, Consume
    PROVE  StoreTypeOK'
  BY StoreAssumption DEF StoreTypeOK, Consume

LEMMA EnqueueTyped ==
    ASSUME NEW q \in [Source -> SUBSET Chunk], NEW chunks \in SUBSET Chunk,
           NEW E, NEW a \in [chunks -> E]
    PROVE  Enqueue(q, a) \in [Source -> SUBSET Chunk]
  BY DEF Enqueue

LEMMA ReassignTyped ==
    ASSUME NEW q \in [Source -> SUBSET Chunk], NEW chunks \in SUBSET Chunk,
           NEW d, NEW adverts, Reassign(chunks, d, adverts, q), FillTypeOK
    PROVE  queue' \in [Source -> SUBSET Chunk] /\ fault' \in SUBSET {"local", "source"}
  <1>1. CASE \E g \in Schedule(chunks, peers \ d, adverts) : queue' = Enqueue(q, g) /\ fault' = fault
    BY <1>1, EnqueueTyped DEF Schedule, FillTypeOK
  <1>2. CASE fault' = fault \cup {"source"} /\ queue' = q
    BY <1>2 DEF FillTypeOK
  <1> QED
    BY <1>1, <1>2 DEF Reassign

\* The tasks of a source when one of them goes on or ends.
LEMMA CardReplace ==
    ASSUME NEW R, IsFiniteSet(R), NEW f \in R, NEW g
    PROVE  /\ Cardinality((R \ {f}) \cup {g}) <= Cardinality(R)
           /\ Cardinality(R \ {f}) <= Cardinality(R)
           /\ Cardinality(R) \in Nat /\ Cardinality((R \ {f}) \cup {g}) \in Nat
  <1> DEFINE Q == R \ {f}
  <1>1. IsFiniteSet(Q) /\ Cardinality(Q) = Cardinality(R) - 1 /\ Cardinality(R) \in Nat
    BY FS_RemoveElement, FS_CardinalityType
  <1> HIDE DEF Q
  <1>2. Cardinality(Q \cup {g}) \in {Cardinality(Q), Cardinality(Q) + 1}
    BY <1>1, FS_AddElement
  <1>3. Cardinality(Q \cup {g}) <= Cardinality(R) /\ Cardinality(Q \cup {g}) \in Nat
        /\ Cardinality(Q) <= Cardinality(R)
    BY <1>1, <1>2, FS_CardinalityType
  <1> QED
    BY <1>1, <1>3 DEF Q

LEMMA BecomeTyped ==
    ASSUME FillTyped, NEW f \in fetches, NEW g \in Fetch, g.source = f.source,
           Become(f, g), UNCHANGED network
    PROVE  FillTyped'
  <1>1. fetches' \in SUBSET Fetch /\ IsFiniteSet(fetches')
    <2>1. IsFiniteSet(fetches \ {f})
      BY FS_Subset DEF FillTyped
    <2>2. IsFiniteSet((fetches \ {f}) \cup {g})
      BY <2>1, FS_AddElement
    <2> QED
      BY <2>2 DEF Become, FillTyped, FillTypeOK
  <1>2. ASSUME NEW s \in Source
        PROVE  Cardinality({h \in fetches' : h.source = s}) <= Streams
    <2> DEFINE R == {h \in fetches : h.source = s}
    <2>1. IsFiniteSet(R) /\ Cardinality(R) <= Streams
      BY FS_Subset DEF FillTyped, FillTypeOK
    <2>2. CASE s = f.source
      <3>1. {h \in fetches' : h.source = s} = (R \ {f}) \cup {g}
        BY <2>2 DEF Become
      <3>2. f \in R
        BY <2>2
      <3> HIDE DEF R
      <3>3. Cardinality((R \ {f}) \cup {g}) <= Streams
        <4>1. Cardinality((R \ {f}) \cup {g}) <= Cardinality(R) /\ Cardinality(R) \in Nat
              /\ Cardinality((R \ {f}) \cup {g}) \in Nat
          BY <2>1, <3>2, CardReplace
        <4> QED
          BY <2>1, <4>1, FillAssumption
      <3> QED
        BY <3>1, <3>3, Zenon
    <2>3. CASE s # f.source
      <3>1. {h \in fetches' : h.source = s} = R
        BY <2>3 DEF Become
      <3> HIDE DEF R
      <3> QED
        BY <2>1, <3>1, Zenon
    <2> QED
      BY <2>2, <2>3
  <1> QED
    BY <1>1, <1>2 DEF FillTyped, FillTypeOK, network

LEMMA LeaveTyped ==
    ASSUME FillTyped, NEW f \in fetches, fetches' = fetches \ {f},
           UNCHANGED <<held, wanted, peers>>,
           available' \in [Source -> SUBSET Chunk], queue' \in [Source -> SUBSET Chunk],
           remaining' \in SUBSET Chunk, retried' \in [Source -> SUBSET Chunk],
           disabled' \in SUBSET Source, fault' \in SUBSET {"local", "source"}
    PROVE  FillTyped'
  <1>1. fetches' \in SUBSET Fetch /\ IsFiniteSet(fetches')
    BY FS_Subset DEF FillTyped, FillTypeOK
  <1>2. ASSUME NEW s \in Source
        PROVE  Cardinality({h \in fetches' : h.source = s}) <= Streams
    <2> DEFINE R == {h \in fetches : h.source = s}  Q == {h \in fetches' : h.source = s}
    <2>1. IsFiniteSet(R) /\ Cardinality(R) <= Streams /\ Q \subseteq R
      BY FS_Subset DEF FillTyped, FillTypeOK
    <2> HIDE DEF R, Q
    <2>2. Cardinality(Q) <= Cardinality(R) /\ Cardinality(R) \in Nat /\ Cardinality(Q) \in Nat
      BY <2>1, FS_Subset, FS_CardinalityType
    <2>3. Cardinality(Q) <= Streams
      BY <2>1, <2>2, FillAssumption
    <2> QED
      BY <2>3 DEF Q
  <1> QED
    BY <1>1, <1>2 DEF FillTyped, FillTypeOK

LEMMA SpawnTyped ==
    ASSUME FillTyped, NEW s \in Source, Spawn(s)
    PROVE  FillTyped'
  <1>1. PICK b \in SUBSET queue[s] :
           /\ queue' = [queue EXCEPT ![s] = @ \ b]
           /\ fetches' = fetches \cup {[source |-> s, assigned |-> b, at |-> "ask",
                                        present |-> {}, missing |-> {}]}
    BY DEF Spawn
  <1> DEFINE g == [source |-> s, assigned |-> b, at |-> "ask", present |-> {}, missing |-> {}]
  <1>2. g \in Fetch
    BY DEF Fetch, FillTyped, FillTypeOK
  <1>3. fetches' \in SUBSET Fetch /\ IsFiniteSet(fetches')
    BY <1>1, <1>2, FS_AddElement DEF FillTyped, FillTypeOK
  <1>4. g.source = s
    OBVIOUS
  <1> HIDE DEF g
  <1>5. fetches' = fetches \cup {g}
    BY <1>1 DEF g
  <1>6. ASSUME NEW r \in Source
        PROVE  Cardinality({h \in fetches' : h.source = r}) <= Streams
    <2> DEFINE R == {h \in fetches : h.source = r}
    <2>1. IsFiniteSet(R) /\ Cardinality(R) <= Streams /\ Cardinality(R) \in Nat
      BY FS_Subset, FS_CardinalityType DEF FillTyped, FillTypeOK
    <2>2. CASE r = s
      <3>1. {h \in fetches' : h.source = r} = R \cup {g}
        BY <1>4, <1>5, <2>2
      <3>2. Cardinality(R) < Streams
        BY <2>2 DEF Spawn, CanSpawn, Running
      <3> HIDE DEF R
      <3>3. Cardinality(R \cup {g}) <= Streams
        <4>1. Cardinality(R \cup {g}) \in {Cardinality(R), Cardinality(R) + 1}
          BY <2>1, FS_AddElement
        <4> QED
          BY <2>1, <3>2, <4>1, FillAssumption
      <3> QED
        BY <3>1, <3>3, Zenon
    <2>3. CASE r # s
      <3>1. {h \in fetches' : h.source = r} = R
        BY <1>4, <1>5, <2>3
      <3> HIDE DEF R
      <3> QED
        BY <2>1, <3>1, Zenon
    <2> QED
      BY <2>2, <2>3
  <1>7. queue' \in [Source -> SUBSET Chunk]
    BY <1>1 DEF FillTyped, FillTypeOK
  <1> QED
    BY <1>3, <1>6, <1>7 DEF FillTyped, FillTypeOK, Spawn

\* The fill's steps, one lemma each.
LEMMA OpenTyped ==
    ASSUME FillTyped, fetches = {}, OpenFill
    PROVE  FillTyped'
  <1>1. Missing \in SUBSET Chunk
    BY MissingChunks
  <1>2. PICK p \in SUBSET Source, has \in [Honest -> SUBSET Missing] :
        \E a \in {f \in [Source -> SUBSET Missing] :
                     \A s \in Source : f[s] \in IF s \in p THEN Adverts(s, has, Missing) ELSE {{}}} :
           /\ Honest \subseteq p /\ p # {}
           /\ peers' = p /\ available' = a
           /\ held' = [s \in Source |-> IF s \in Honest THEN has[s] ELSE {}]
           /\ \E g \in Schedule(Advertised(Missing, p, a), p, a) : queue' = Enqueue(NoChunks, g)
    BY DEF OpenFill, Answered
  <1>3. peers' \in SUBSET Source /\ available' \in [Source -> SUBSET Chunk]
        /\ held' \in [Source -> SUBSET Chunk]
    BY <1>1, <1>2, FillAssumption
  <1>4. queue' \in [Source -> SUBSET Chunk]
    <2>1. NoChunks \in [Source -> SUBSET Chunk]
      BY DEF NoChunks
    <2>2. \A p1, a : Advertised(Missing, p1, a) \in SUBSET Chunk
      BY <1>1 DEF Advertised
    <2> QED
      BY <1>2, <2>1, <2>2, EnqueueTyped DEF Schedule
  <1> QED
    BY <1>1, <1>3, <1>4 DEF FillTyped, FillTypeOK, OpenFill

LEMMA ProgressTyped ==
    ASSUME Typed, NEW f \in fetches, Progress(f)
    PROVE  FillTyped' /\ StoreTypeOK'
  <1> USE DEF Typed
  <1>1. f \in Fetch
    BY DEF FillTyped, FillTypeOK
  <1>2. CASE Reply(f) /\ UNCHANGED store
    <2>1. PICK p \in SUBSET f.assigned, m \in SUBSET f.assigned :
             Become(f, [f EXCEPT !.at = "read", !.present = p, !.missing = m])
      BY <1>2 DEF Reply
    <2> DEFINE g == [f EXCEPT !.at = "read", !.present = p, !.missing = m]
    <2>2. g \in Fetch /\ g.source = f.source
      BY <1>1 DEF Fetch
    <2>3. UNCHANGED network
      BY <1>2 DEF Reply
    <2> QED
      BY <1>2, <2>1, <2>2, <2>3, BecomeTyped DEF StoreTypeOK, store
  <1>3. CASE SourceFails(f) /\ UNCHANGED store
    <2> DEFINE g == [f EXCEPT !.at = "source"]
    <2>2. g \in Fetch /\ g.source = f.source
      BY <1>1 DEF Fetch, Ended
    <2> QED
      BY <1>3, <2>2, BecomeTyped DEF StoreTypeOK, store, SourceFails
  <1>4. CASE StoreFails(f) /\ UNCHANGED store
    <2> DEFINE g == [f EXCEPT !.at = "local"]
    <2>2. g \in Fetch /\ g.source = f.source
      BY <1>1 DEF Fetch, Ended
    <2> QED
      BY <1>4, <2>2, BecomeTyped DEF StoreTypeOK, store, StoreFails
  <1>5. CASE FetchEnds(f) /\ UNCHANGED store
    <2> DEFINE g == [f EXCEPT !.at = "ok"]
    <2>2. g \in Fetch /\ g.source = f.source
      BY <1>1 DEF Fetch, Ended
    <2> QED
      BY <1>5, <2>2, BecomeTyped DEF StoreTypeOK, store, FetchEnds
  <1>6. ASSUME NEW c \in Chunk, StoreChunk(f, c)
        PROVE  FillTyped' /\ StoreTypeOK'
    <2> DEFINE g == [f EXCEPT !.present = @ \ {c}]
    <2>1. g \in Fetch /\ g.source = f.source
      BY <1>1 DEF Fetch
    <2>2. FillTyped'
      BY <1>6, <2>1, BecomeTyped DEF StoreChunk
    <2>3. StoreTypeOK'
      BY <1>6, PutTyped DEF StoreChunk
    <2> QED
      BY <2>2, <2>3
  <1> QED
    BY <1>2, <1>3, <1>4, <1>5, <1>6 DEF Progress

\* What a source error leaves to be asked for again, and what it moves.
StillOf(f) == {c \in f.assigned : ~Verified(c)}
AgainOf(f) == IF f.source \in disabled THEN {} ELSE StillOf(f) \ retried[f.source]
MovedOf(f) == StillOf(f) \ AgainOf(f)
ClearedQueue(f) == [queue EXCEPT ![f.source] = {}]

\* JoinSource in the words of the proof.
LEMMA JoinSourceIs ==
    ASSUME NEW f, JoinSource(f)
    PROVE  /\ f.at = "source" /\ fetches' = fetches \ {f}
           /\ remaining' = (remaining \ f.assigned) \cup StillOf(f)
           /\ retried' = [retried EXCEPT ![f.source] = @ \cup AgainOf(f)]
           /\ disabled' = IF MovedOf(f) = {} THEN disabled ELSE disabled \cup {f.source}
           /\ UNCHANGED <<held, wanted, peers, available>>
           /\ \/ /\ MovedOf(f) = {} /\ fault' = fault
                 /\ queue' = [queue EXCEPT ![f.source] = @ \cup AgainOf(f)]
              \/ /\ MovedOf(f) # {} /\ "source" \in fault /\ fault' = fault
                 /\ queue' = ClearedQueue(f)
              \/ /\ MovedOf(f) # {}
                 /\ Reassign(MovedOf(f) \cup queue[f.source] \cup AgainOf(f), disabled',
                             available, ClearedQueue(f))
  BY DEF JoinSource, StillOf, AgainOf, MovedOf, ClearedQueue

LEMMA JoinTyped ==
    ASSUME FillTyped, NEW f \in fetches, Join(f)
    PROVE  FillTyped'
  <1>1. f \in Fetch /\ FillTypeOK
    BY DEF FillTyped, FillTypeOK
  <1>2. f.source \in Source /\ f.assigned \in SUBSET Chunk /\ f.missing \in SUBSET Chunk
    BY <1>1 DEF Fetch
  <1>3. CASE JoinOk(f)
    <2>1. available' \in [Source -> SUBSET Chunk]
      BY <1>1, <1>3 DEF JoinOk, FillTypeOK
    <2>2. queue' \in [Source -> SUBSET Chunk] /\ fault' \in SUBSET {"local", "source"}
      <3>1. CASE UNCHANGED <<queue, fault>>
        BY <1>1, <3>1 DEF FillTypeOK
      <3>2. CASE Reassign(f.missing, disabled, available', queue)
        <4>1. queue \in [Source -> SUBSET Chunk]
          BY <1>1 DEF FillTypeOK
        <4> QED
          BY <1>1, <1>2, <3>2, <4>1, ReassignTyped
      <3> QED
        BY <1>3, <3>1, <3>2 DEF JoinOk
    <2> QED
      BY <1>1, <1>3, <2>1, <2>2, LeaveTyped DEF JoinOk, FillTypeOK
  <1>4. CASE JoinSource(f)
    <2>1. StillOf(f) \in SUBSET Chunk /\ AgainOf(f) \in SUBSET Chunk /\ MovedOf(f) \in SUBSET Chunk
      BY <1>2 DEF StillOf, AgainOf, MovedOf
    <2>2. queue' \in [Source -> SUBSET Chunk] /\ fault' \in SUBSET {"local", "source"}
      <3>1. CASE queue' = [queue EXCEPT ![f.source] = @ \cup AgainOf(f)] /\ fault' = fault
        BY <1>1, <1>2, <2>1, <3>1 DEF FillTypeOK
      <3>2. CASE queue' = ClearedQueue(f) /\ fault' = fault
        BY <1>1, <1>2, <3>2 DEF FillTypeOK, ClearedQueue
      <3>3. CASE Reassign(MovedOf(f) \cup queue[f.source] \cup AgainOf(f), disabled',
                          available, ClearedQueue(f))
        <4>1. ClearedQueue(f) \in [Source -> SUBSET Chunk]
              /\ MovedOf(f) \cup queue[f.source] \cup AgainOf(f) \in SUBSET Chunk
          BY <1>1, <1>2, <2>1 DEF FillTypeOK, ClearedQueue
        <4> QED
          BY <1>1, <3>3, <4>1, ReassignTyped
      <3> QED
        BY <1>4, <3>1, <3>2, <3>3, JoinSourceIs
    <2>3. remaining' \in SUBSET Chunk /\ retried' \in [Source -> SUBSET Chunk]
          /\ disabled' \in SUBSET Source /\ available' \in [Source -> SUBSET Chunk]
      <3>1. /\ remaining' = (remaining \ f.assigned) \cup StillOf(f)
            /\ retried' = [retried EXCEPT ![f.source] = @ \cup AgainOf(f)]
            /\ disabled' = IF MovedOf(f) = {} THEN disabled ELSE disabled \cup {f.source}
            /\ available' = available
        BY <1>4, JoinSourceIs
      <3> QED
        BY <1>1, <1>2, <2>1, <3>1 DEF FillTypeOK
    <2>4. fetches' = fetches \ {f} /\ UNCHANGED <<held, wanted, peers>>
      BY <1>4, JoinSourceIs
    <2> QED
      BY <1>1, <2>2, <2>3, <2>4, LeaveTyped
  <1>5. CASE JoinLocal(f)
    BY <1>1, <1>5, LeaveTyped DEF JoinLocal, FillTypeOK
  <1> QED
    BY <1>3, <1>4, <1>5 DEF Join

LEMMA RestTyped ==
    /\ FillIdle => FillTyped
    /\ FillReset => FillTyped'
    /\ PipeIdle => PipeTyped
    /\ PipeReset => PipeTyped'
  <1>1. FillTypeOK /\ IsFiniteSet(fetches) <=> FillTyped
    BY DEF FillTyped
  <1>2. \A s \in Source : Cardinality({f \in {} : f.source = s}) = 0
    <2>1. \A s \in Source : {f \in {} : f.source = s} = {}
      OBVIOUS
    <2> QED
      BY <2>1, FS_EmptySet
  <1>3. FillIdle => FillTyped
    <2> HAVE FillIdle
    <2>1. \A s \in Source : Cardinality({f \in fetches : f.source = s}) = 0
      BY <1>2 DEF FillIdle
    <2> QED
      BY <2>1, FS_EmptySet, FillAssumption DEF FillIdle, NoChunks, FillTyped, FillTypeOK
  <1>4. FillReset => FillTyped'
    <2> HAVE FillReset
    <2>1. \A s \in Source : Cardinality({f \in fetches' : f.source = s}) = 0
      BY <1>2 DEF FillReset
    <2> QED
      BY <2>1, FS_EmptySet, FillAssumption DEF FillReset, NoChunks, FillTyped, FillTypeOK
  <1>5. PipeIdle => PipeTyped
    <2>1. <<>> \in Seq(Chunk) /\ <<>> \in Seq(Write) /\ "closed" \in Step
      BY DEF Step
    <2> QED
      BY <2>1, Zenon DEF PipeIdle, PipeTyped
  <1>6. PipeReset => PipeTyped'
    <2>1. <<>> \in Seq(Chunk) /\ <<>> \in Seq(Write) /\ "closed" \in Step
      BY DEF Step
    <2> QED
      BY <2>1, Zenon DEF PipeReset, PipeTyped
  <1> QED
    BY <1>3, <1>4, <1>5, <1>6

\* The elements of a sequence when it grows at its end or loses its head.
LEMMA RangeEnds ==
    ASSUME NEW E, NEW q \in Seq(E)
    PROVE  /\ Range(q) \in SUBSET E /\ Range(<<>>) = {}
           /\ \A c \in E : Append(q, c) \in Seq(E) /\ Range(Append(q, c)) = Range(q) \cup {c}
           /\ q # <<>> => /\ Head(q) \in E /\ Tail(q) \in Seq(E)
                          /\ Range(q) = {Head(q)} \cup Range(Tail(q))
  <1>1. \A r \in Seq(E) : Range(r) = {r[i] : i \in 1 .. Len(r)} /\ \A i \in 1 .. Len(r) : r[i] \in E
    BY DEF Range
  <1>2. Range(<<>>) = {} /\ Range(q) \in SUBSET E
    BY <1>1 DEF Range
  <1>3. ASSUME NEW c \in E
        PROVE  Append(q, c) \in Seq(E) /\ Range(Append(q, c)) = Range(q) \cup {c}
    <2> DEFINE r == Append(q, c)  n == Len(q)
    <2>1. r \in Seq(E) /\ Len(r) = n + 1 /\ n \in Nat /\ r[n + 1] = c
          /\ \A i \in 1 .. n : r[i] = q[i]
      OBVIOUS
    <2> HIDE DEF r
    <2>2. {r[i] : i \in 1 .. n + 1} = {q[i] : i \in 1 .. n} \cup {c}
      BY <2>1
    <2> QED
      BY <1>1, <2>1, <2>2 DEF r
  <1>4. ASSUME q # <<>>
        PROVE  Head(q) \in E /\ Tail(q) \in Seq(E) /\ Range(q) = {Head(q)} \cup Range(Tail(q))
    <2> DEFINE r == Tail(q)  n == Len(r)
    <2>1. r \in Seq(E) /\ Len(q) = n + 1 /\ n \in Nat /\ Head(q) = q[1] /\ q[1] \in E
          /\ \A i \in 1 .. n : r[i] = q[i + 1]
      BY <1>4
    <2> HIDE DEF r, n
    <2>2. {q[i] : i \in 1 .. n + 1} = {q[1]} \cup {r[i] : i \in 1 .. n}
      <3>1. \A i \in 1 .. n + 1 : i # 1 => i - 1 \in 1 .. n /\ q[i] = r[i - 1]
        <4> SUFFICES ASSUME NEW i \in 1 .. n + 1, i # 1 PROVE i - 1 \in 1 .. n /\ q[i] = r[i - 1]
          OBVIOUS
        <4>1. i - 1 \in 1 .. n /\ (i - 1) + 1 = i
          BY <2>1
        <4>2. r[i - 1] = q[(i - 1) + 1]
          BY <2>1, <4>1
        <4> QED
          BY <4>1, <4>2
      <3>2. \A i \in 1 .. n : i + 1 \in 1 .. n + 1
        BY <2>1
      <3>3. 1 \in 1 .. n + 1
        BY <2>1
      <3>4. \A x : (\E i \in 1 .. n + 1 : x = q[i]) => x = q[1] \/ \E i \in 1 .. n : x = r[i]
        BY <3>1
      <3>5. \A x : (x = q[1] \/ \E i \in 1 .. n : x = r[i]) => \E i \in 1 .. n + 1 : x = q[i]
        BY <2>1, <3>2, <3>3
      <3> QED
        BY <3>4, <3>5
    <2>3. Range(q) = {q[i] : i \in 1 .. n + 1} /\ Range(r) = {r[i] : i \in 1 .. n}
      BY <1>1, <2>1 DEF n
    <2> QED
      BY <2>1, <2>2, <2>3 DEF r
  <1> QED
    BY <1>2, <1>3, <1>4

\* InOrderFacts: the pull asks for exactly the missing chunks of the manifest.
LEMMA InOrderFacts ==
    ASSUME NEW m
    PROVE  InOrder(m) \in Seq(Chunk) /\ Range(InOrder(m)) = m \cap Chunk
  <1> DEFINE D == DOMAIN Manifest
             add(q, c) == IF c \in m /\ c \notin Range(q) THEN Append(q, c) ELSE q
             R(h) == h = [s \in SUBSET D |->
                             IF s = {} THEN <<>> ELSE add(h[s \ {Max(s)}], Manifest[Max(s)])]
  <1>1. InOrder(m) = (CHOOSE h : R(h))[D]
    BY DEF InOrder, FoldLeft, MapThenFoldSet
  <1>2. D = 1 .. Len(Manifest) /\ IsFiniteSet(D) /\ Len(Manifest) \in Nat
        /\ \A i \in D : Manifest[i] \in Chunk
    <2>1. Manifest \in Seq(Chunk)
      BY PipelineAssumption
    <2>2. D = 1 .. Len(Manifest) /\ Len(Manifest) \in Nat /\ \A i \in D : Manifest[i] \in Chunk
      BY <2>1
    <2> HIDE DEF D
    <2> QED
      BY <2>2, FS_Interval
  <1>3. \A s \in SUBSET D : s # {} => Max(s) \in s /\ s \ {Max(s)} \in SUBSET D
    <2> SUFFICES ASSUME NEW s \in SUBSET D, s # {} PROVE Max(s) \in s
      OBVIOUS
    <2> DEFINE n == Len(Manifest)
               U == {n - x : x \in s}
    <2>1. U \in SUBSET Nat /\ U # {}
      BY <1>2
    <2>2. PICK u \in U : \A v \in U : u <= v
      BY <2>1, LeastNatural
    <2>3. PICK x \in s : u = n - x
      BY <2>2
    <2>4. \A y \in s : x >= y
      <3> TAKE y \in s
      <3>1. n - x <= n - y
        BY <2>2, <2>3
      <3> QED
        BY <1>2, <3>1
    <2> QED
      BY <2>4 DEF Max
  <1>4. \A q \in Seq(Chunk), c \in Chunk :
           add(q, c) \in Seq(Chunk) /\ Range(add(q, c)) = Range(q) \cup (m \cap {c})
    <2> TAKE q \in Seq(Chunk), c \in Chunk
    <2>1. Append(q, c) \in Seq(Chunk) /\ Range(Append(q, c)) = Range(q) \cup {c}
      BY RangeEnds
    <2> QED
      BY <2>1
  <1> DEFINE combine == [x \in D \X Seq(Chunk) |-> add(x[2], Manifest[x[1]])]
             pick == [s \in SUBSET D |-> Max(s)]
  <1>5. combine \in [D \X Seq(Chunk) -> Seq(Chunk)]
    BY <1>2, <1>4
  <1>6. \A i \in D, q \in Seq(Chunk) : combine[<<i, q>>] = add(q, Manifest[i])
    OBVIOUS
  <1>7. \A s \in SUBSET D : s # {} => pick[s] \in s /\ pick[s] = Max(s)
    BY <1>3
  <1> HIDE DEF D, add, combine, pick
  <1>8. PICK f \in [SUBSET D -> Seq(Chunk)] : IsFold(f, combine, pick, <<>>, SUBSET D)
    <2>1. <<>> \in Seq(Chunk)
      OBVIOUS
    <2> QED
      BY <1>2, <1>5, <1>7, <2>1, FoldExists
  <1>9. R(f)
    <2>1. \A s \in SUBSET D : f[s] = IF s = {} THEN <<>> ELSE add(f[s \ {Max(s)}], Manifest[Max(s)])
      BY <1>3, <1>6, <1>7, <1>8 DEF IsFold
    <2> QED
      BY <1>8, <2>1
  <1>10. R(CHOOSE h : R(h))
    BY <1>9
  <1> DEFINE g == CHOOSE h : R(h)
  <1>11. \A s \in SUBSET D : g[s] = IF s = {} THEN <<>> ELSE add(g[s \ {Max(s)}], Manifest[Max(s)])
    BY <1>10
  <1> HIDE DEF R, g
  <1> DEFINE Good(s) == g[s] \in Seq(Chunk) /\ Range(g[s]) = m \cap {Manifest[i] : i \in s}
             K == {s \in SUBSET D : ~Good(s)}
  <1>12. K = {}
    <2> SUFFICES ASSUME K # {} PROVE FALSE
      OBVIOUS
    <2>1. PICK s \in K : \A t \in K : t \subseteq s => t = s
      <3>1. K \in SUBSET SUBSET D
        OBVIOUS
      <3>2. IsFiniteSet(D)
        BY <1>2
      <3> HIDE DEF K
      <3> QED
        BY <3>1, <3>2, LeastSubset
    <2>2. CASE s = {}
      <3>1. g[s] = <<>>
        BY <1>11, <2>1, <2>2
      <3>2. Range(<<>>) = {} /\ <<>> \in Seq(Chunk)
        BY DEF Range
      <3>3. Good(s)
        BY <2>2, <3>1, <3>2
      <3> QED
        BY <2>1, <3>3
    <2>3. CASE s # {}
      <3> DEFINE x == Max(s)  r == s \ {x}
      <3>1. x \in s /\ r \in SUBSET D /\ r # s /\ x \in D
        BY <1>3, <2>1, <2>3
      <3>2. Good(r)
        BY <2>1, <3>1
      <3>3. g[s] = add(g[r], Manifest[x])
        BY <1>11, <2>1, <2>3
      <3>4. g[s] \in Seq(Chunk) /\ Range(g[s]) = Range(g[r]) \cup (m \cap {Manifest[x]})
        BY <1>2, <1>4, <3>1, <3>2, <3>3
      <3>5. {Manifest[i] : i \in s} = {Manifest[i] : i \in r} \cup {Manifest[x]}
        BY <3>1
      <3>6. Range(g[s]) = m \cap {Manifest[i] : i \in s}
        BY <3>2, <3>4, <3>5
      <3> QED
        BY <2>1, <3>4, <3>6
    <2> QED
      BY <2>2, <2>3
  <1>13. Good(D)
    BY <1>12
  <1>14. {Manifest[i] : i \in D} = Chunk
    BY PipelineAssumption DEF D, Range
  <1> QED
    BY <1>1, <1>13, <1>14 DEF g

\* A task goes on, ends or fails: what it may do, in the words of the proof.
NextWrite(i, w) ==
    /\ inflight' = [inflight EXCEPT ![i] = w]
    /\ inflight[i].at = "run" /\ w.batch = inflight[i].batch
    /\ \/ /\ w.at = "run" /\ inflight[i].todo # <<>>
          /\ w.todo = Tail(inflight[i].todo) /\ Install(Head(inflight[i].todo))
       \/ /\ w.at = "ok" /\ inflight[i].todo = <<>> /\ w.todo = <<>>
          /\ Sync(Range(inflight[i].batch))
       \/ /\ w.at = "err" /\ w.todo = inflight[i].todo
          /\ Sync(Range(inflight[i].batch) \ Range(inflight[i].todo))

LEMMA TaskIs ==
    ASSUME PipeTyped, NEW i \in DOMAIN inflight, Task(i)
    PROVE  UNCHANGED task /\ \E w \in Write : NextWrite(i, w)
  <1>1. inflight[i] \in Write
    BY ElementOfSeq DEF PipeTyped
  <1>2. CASE WriteChunk(i)
    <2> DEFINE w == [inflight[i] EXCEPT !.todo = Tail(@)]
    <2>1. w \in Write /\ w.batch = inflight[i].batch /\ w.at = "run" /\ w.todo = Tail(inflight[i].todo)
      BY <1>1, <1>2 DEF WriteChunk, Write
    <2>2. inflight' = [inflight EXCEPT ![i] = w]
      BY <1>2 DEF WriteChunk
    <2> HIDE DEF w
    <2>3. NextWrite(i, w)
      BY <1>2, <2>1, <2>2 DEF WriteChunk, NextWrite
    <2> QED
      BY <1>2, <2>1, <2>3 DEF WriteChunk
  <1>3. CASE WriteEnds(i)
    <2> DEFINE w == [inflight[i] EXCEPT !.at = "ok"]
    <2>1. w \in Write /\ w.batch = inflight[i].batch /\ w.at = "ok" /\ w.todo = inflight[i].todo
      BY <1>1, <1>3 DEF WriteEnds, Write
    <2>2. inflight' = [inflight EXCEPT ![i] = w]
      BY <1>3 DEF WriteEnds
    <2> HIDE DEF w
    <2>3. NextWrite(i, w)
      BY <1>3, <2>1, <2>2 DEF WriteEnds, NextWrite
    <2> QED
      BY <1>3, <2>1, <2>3 DEF WriteEnds
  <1>4. CASE WriteFails(i)
    <2> DEFINE w == [inflight[i] EXCEPT !.at = "err"]
    <2>1. w \in Write /\ w.batch = inflight[i].batch /\ w.at = "err" /\ w.todo = inflight[i].todo
      BY <1>1, <1>4 DEF WriteFails, Write
    <2>2. inflight' = [inflight EXCEPT ![i] = w]
      BY <1>4 DEF WriteFails
    <2> HIDE DEF w
    <2>3. NextWrite(i, w)
      BY <1>4, <2>1, <2>2 DEF WriteFails, NextWrite
    <2> QED
      BY <1>4, <2>1, <2>3 DEF WriteFails
  <1> QED
    BY <1>2, <1>3, <1>4 DEF Task

LEMMA TaskTyped ==
    ASSUME Typed, NEW i \in DOMAIN inflight, Task(i)
    PROVE  PipeTyped' /\ StoreTypeOK'
  <1>1. UNCHANGED task
    BY TaskIs DEF Typed
  <1>2. PICK w \in Write : NextWrite(i, w)
    BY TaskIs DEF Typed
  <1>3. inflight[i] \in Write /\ i \in 1 .. Len(inflight)
    BY ElementOfSeq DEF Typed, PipeTyped
  <1>4. inflight' \in Seq(Write)
    <2>1. inflight \in Seq(Write) /\ inflight' = [inflight EXCEPT ![i] = w]
      BY <1>2 DEF Typed, PipeTyped, NextWrite
    <2> QED
      BY <1>3, <2>1, ExceptSeq
  <1>5. PipeTyped'
    BY <1>1, <1>4 DEF Typed, PipeTyped, task
  <1>6. CASE \E chunks : Sync(chunks)
    BY <1>5, <1>6 DEF Sync, Typed, StoreTypeOK
  <1>7. CASE inflight[i].todo # <<>> /\ Install(Head(inflight[i].todo))
    <2>1. Head(inflight[i].todo) \in Chunk
      BY <1>3, <1>7 DEF Write
    <2> QED
      BY <1>5, <1>7, <2>1, InstallTyped DEF Typed
  <1> QED
    BY <1>2, <1>5, <1>6, <1>7 DEF NextWrite

LEMMA FlushTyped ==
    ASSUME PipeTyped, NEW then \in Step, then = "push" => expected # <<>>, Flush(then)
    PROVE  PipeTyped' /\ UNCHANGED store
  <1>1. [batch |-> pending, todo |-> pending, at |-> "run"] \in Write
    BY DEF PipeTyped, Write
  <1>2. Append(inflight, [batch |-> pending, todo |-> pending, at |-> "run"]) \in Seq(Write)
    BY <1>1, AppendProperties DEF PipeTyped
  <1>3. inflight' \in Seq(Write)
    BY <1>2 DEF Flush, PipeTyped
  <1>4. pending' \in Seq(Chunk) /\ expected' \in Seq(Chunk)
    BY DEF Flush, PipeTyped
  <1>5. step' \in Step /\ failed' \in BOOLEAN /\ (step' = "push" => expected' # <<>>)
    BY DEF Flush, PipeTyped, Step
  <1> QED
    BY <1>3, <1>4, <1>5 DEF PipeTyped, Flush

LEMMA JoinOldestTyped ==
    ASSUME PipeTyped, NEW then \in Step, then = "push" => expected # <<>>, JoinOldest(then)
    PROVE  PipeTyped' /\ UNCHANGED store
  <1>1. inflight' \in Seq(Write)
    BY HeadTailProperties DEF JoinOldest, PipeTyped
  <1>2. step' \in Step /\ failed' \in BOOLEAN /\ (step' = "push" => expected' # <<>>)
    BY DEF JoinOldest, PipeTyped, Step
  <1> QED
    BY <1>1, <1>2 DEF PipeTyped, JoinOldest

LEMMA ReceiverTyped ==
    ASSUME PipeTyped, Receiver
    PROVE  PipeTyped' /\ UNCHANGED store
  <1> USE DEF PipeTyped
  <1>1. CASE Receive \/ ReceiveFails \/ ReceivedAll
    BY <1>1 DEF Receive, ReceiveFails, ReceivedAll, Step
  <1>2. CASE MakeRoom
    <2>1. "push" \in Step
      BY DEF Step
    <2> QED
      BY <1>2, <2>1, FlushTyped, JoinOldestTyped DEF MakeRoom
  <1>3. CASE FlushBatch
    <2>1. "flush" \in Step /\ "recv" \in Step
      BY DEF Step
    <2> QED
      BY <1>3, <2>1, FlushTyped, JoinOldestTyped DEF FlushBatch
  <1>4. CASE FinishFlush
    <2>1. "close" \in Step /\ <<>> \in Seq(Chunk)
      BY DEF Step
    <2>2. CASE Flush("close")
      BY <2>1, <2>2, FlushTyped
    <2>3. CASE ~Flush("close")
      <3>1. Len(inflight) \in Nat /\ MaxInflight \in Nat \ {0}
        BY PipelineAssumption
      <3>2. Len(inflight) >= MaxInflight /\ inflight' = Tail(inflight) /\ UNCHANGED <<expected, store>>
        BY <1>4, <2>3 DEF FinishFlush
      <3>3. inflight # <<>>
        BY <3>1, <3>2
      <3>4. inflight' \in Seq(Write)
        BY <3>2, <3>3, HeadTailProperties
      <3>5. step' \in Step /\ failed' \in BOOLEAN /\ pending' \in Seq(Chunk) /\ step' # "push"
        BY <1>4, <2>1, <2>3 DEF FinishFlush
      <3> QED
        BY <3>2, <3>4, <3>5
    <2> QED
      BY <2>2, <2>3
  <1>5. CASE Queue
    <2>1. Head(expected) \in Chunk /\ Tail(expected) \in Seq(Chunk)
      BY <1>5, HeadTailProperties DEF Queue
    <2>2. pending' \in Seq(Chunk) /\ expected' \in Seq(Chunk)
      BY <1>5, <2>1, AppendProperties DEF Queue
    <2>3. step' \in {"flush", "recv"} /\ UNCHANGED <<inflight, failed, store>>
      BY <1>5, Zenon DEF Queue
    <2> QED
      BY <2>2, <2>3 DEF Step
  <1>6. CASE Drain
    BY <1>6, EmptySeq DEF Drain, Step
  <1>7. CASE Finish
    BY <1>7, EmptySeq DEF Finish, Step
  <1> QED
    BY <1>1, <1>2, <1>3, <1>4, <1>5, <1>6, <1>7 DEF Receiver

LEMMA InitTyped == Init => Typed
  <1> HAVE Init
  <1>1. StoreTypeOK
    BY StoreAssumption DEF Init, StoreInit, StoreTypeOK
  <1>2. FillTyped /\ PipeTyped
    BY RestTyped DEF Init
  <1>3. PhaseTyped
    BY DEF Init, PhaseTyped, PipeIdle, Resting
  <1>4. FillRests
    BY DEF Init, FillRests
  <1> QED
    BY <1>1, <1>2, <1>3, <1>4 DEF Typed

\* The steps that move one chunk or none from a list to the store.
LEMMA IngestTyped ==
    ASSUME Typed, Ingest
    PROVE  PipeTyped' /\ StoreTypeOK'
  <1>1. Head(expected) \in Chunk /\ Tail(expected) \in Seq(Chunk)
    BY HeadTailProperties DEF Ingest, Typed, PipeTyped
  <1>2. step = "closed"
    BY DEF Typed, PhaseTyped, Ingest
  <1>3. PipeTyped'
    BY <1>1, <1>2 DEF Ingest, Typed, PipeTyped
  <1>4. StoreTypeOK'
    BY <1>1, PutTyped DEF Ingest, Typed
  <1> QED
    BY <1>3, <1>4

\* What is left alone keeps its type.
LEMMA SamePipe == PipeTyped /\ UNCHANGED pipe => PipeTyped'
  BY Zenon DEF PipeTyped, pipe
LEMMA SameFill == FillTyped /\ UNCHANGED fill => FillTyped'
  BY DEF FillTyped, FillTypeOK, fill
LEMMA SameStore == StoreTypeOK /\ UNCHANGED store => StoreTypeOK'
  BY DEF StoreTypeOK, store
LEMMA FillStaysIdle == FillRests /\ phase # "fill" /\ UNCHANGED fill => FillRests'
  BY DEF FillRests, FillIdle, fill, NoChunks

LEMMA StartTyped ==
    ASSUME Typed, StartReceive
    PROVE  Typed'
  <1>1. StoreTypeOK' /\ FillTyped' /\ FillRests'
    BY SameFill, SameStore, FillStaysIdle DEF StartReceive, Typed
  <1>2. CASE OpenPipe(Missing) /\ phase' = "receive"
    <2>1. PipeTyped'
      BY <1>2, InOrderFacts DEF OpenPipe, Typed, PipeTyped, Step
    <2>2. PhaseTyped'
      BY <1>2 DEF PhaseTyped
    <2> QED
      BY <1>1, <2>1, <2>2 DEF Typed
  <1>3. CASE UNCHANGED pipe /\ phase' = "failed" /\ phase = "admit"
    <2>1. PipeTyped'
      BY <1>3, Zenon DEF Typed, PipeTyped, pipe
    <2>2. PhaseTyped'
      BY <1>3 DEF PhaseTyped, Typed, pipe, Resting
    <2> QED
      BY <1>1, <2>1, <2>2 DEF Typed
  <1> QED
    BY <1>2, <1>3 DEF StartReceive

\* Steps of the attempt that only move its phase.
Turn ==
    \/ Begin \/ PullManifest \/ NothingMissing \/ NoSwarm \/ PullRecord \/ AcceptPush
    \/ Ingested \/ Retry

LEMMA TurnIs ==
    ASSUME Turn
    PROVE  /\ UNCHANGED <<store, fill, pipe>> /\ phase \notin {"fill", "receive"}
           /\ phase' \in Resting \cup {"local", "manifest", "connect", "pull", "admit"}
           /\ phase = "ingest" => expected = <<>>
  BY DEF Turn, Begin, PullManifest, NothingMissing, NoSwarm, PullRecord, AcceptPush, Ingested, Retry, Resting

LEMMA TornMissing == \A t \in Torn : t \in SUBSET Missing
  <1> DEFINE d == {e \in Missing \cap (Ingesting \cup UNION {f.present : f \in fetches}) :
                     CheckState(Size[e])}
  <1>1. Torn = {x \in SUBSET Writing : x \subseteq Missing} \cup {{c} : c \in d}
    BY DEF Torn
  <1>2. d \subseteq Missing
    OBVIOUS
  <1> HIDE DEF d
  <1> SUFFICES ASSUME NEW t \in Torn PROVE t \subseteq Missing
    OBVIOUS
  <1>3. t \subseteq Missing \/ t \in {{c} : c \in d}
    BY <1>1
  <1> QED
    BY <1>2, <1>3

LEMMA NextTyped ==
    ASSUME Typed, Next
    PROVE  Typed'
  <1> USE DEF Typed
  <1>1. CASE Turn
    <2>1. PhaseTyped'
      BY <1>1, TurnIs DEF PhaseTyped, pipe
    <2> QED
      BY <1>1, <2>1, TurnIs, SamePipe, SameFill, SameStore, FillStaysIdle
  <1>2. CASE StartFill
    <2>1. CASE OpenFill /\ phase' = "fill" /\ phase = "connect"
      <3>1. FillTyped'
        BY <2>1, OpenTyped DEF FillRests, FillIdle
      <3> QED
        BY <1>2, <2>1, <3>1, SamePipe, SameStore DEF StartFill, PhaseTyped, pipe, FillRests
    <2>2. CASE UNCHANGED fill /\ phase' = "failed" /\ phase = "connect"
      BY <1>2, <2>2, SameFill, SamePipe, SameStore, FillStaysIdle DEF StartFill, PhaseTyped, pipe, Resting
    <2> QED
      BY <1>2, <2>1, <2>2 DEF StartFill
  <1>3. CASE FillStep
    <2>1. PhaseTyped' /\ PipeTyped' /\ FillRests'
      BY <1>3, SamePipe DEF FillStep, PhaseTyped, pipe, FillRests
    <2>2. ASSUME NEW s \in Source, Spawn(s), UNCHANGED store
          PROVE  FillTyped' /\ StoreTypeOK'
      BY <2>2, SpawnTyped, SameStore
    <2>3. ASSUME NEW f \in fetches, Progress(f)
          PROVE  FillTyped' /\ StoreTypeOK'
      BY <2>3, ProgressTyped
    <2>4. ASSUME NEW f \in fetches, Join(f)
          PROVE  FillTyped' /\ StoreTypeOK'
      BY <2>4, JoinTyped, SameStore DEF Join
    <2> QED
      BY <1>3, <2>1, <2>2, <2>3, <2>4 DEF FillStep
  <1>4. CASE EndFill
    <2>1. PhaseTyped'
      BY <1>4 DEF EndFill, PhaseTyped, pipe, Resting
    <2>2. FillRests'
      BY <1>4 DEF EndFill, FillReset, FillRests, FillIdle, NoChunks
    <2> QED
      BY <1>4, <2>1, <2>2, RestTyped, SamePipe, SameStore DEF EndFill
  <1>5. CASE StartReceive
    BY <1>5, StartTyped
  <1>6. CASE ReceiveStep
    BY <1>6, ReceiverTyped, SameFill, SameStore, FillStaysIdle DEF ReceiveStep, PhaseTyped
  <1>7. CASE WriteTask
    <2>1. PICK i \in DOMAIN inflight : Task(i)
      BY <1>7 DEF WriteTask
    <2>2. UNCHANGED <<fill, phase>> /\ UNCHANGED task
      BY <1>7, <2>1, TaskIs DEF WriteTask
    <2>3. FillRests'
      BY <2>2 DEF FillRests, FillIdle, fill, NoChunks
    <2> QED
      BY <2>1, <2>2, <2>3, TaskTyped, SameFill DEF PhaseTyped, task
  <1>8. CASE EndPull
    <2>1. PipeTyped'
      BY <1>8, EmptySeq DEF EndPull, PipeTyped
    <2>2. PhaseTyped'
      BY <1>8 DEF EndPull, PhaseTyped, Resting
    <2> QED
      BY <1>8, <2>1, <2>2, SameFill, SameStore, FillStaysIdle DEF EndPull
  <1>9. CASE StartIngest
    <2>1. PipeTyped'
      BY <1>9, PipelineAssumption DEF StartIngest, PipeTyped, PhaseTyped
    <2>2. PhaseTyped'
      BY <1>9 DEF StartIngest, PhaseTyped, Resting
    <2> QED
      BY <1>9, <2>1, <2>2, SameFill, SameStore, FillStaysIdle DEF StartIngest
  <1>10. CASE Ingest
    BY <1>10, IngestTyped, SameFill, FillStaysIdle DEF Ingest, PhaseTyped
  <1>11. CASE IngestFails
    <2>1. PipeTyped'
      BY <1>11, EmptySeq DEF IngestFails, PipeTyped, PhaseTyped
    <2>2. PhaseTyped'
      BY <1>11 DEF IngestFails, PhaseTyped, Resting
    <2> QED
      BY <1>11, <2>1, <2>2, SameFill, SameStore, FillStaysIdle DEF IngestFails
  <1>12. CASE Materialize
    <2>1. free' \in 0 .. MaxFree
      BY <1>12, CheckedRoom, StoreAssumption DEF Materialize, StoreTypeOK, Kept
    <2>2. StoreTypeOK'
      BY <1>12, <2>1 DEF Materialize, StoreTypeOK
    <2>3. PhaseTyped'
      BY <1>12 DEF Materialize, PhaseTyped, Resting, pipe
    <2> QED
      BY <1>12, <2>2, <2>3, SameFill, SamePipe, FillStaysIdle DEF Materialize
  <1>13. CASE Crash
    <2>1. Torn \in SUBSET SUBSET Chunk
      <3>1. Missing \in SUBSET Chunk
        BY MissingChunks
      <3> QED
        BY <3>1, TornMissing
    <2>2. StoreTypeOK'
      BY <1>13, <2>1, LossTyped DEF Crash
    <2>3. PhaseTyped'
      BY <1>13 DEF Crash, PhaseTyped, PipeReset, Resting
    <2>4. FillRests'
      BY <1>13 DEF Crash, FillReset, FillRests, FillIdle, NoChunks
    <2> QED
      BY <1>13, <2>2, <2>3, <2>4, RestTyped DEF Crash
  <1>14. CASE Outside
    <2>1. FillRests'
      BY <1>14 DEF Outside, FillRests, FillIdle, fill, NoChunks
    <2> QED
      BY <1>14, <2>1, ConsumeTyped, SameFill, SamePipe DEF Outside, PhaseTyped, pipe
  <1> QED
    BY <1>1, <1>2, <1>3, <1>4, <1>5, <1>6, <1>7, <1>8, <1>9, <1>10, <1>11, <1>12, <1>13, <1>14
    DEF Next, Turn

-----------------------------------------------------------------------------
(* The pipeline: its bounds, what each step has behind it, and where a chunk   *)
(* that is still missing is.                                                   *)

Bounds ==
    /\ Len(inflight) <= MaxInflight /\ Len(pending) <= Batch
    /\ step \in {"recv", "push"} => Len(pending) < Batch
    /\ Queued <= MaxQueued \/ Len(pending) + Len(inflight) <= 1

\* PipeState: what each step of the receiving side has behind it.
PipeState ==
    /\ step = "flush" => pending # <<>>
    /\ step = "drain" => failed
    /\ step \in {"close", "closed"} => pending = <<>>
    /\ step = "closed" => inflight = <<>>
    /\ \A w \in Range(inflight) : w.at = "ok" => w.todo = <<>>
    /\ phase = "receive" /\ step \in {"finish", "close", "closed"} /\ ~failed => expected = <<>>

\* What a task may still store, or has failed to.
Carried(w) == {c \in Chunk : c \in Range(w.todo) \/ w.at = "err"}
On(tasks) == UNION {Carried(w) : w \in Range(tasks)}

\* OnTheWay: while no error was met, a missing chunk is still to come, queued, or
\* being written.
OnTheWay ==
    /\ phase = "receive" /\ ~failed =>
          \A c \in Missing : c \in Range(expected) \/ c \in Range(pending) \/ c \in On(inflight)
    /\ phase = "ingest" => Missing \subseteq Range(expected)

\* PipeRests: outside the receiving phase nothing is expected, unless a file is
\* ingested, and no error is left over.
PipeRests ==
    /\ phase # "receive" => ~failed
    /\ phase \notin {"receive", "ingest"} => expected = <<>>

PipeInv == Bounds /\ PipeState /\ OnTheWay /\ PipeRests

LEMMA QueuedIs ==
    /\ Queued = Length(pending) + Load(inflight)
    /\ Queued' = Length(pending') + Load(inflight')
  BY DEF Queued

LEMMA PipeNumbers ==
    ASSUME PipeTyped
    PROVE  /\ Len(inflight) \in Nat /\ Len(pending) \in Nat
           /\ Length(pending) \in Nat /\ Load(inflight) \in Nat /\ Queued \in Nat
           /\ Batch \in Nat /\ Batch > 0 /\ MaxInflight \in Nat /\ MaxInflight > 0
           /\ MaxQueued \in Nat
           /\ Length(<<>>) = 0 /\ Load(<<>>) = 0 /\ Len(<<>>) = 0
           /\ pending # <<>> => Len(pending) > 0
  <1>1. pending \in Seq(Chunk) /\ inflight \in Seq(Write) /\ <<>> \in Seq(Write)
    BY DEF PipeTyped
  <1>2. Length(pending) \in Nat /\ Load(inflight) \in Nat /\ Length(<<>>) = 0 /\ Load(<<>>) = 0
    BY <1>1, LengthFacts, LoadFacts
  <1>3. Queued \in Nat
    BY <1>2, QueuedIs
  <1> QED
    BY <1>1, <1>2, <1>3, PipelineAssumption

\* FlushIs, JoinIs: the two ways a task enters and leaves the pipeline.
Started == [batch |-> pending, todo |-> pending, at |-> "run"]

LEMMA FlushIs ==
    ASSUME PipeTyped, NEW then, Flush(then)
    PROVE  /\ Len(inflight) < MaxInflight /\ pending' = <<>> /\ UNCHANGED <<expected, store>>
           /\ Started \in Write /\ Started.batch = pending /\ Started.todo = pending /\ Started.at = "run"
           /\ \/ inflight' = Append(inflight, Started) /\ step' = then /\ failed' = failed
              \/ inflight' = inflight /\ step' = "finish" /\ failed' = TRUE
  BY DEF Flush, Started, Write, PipeTyped

LEMMA JoinOldestIs ==
    ASSUME PipeTyped, NEW then, JoinOldest(then)
    PROVE  /\ inflight # <<>> /\ inflight' = Tail(inflight) /\ UNCHANGED <<expected, pending, store>>
           /\ Head(inflight) \in Write /\ Head(inflight) \in Range(inflight)
           /\ \/ Head(inflight).at = "ok" /\ step' = then /\ failed' = failed
              \/ step' = "drain" /\ failed' = TRUE
  BY RangeEnds DEF JoinOldest, PipeTyped

\* FlushBounds, LeaveBounds: what they do to the bounds.
LEMMA FlushBounds ==
    ASSUME PipeTyped, Bounds, NEW then, Flush(then), pending # <<>>
    PROVE  Bounds'
  <1>1. Load(Append(inflight, Started)) = Load(inflight) + Length(pending)
    BY FlushIs, LoadFacts DEF PipeTyped
  <1>2. Len(Append(inflight, Started)) = Len(inflight) + 1
    BY DEF PipeTyped
  <1>3. pending' = <<>> /\ Len(inflight) < MaxInflight
    BY FlushIs
  <1>4. Queued' = Length(<<>>) + Load(inflight')
    BY <1>3, QueuedIs
  <1>5. CASE inflight' = Append(inflight, Started)
    <2>1. Queued' = Queued /\ Len(inflight') = Len(inflight) + 1
      BY <1>1, <1>2, <1>4, <1>5, PipeNumbers, QueuedIs
    <2> QED
      BY <1>3, <2>1, PipeNumbers DEF Bounds
  <1>6. CASE inflight' = inflight
    <2>1. Queued' <= Queued /\ Queued' \in Nat
      BY <1>4, <1>6, PipeNumbers, QueuedIs
    <2> QED
      BY <1>3, <1>6, <2>1, PipeNumbers DEF Bounds
  <1> QED
    BY <1>5, <1>6, FlushIs

LEMMA LeaveBounds ==
    ASSUME PipeTyped, Bounds, inflight # <<>>, inflight' = Tail(inflight), pending' \in {pending, <<>>},
           step' \in {"recv", "push"} => step \in {"recv", "push"}
    PROVE  Bounds'
  <1>1. Head(inflight).batch \in Seq(Chunk)
    <2>1. Head(inflight) \in Write
      BY RangeEnds DEF PipeTyped
    <2> QED
      BY <2>1 DEF Write
  <1>2. /\ Load(inflight) = Length(Head(inflight).batch) + Load(Tail(inflight))
        /\ Load(Tail(inflight)) \in Nat /\ Length(Head(inflight).batch) \in Nat
    BY <1>1, LoadFacts, LengthFacts DEF PipeTyped
  <1>3. Len(Tail(inflight)) = Len(inflight) - 1 /\ Len(Tail(inflight)) \in Nat
    BY DEF PipeTyped
  <1>4. Queued' = Length(pending') + Load(Tail(inflight))
    BY QueuedIs
  <1>5. Length(pending') \in Nat /\ Length(pending') <= Length(pending) /\ Len(pending') <= Len(pending)
        /\ Len(pending') \in Nat
    BY PipeNumbers
  <1>6. Queued' <= Queued /\ Queued' \in Nat
    <2>1. Queued = Length(pending) + Load(inflight) /\ Length(pending) \in Nat
      BY QueuedIs, PipeNumbers
    <2> QED
      BY <1>2, <1>4, <1>5, <2>1
  <1>7. Len(pending') + Len(inflight') <= Len(pending) + Len(inflight)
    BY <1>3, <1>5, PipeNumbers
  <1> QED
    BY <1>3, <1>5, <1>6, <1>7, PipeNumbers DEF Bounds

LEMMA ReceiverBounds ==
    ASSUME PipeTyped, Bounds, PipeState, Receiver
    PROVE  Bounds'
  <1>1. CASE Receive \/ ReceiveFails \/ ReceivedAll
    <2>1. UNCHANGED <<pending, inflight>> /\ (step' \in {"recv", "push"} => step \in {"recv", "push"})
      BY <1>1 DEF Receive, ReceiveFails, ReceivedAll
    <2>2. Queued' = Queued
      BY <2>1, QueuedIs
    <2> QED
      BY <2>1, <2>2 DEF Bounds
  <1>2. CASE MakeRoom
    BY <1>2, FlushBounds, LeaveBounds, JoinOldestIs DEF MakeRoom
  <1>3. CASE FlushBatch
    <2>1. pending # <<>>
      BY <1>3 DEF FlushBatch, PipeState
    <2>2. CASE Flush("recv")
      BY <2>1, <2>2, FlushBounds
    <2>3. CASE JoinOldest("flush")
      <3>1. /\ inflight # <<>> /\ inflight' = Tail(inflight) /\ pending' = pending
            /\ step' \in {"flush", "drain"}
        BY <2>3, JoinOldestIs
      <3> QED
        BY <3>1, LeaveBounds
    <2> QED
      BY <1>3, <2>2, <2>3 DEF FlushBatch
  <1>4. CASE FinishFlush
    <2>1. CASE Flush("close")
      BY <1>4, <2>1, FlushBounds DEF FinishFlush
    <2>2. CASE ~Flush("close")
      <3>1. Len(inflight) >= MaxInflight /\ inflight' = Tail(inflight) /\ pending' \in {pending, <<>>}
            /\ step' \notin {"recv", "push"}
        BY <1>4, <2>2 DEF FinishFlush
      <3>2. inflight # <<>>
        BY <3>1, PipeNumbers
      <3> QED
        BY <3>1, <3>2, LeaveBounds
    <2> QED
      BY <2>1, <2>2
  <1>5. CASE Queue
    <2>1. Head(expected) \in Chunk
      BY <1>5, RangeEnds DEF Queue, PipeTyped
    <2>2. pending' = Append(pending, Head(expected)) /\ inflight' = inflight /\ step = "push"
          /\ (Full => pending = <<>> /\ inflight = <<>>)
      BY <1>5 DEF Queue
    <2>3. /\ Length(pending') = Length(pending) + Size[Head(expected)]
          /\ Size[Head(expected)] \in Nat
          /\ Len(pending') = Len(pending) + 1
      BY <2>1, <2>2, LengthFacts, StoreAssumption DEF PipeTyped
    <2>4. Queued' = Queued + Size[Head(expected)] /\ Queued' \in Nat
      <3>1. Queued' = Length(pending') + Load(inflight) /\ Queued = Length(pending) + Load(inflight)
        BY <2>2, QueuedIs
      <3>2. Length(pending) \in Nat /\ Load(inflight) \in Nat
        BY PipeNumbers
      <3> QED
        BY <2>3, <3>1, <3>2
    <2>5. Len(pending') <= Batch /\ (step' \in {"recv", "push"} => Len(pending') < Batch)
      <3>1. Len(pending) < Batch
        BY <2>2 DEF Bounds
      <3>2. step' = "recv" => ~(Len(pending') >= Batch)
        BY <1>5 DEF Queue
      <3>3. step' \in {"flush", "recv"}
        BY <1>5, Zenon DEF Queue
      <3> QED
        BY <2>3, <3>1, <3>2, <3>3, PipeNumbers
    <2>6. Queued' <= MaxQueued \/ Len(pending') + Len(inflight') <= 1
      <3>1. CASE Full
        BY <2>2, <2>3, <3>1, PipeNumbers
      <3>2. CASE ~Full
        BY <2>4, <3>2, PipeNumbers DEF Full
      <3> QED
        BY <3>1, <3>2
    <2> QED
      BY <2>2, <2>5, <2>6 DEF Bounds
  <1>6. CASE Drain \/ Finish
    <2>1. inflight' = <<>> /\ pending' = pending /\ step' \notin {"recv", "push"}
      BY <1>6 DEF Drain, Finish
    <2>2. Queued' = Length(pending) + 0
      BY <2>1, QueuedIs, PipeNumbers
    <2>3. Queued' <= Queued /\ Queued' \in Nat
      BY <2>2, QueuedIs, PipeNumbers
    <2> QED
      BY <2>1, <2>3, PipeNumbers DEF Bounds
  <1> QED
    BY <1>1, <1>2, <1>3, <1>4, <1>5, <1>6 DEF Receiver

LEMMA RangeEmpty == Range(<<>>) = {}
  BY DEF Range

\* What the tasks still carry when one starts or leaves.
LEMMA OnFacts ==
    ASSUME NEW t \in Seq(Write)
    PROVE  /\ On(<<>>) = {}
           /\ \A w \in Write : On(Append(t, w)) = On(t) \cup Carried(w)
           /\ t # <<>> => On(t) = Carried(Head(t)) \cup On(Tail(t))
  <1>1. Range(<<>>) = {} /\ \A w \in Write : Range(Append(t, w)) = Range(t) \cup {w}
    BY RangeEnds
  <1>2. t # <<>> => Range(t) = {Head(t)} \cup Range(Tail(t))
    BY RangeEnds
  <1>3. On(<<>>) = {}
    BY <1>1 DEF On
  <1>4. ASSUME NEW w \in Write
        PROVE  On(Append(t, w)) = On(t) \cup Carried(w)
    BY <1>1 DEF On
  <1>5. t # <<>> => On(t) = Carried(Head(t)) \cup On(Tail(t))
    BY <1>2 DEF On
  <1> QED
    BY <1>3, <1>4, <1>5

LEMMA CarriedFacts ==
    ASSUME NEW w \in Write
    PROVE  /\ w.at = "ok" /\ w.todo = <<>> => Carried(w) = {}
           /\ Range(w.todo) \subseteq Carried(w)
           /\ Range(w.todo) \subseteq Chunk
  <1>1. Range(w.todo) \in SUBSET Chunk /\ Range(<<>>) = {}
    BY RangeEnds DEF Write
  <1> QED
    BY <1>1 DEF Carried

\* A joined task that ended well carries nothing.
LEMMA JoinedWell ==
    ASSUME PipeTyped, PipeState, inflight # <<>>, Head(inflight).at = "ok"
    PROVE  On(Tail(inflight)) = On(inflight)
  <1>1. Head(inflight) \in Write /\ Head(inflight) \in Range(inflight) /\ inflight \in Seq(Write)
    BY RangeEnds DEF PipeTyped
  <1>2. Head(inflight).todo = <<>>
    BY <1>1 DEF PipeState
  <1>3. Carried(Head(inflight)) = {}
    BY <1>1, <1>2, CarriedFacts
  <1> QED
    BY <1>1, <1>3, OnFacts

\* Nothing is carried once every task has ended well.
LEMMA AllWell ==
    ASSUME PipeTyped, PipeState, \A i \in DOMAIN inflight : inflight[i].at = "ok"
    PROVE  On(inflight) = {}
  <1>1. \A w \in Range(inflight) : w \in Write /\ w.at = "ok"
    BY RangeEnds DEF PipeTyped, Range
  <1>2. \A w \in Range(inflight) : Carried(w) = {}
    BY <1>1, CarriedFacts DEF PipeState
  <1> QED
    BY <1>2 DEF On

\* The two halves of what a receiving step keeps: the state of the steps, and
\* where the missing chunks are.
Flow == ~failed => \A c \in Missing : c \in Range(expected) \/ c \in Range(pending) \/ c \in On(inflight)

LEMMA FlushState ==
    ASSUME PipeTyped, PipeState, NEW then, Flush(then), then \notin {"flush", "drain", "closed"},
           phase' = phase, then \in {"finish", "close"} => step \in {"finish", "close"}
    PROVE  PipeState'
  <1>1. CASE inflight' = Append(inflight, Started) /\ step' = then /\ failed' = failed
    <2>1. Range(inflight') = Range(inflight) \cup {Started}
      <3>1. inflight \in Seq(Write) /\ Started \in Write
        BY FlushIs DEF PipeTyped
      <3>2. Range(Append(inflight, Started)) = Range(inflight) \cup {Started}
        BY <3>1, RangeEnds
      <3> QED
        BY <1>1, <3>2
    <2>2. \A w \in Range(inflight') : w.at = "ok" => w.todo = <<>>
      BY <2>1, FlushIs DEF PipeState
    <2>3. pending' = <<>> /\ expected' = expected
      BY FlushIs
    <2> QED
      BY <1>1, <2>2, <2>3 DEF PipeState
  <1>2. CASE inflight' = inflight /\ step' = "finish" /\ failed' = TRUE
    BY <1>2, FlushIs DEF PipeState
  <1> QED
    BY <1>1, <1>2, FlushIs

LEMMA FlushFlow ==
    ASSUME PipeTyped, Flow, NEW then, Flush(then)
    PROVE  Flow'
  <1>1. CASE inflight' = Append(inflight, Started) /\ failed' = failed
    <2>1. On(inflight') = On(inflight) \cup Carried(Started)
      BY <1>1, FlushIs, OnFacts DEF PipeTyped
    <2>2. Range(pending) \subseteq Carried(Started)
      BY FlushIs, CarriedFacts
    <2>3. Missing' = Missing /\ expected' = expected
      BY FlushIs DEF Missing, Verified, store
    <2> QED
      BY <1>1, <2>1, <2>2, <2>3 DEF Flow
  <1>2. CASE failed' = TRUE
    BY <1>2 DEF Flow
  <1> QED
    BY <1>1, <1>2, FlushIs

LEMMA LeaveState ==
    ASSUME PipeTyped, PipeState, inflight # <<>>, inflight' = Tail(inflight),
           UNCHANGED <<expected, phase>>,
           \/ step' = step /\ failed' = failed /\ pending' = pending /\ step \notin {"close", "closed"}
           \/ step' = "drain" /\ failed' = TRUE
           \/ step' = "close" /\ failed' = TRUE /\ pending' = <<>>
    PROVE  PipeState'
  <1>1. Range(Tail(inflight)) \subseteq Range(inflight)
    BY RangeEnds DEF PipeTyped
  <1>2. \A w \in Range(inflight') : w.at = "ok" => w.todo = <<>>
    BY <1>1 DEF PipeState
  <1> QED
    BY <1>2 DEF PipeState

LEMMA ReceiverState ==
    ASSUME PipeTyped, PipeState, Receiver, phase' = phase, phase = "receive"
    PROVE  PipeState'
  <1>1. CASE Receive \/ ReceiveFails \/ ReceivedAll
    <2>1. inflight' = inflight /\ pending' = pending /\ expected' = expected
      BY <1>1 DEF Receive, ReceiveFails, ReceivedAll
    <2>2. \/ step' = "push"
          \/ step' = "finish" /\ (failed' = TRUE \/ expected = <<>>)
      BY <1>1 DEF Receive, ReceiveFails, ReceivedAll
    <2> QED
      BY <2>1, <2>2 DEF PipeState
  <1>2. CASE MakeRoom
    <2>1. step = "push"
      BY <1>2 DEF MakeRoom
    <2>2. CASE Flush("push")
      BY <2>2, FlushState
    <2>3. CASE JoinOldest("push")
      <3>1. /\ inflight # <<>> /\ inflight' = Tail(inflight) /\ expected' = expected /\ pending' = pending
            /\ \/ step' = "push" /\ failed' = failed
               \/ step' = "drain" /\ failed' = TRUE
        BY <2>3, JoinOldestIs
      <3> QED
        BY <2>1, <3>1, LeaveState
    <2> QED
      BY <1>2, <2>2, <2>3 DEF MakeRoom
  <1>3. CASE FlushBatch
    <2>1. step = "flush"
      BY <1>3 DEF FlushBatch
    <2>2. CASE Flush("recv")
      BY <2>2, FlushState
    <2>3. CASE JoinOldest("flush")
      <3>1. /\ inflight # <<>> /\ inflight' = Tail(inflight) /\ expected' = expected /\ pending' = pending
            /\ \/ step' = "flush" /\ failed' = failed
               \/ step' = "drain" /\ failed' = TRUE
        BY <2>3, JoinOldestIs
      <3> QED
        BY <2>1, <3>1, LeaveState
    <2> QED
      BY <1>3, <2>2, <2>3 DEF FlushBatch
  <1>4. CASE FinishFlush
    <2>1. CASE Flush("close")
      BY <1>4, <2>1, FlushState DEF FinishFlush
    <2>2. CASE ~Flush("close")
      <3>1. /\ Len(inflight) >= MaxInflight /\ inflight' = Tail(inflight) /\ expected' = expected
            /\ step = "finish"
            /\ \/ step' = step /\ failed' = failed /\ pending' = pending
               \/ step' = "close" /\ failed' = TRUE /\ pending' = <<>>
        BY <1>4, <2>2 DEF FinishFlush
      <3>2. inflight # <<>>
        BY <3>1, PipeNumbers
      <3> QED
        BY <3>1, <3>2, LeaveState
    <2> QED
      BY <2>1, <2>2
  <1>5. CASE Queue
    <2>1. inflight' = inflight /\ step' \in {"flush", "recv"}
      BY <1>5, Zenon DEF Queue
    <2>2. pending' # <<>>
      <3>1. Head(expected) \in Chunk
        BY <1>5, RangeEnds DEF Queue, PipeTyped
      <3>2. pending' = Append(pending, Head(expected))
        BY <1>5 DEF Queue
      <3> QED
        BY <3>1, <3>2, AppendProperties DEF PipeTyped
    <2> QED
      BY <2>1, <2>2 DEF PipeState
  <1>6. CASE Drain
    BY <1>6, RangeEmpty DEF Drain, PipeState
  <1>7. CASE Finish
    <2>1. inflight' = <<>> /\ pending' = <<>> /\ step' = "closed" /\ expected' = expected
          /\ (failed => failed') /\ step \in {"finish", "close"}
      BY <1>7 DEF Finish
    <2> QED
      BY <2>1, RangeEmpty DEF PipeState
  <1> QED
    BY <1>1, <1>2, <1>3, <1>4, <1>5, <1>6, <1>7 DEF Receiver

LEMMA ReceiverFlow ==
    ASSUME PipeTyped, PipeState, Flow, Receiver
    PROVE  Flow'
  <1>1. Missing' = Missing
    BY ReceiverTyped DEF Missing, Verified, store
  <1>2. CASE Receive \/ ReceiveFails \/ ReceivedAll
    <2>1. inflight' = inflight /\ pending' = pending /\ expected' = expected
          /\ (failed => failed')
      BY <1>2 DEF Receive, ReceiveFails, ReceivedAll, PipeTyped
    <2> QED
      BY <1>1, <2>1 DEF Flow
  <1>3. ASSUME NEW then, JoinOldest(then)
        PROVE  Flow'
    <2>1. /\ inflight # <<>> /\ inflight' = Tail(inflight) /\ expected' = expected /\ pending' = pending
          /\ \/ Head(inflight).at = "ok" /\ failed' = failed
             \/ failed' = TRUE
      BY <1>3, JoinOldestIs
    <2> QED
      BY <1>1, <2>1, JoinedWell DEF Flow
  <1>4. CASE MakeRoom \/ FlushBatch
    BY <1>3, <1>4, FlushFlow DEF MakeRoom, FlushBatch
  <1>5. CASE FinishFlush
    <2>1. CASE Flush("close")
      BY <2>1, FlushFlow
    <2>2. CASE ~Flush("close")
      <3>1. /\ Len(inflight) >= MaxInflight /\ inflight' = Tail(inflight) /\ expected' = expected
            /\ \/ failed' = failed /\ pending' = pending /\ Head(inflight).at = "ok"
               \/ failed' = TRUE
        BY <1>5, <2>2 DEF FinishFlush
      <3>2. inflight # <<>>
        BY <3>1, PipeNumbers
      <3> QED
        BY <1>1, <3>1, <3>2, JoinedWell DEF Flow
    <2> QED
      BY <2>1, <2>2
  <1>6. CASE Queue
    <2>1. /\ Range(pending') = Range(pending) \cup {Head(expected)}
          /\ Range(expected) = {Head(expected)} \cup Range(expected')
      <3>1. expected # <<>> /\ expected' = Tail(expected) /\ pending' = Append(pending, Head(expected))
        BY <1>6 DEF Queue, PipeTyped
      <3>2. expected \in Seq(Chunk) /\ pending \in Seq(Chunk)
        BY DEF PipeTyped
      <3>3. Head(expected) \in Chunk /\ Range(expected) = {Head(expected)} \cup Range(Tail(expected))
        BY <3>1, <3>2, RangeEnds
      <3>4. Range(Append(pending, Head(expected))) = Range(pending) \cup {Head(expected)}
        BY <3>2, <3>3, RangeEnds
      <3> QED
        BY <3>1, <3>3, <3>4
    <2>2. inflight' = inflight /\ failed' = failed
      BY <1>6 DEF Queue
    <2> QED
      BY <1>1, <2>1, <2>2 DEF Flow
  <1>7. CASE Drain
    BY <1>7 DEF Drain, PipeState, Flow
  <1>8. CASE Finish
    <2>1. CASE failed'
      BY <2>1 DEF Flow
    <2>2. CASE ~failed'
      <3>1. \A i \in DOMAIN inflight : inflight[i].at \notin {"run", "err"} /\ inflight[i] \in Write
        <4>1. \A i \in DOMAIN inflight : inflight[i].at # "run" /\ inflight[i].at # "err"
          BY <1>8, <2>2, Zenon DEF Finish
        <4>2. \A i \in DOMAIN inflight : inflight[i] \in Write
          BY ElementOfSeq DEF PipeTyped
        <4> QED
          BY <4>1, <4>2
      <3>2. \A i \in DOMAIN inflight : inflight[i].at = "ok"
        BY <3>1 DEF Write
      <3>3. On(inflight) = {}
        BY <3>2, AllWell
      <3>4. ~failed /\ pending' = pending /\ expected' = expected
        BY <1>8, <2>2 DEF Finish
      <3> QED
        BY <1>1, <3>3, <3>4 DEF Flow
    <2> QED
      BY <2>1, <2>2
  <1> QED
    BY <1>2, <1>3, <1>4, <1>5, <1>6, <1>7, <1>8 DEF Receiver

\* What a write does to what is missing.
LEMMA InstallKeeps ==
    ASSUME StoreTypeOK, NEW c \in Chunk, Install(c) \/ PutVerified(c)
    PROVE  Verified(c)' /\ \A d \in Chunk : Verified(d) => Verified(d)'
  BY DEF StoreTypeOK, Install, PutVerified, Verified

LEMMA TaskPipe ==
    ASSUME Typed, PipeInv, NEW i \in DOMAIN inflight, Task(i), phase' = phase
    PROVE  PipeInv'
  <1> USE DEF Typed, PipeInv
  <1>1. UNCHANGED task
    BY TaskIs
  <1>2. PICK w \in Write : NextWrite(i, w)
    BY TaskIs
  <1>3. /\ inflight[i] \in Write /\ i \in 1 .. Len(inflight) /\ inflight \in Seq(Write)
        /\ inflight' \in Seq(Write) /\ Len(inflight') = Len(inflight)
        /\ \A j \in 1 .. Len(inflight) : inflight'[j] = IF j = i THEN w ELSE inflight[j]
    <2>1. inflight \in Seq(Write) /\ inflight' = [inflight EXCEPT ![i] = w] /\ i \in 1 .. Len(inflight)
      BY <1>2 DEF PipeTyped, NextWrite
    <2>2. inflight[i] \in Write
      BY <2>1, ElementOfSeq
    <2> QED
      BY <2>1, <2>2, ExceptSeq
  <1>4. Bounds'
    <2>1. \A j \in 1 .. Len(inflight) : inflight'[j].batch = inflight[j].batch
      BY <1>2, <1>3 DEF NextWrite
    <2>2. Load(inflight') = Load(inflight)
      BY <1>3, <2>1, LoadFacts
    <2>3. Queued' = Queued
      BY <1>1, <2>2, QueuedIs DEF task
    <2> QED
      BY <1>1, <1>3, <2>3 DEF Bounds, task
  <1>5. Range(inflight) = {inflight[j] : j \in 1 .. Len(inflight)}
        /\ Range(inflight') = {inflight'[j] : j \in 1 .. Len(inflight)}
    BY <1>3 DEF Range
  <1>6. PipeState'
    <2>1. \A x \in Range(inflight') : x.at = "ok" => x.todo = <<>>
      <3>1. w.at = "ok" => w.todo = <<>>
        BY <1>2 DEF NextWrite
      <3> QED
        BY <1>3, <1>5, <3>1 DEF PipeState
    <2>2. step # "closed"
      BY <1>3 DEF PipeState
    <2> QED
      BY <1>1, <2>1, <2>2 DEF PipeState, task
  <1>7. phase = "receive"
    BY <1>3 DEF PipeState, PhaseTyped
  <1>8. OnTheWay'
    <2> SUFFICES ASSUME ~failed', NEW c \in Missing'
                 PROVE  c \in Range(expected') \/ c \in Range(pending') \/ c \in On(inflight')
      BY <1>7 DEF OnTheWay
    <2>1. c \in Missing /\ c \in Chunk /\ ~Verified(c)'
      <3>1. c \in Chunk /\ ~Verified(c)'
        BY DEF Missing, Verified
      <3>2. CASE inflight[i].todo # <<>> /\ Install(Head(inflight[i].todo))
        <4>1. Head(inflight[i].todo) \in Chunk
          BY <1>3, <3>2, RangeEnds DEF Write
        <4> QED
          BY <3>1, <3>2, <4>1, InstallKeeps DEF Missing
      <3>3. CASE content' = content
        BY <3>1, <3>3 DEF Missing, Verified
      <3> QED
        BY <1>2, <3>2, <3>3 DEF NextWrite, Sync
    <2>2. CASE c \in Range(expected) \/ c \in Range(pending)
      BY <1>1, <2>2 DEF task
    <2>3. CASE c \in On(inflight)
      <3>1. PICK j \in 1 .. Len(inflight) : c \in Carried(inflight[j])
        BY <1>5, <2>3 DEF On
      <3>2. c \in Carried(inflight'[j])
        <4>1. CASE j # i
          BY <1>3, <3>1, <4>1
        <4>2. CASE j = i
          <5>1. c \in Range(inflight[i].todo) /\ inflight'[i] = w
            BY <1>2, <1>3, <3>1, <4>2 DEF Carried, NextWrite
          <5>2. CASE w.at = "err"
            BY <2>1, <4>2, <5>1, <5>2 DEF Carried
          <5>3. CASE inflight[i].todo = <<>>
            BY <5>1, <5>3, RangeEmpty
          <5>4. CASE inflight[i].todo # <<>> /\ w.todo = Tail(inflight[i].todo)
                     /\ Install(Head(inflight[i].todo))
            <6>1. inflight[i].todo \in Seq(Chunk)
              BY <1>3 DEF Write
            <6>2. Range(inflight[i].todo) = {Head(inflight[i].todo)} \cup Range(w.todo)
                  /\ Head(inflight[i].todo) \in Chunk
              BY <5>4, <6>1, RangeEnds
            <6>3. c # Head(inflight[i].todo)
              BY <2>1, <5>4, <6>2, InstallKeeps
            <6> QED
              BY <2>1, <4>2, <5>1, <6>2, <6>3 DEF Carried
          <5> QED
            BY <1>2, <5>2, <5>3, <5>4 DEF NextWrite
        <4> QED
          BY <4>1, <4>2
      <3> QED
        BY <1>5, <3>2 DEF On
    <2> QED
      BY <1>1, <1>7, <2>1, <2>2, <2>3 DEF OnTheWay, task
  <1>9. PipeRests'
    BY <1>1, <1>7 DEF PipeRests, task
  <1> QED
    BY <1>4, <1>6, <1>8, <1>9

LEMMA StartPipe ==
    ASSUME Typed, PipeInv, StartReceive
    PROVE  PipeInv'
  <1> USE DEF Typed, PipeInv
  <1>1. pending = <<>> /\ inflight = <<>> /\ phase = "admit"
    BY DEF StartReceive, PhaseTyped, PipeState
  <1>2. CASE OpenPipe(Missing) /\ phase' = "receive"
    <2>1. pending' = <<>> /\ inflight' = <<>> /\ step' = "recv" /\ failed' = FALSE
      BY <1>1, <1>2 DEF OpenPipe
    <2>2. Bounds'
      <3>1. Queued' = 0
        BY <2>1, QueuedIs, PipeNumbers
      <3> QED
        BY <2>1, <3>1, PipeNumbers DEF Bounds
    <2>3. PipeState' /\ PipeRests'
      BY <1>2, <2>1, RangeEmpty DEF PipeState, PipeRests
    <2>4. OnTheWay'
      <3>1. Missing' = Missing /\ Missing \subseteq Chunk
        BY DEF StartReceive, Missing, Verified, store
      <3>2. Range(expected') = Missing \cap Chunk
        BY <1>2, InOrderFacts DEF OpenPipe
      <3> QED
        BY <1>2, <3>1, <3>2 DEF OnTheWay
    <2> QED
      BY <2>2, <2>3, <2>4
  <1>3. CASE UNCHANGED pipe /\ phase' = "failed"
    BY <1>1, <1>3 DEF Bounds, PipeState, OnTheWay, PipeRests, Queued, pipe
  <1> QED
    BY <1>2, <1>3 DEF StartReceive

\* Steps that leave the pipeline closed and keep or clear what is expected.
LEMMA ClosedPipe ==
    ASSUME Typed, PipeInv, step = "closed", UNCHANGED <<step, pending, inflight>>,
           failed' = FALSE, phase' # "receive"
    PROVE  Bounds' /\ PipeState'
  <1>1. Queued' = Queued
    BY QueuedIs
  <1>2. Bounds'
    BY <1>1 DEF PipeInv, Bounds
  <1> QED
    BY <1>2 DEF PipeInv, PipeState

LEMMA PipeStep ==
    ASSUME Typed, PipeInv, Next
    PROVE  PipeInv'
  <1> USE DEF Typed, PipeInv
  <1>1. phase # "receive" => step = "closed" /\ failed = FALSE
    BY DEF PhaseTyped, PipeRests, PipeTyped
  <1>2. CASE /\ UNCHANGED pipe /\ phase # "receive" /\ phase' \notin {"receive", "ingest"}
             /\ (phase = "ingest" => expected = <<>>)
    <2>1. Bounds' /\ PipeState'
      BY <1>1, <1>2, ClosedPipe DEF pipe
    <2>2. OnTheWay' /\ PipeRests'
      BY <1>1, <1>2 DEF OnTheWay, PipeRests, pipe
    <2> QED
      BY <2>1, <2>2
  <1>3. CASE Turn
    BY <1>2, <1>3, TurnIs DEF Resting
  <1>4. CASE StartFill
    BY <1>2, <1>4 DEF StartFill
  <1>5. CASE FillStep
    BY <1>2, <1>5 DEF FillStep
  <1>6. CASE EndFill
    BY <1>2, <1>6 DEF EndFill
  <1>7. CASE StartReceive
    BY <1>7, StartPipe
  <1>8. CASE ReceiveStep
    <2>1. phase = "receive" /\ phase' = phase /\ Receiver
      BY <1>8 DEF ReceiveStep
    <2>2. Bounds' /\ PipeState'
      BY <2>1, ReceiverBounds, ReceiverState
    <2>3. Flow
      BY <2>1 DEF Flow, OnTheWay
    <2>4. Flow'
      BY <2>1, <2>3, ReceiverFlow
    <2>5. OnTheWay' /\ PipeRests'
      BY <2>1, <2>4 DEF Flow, OnTheWay, PipeRests
    <2> QED
      BY <2>2, <2>5
  <1>9. CASE WriteTask
    BY <1>9, TaskPipe DEF WriteTask
  <1>10. CASE EndPull
    <2>1. Bounds' /\ PipeState'
      BY <1>10, ClosedPipe DEF EndPull
    <2> QED
      BY <1>10, <2>1 DEF EndPull, OnTheWay, PipeRests
  <1>11. CASE StartIngest
    <2>1. Bounds' /\ PipeState'
      BY <1>1, <1>11, ClosedPipe DEF StartIngest
    <2>2. Missing' \subseteq Chunk
      BY DEF Missing, Verified
    <2> QED
      BY <1>1, <1>11, <2>1, <2>2, PipelineAssumption DEF StartIngest, OnTheWay, PipeRests
  <1>12. CASE Ingest
    <2>1. Bounds' /\ PipeState'
      BY <1>1, <1>12, ClosedPipe DEF Ingest
    <2>2. Head(expected) \in Chunk /\ Range(expected) = {Head(expected)} \cup Range(Tail(expected))
      BY <1>12, RangeEnds DEF Ingest, PipeTyped
    <2>3. Missing' \subseteq Missing \ {Head(expected)}
      BY <1>12, <2>2, InstallKeeps DEF Ingest, Missing, Verified
    <2>4. OnTheWay'
      BY <1>12, <2>2, <2>3 DEF Ingest, OnTheWay
    <2>5. PipeRests'
      BY <1>1, <1>12 DEF Ingest, PipeRests
    <2> QED
      BY <2>1, <2>4, <2>5
  <1>13. CASE IngestFails
    <2>1. Bounds' /\ PipeState'
      BY <1>1, <1>13, ClosedPipe DEF IngestFails
    <2> QED
      BY <1>1, <1>13, <2>1 DEF IngestFails, OnTheWay, PipeRests
  <1>14. CASE Materialize
    BY <1>2, <1>14 DEF Materialize
  <1>15. CASE Crash
    <2>1. PipeReset /\ phase' = "idle"
      BY <1>15 DEF Crash
    <2>2. Queued' = 0
      BY <2>1, QueuedIs, PipeNumbers DEF PipeReset
    <2> QED
      BY <2>1, <2>2, PipeNumbers, RangeEmpty
      DEF PipeReset, Bounds, PipeState, OnTheWay, PipeRests
  <1>16. CASE Outside
    <2>1. UNCHANGED pipe /\ phase' = phase /\ content' = content
      BY <1>16 DEF Outside, Consume
    <2>2. Missing' = Missing
      BY <2>1 DEF Missing, Verified
    <2>3. Queued' = Queued /\ On(inflight') = On(inflight)
      BY <2>1, QueuedIs DEF pipe
    <2> QED
      BY <2>1, <2>2, <2>3 DEF Bounds, PipeState, OnTheWay, PipeRests, pipe
  <1> QED
    BY <1>3, <1>4, <1>5, <1>6, <1>7, <1>8, <1>9, <1>10, <1>11, <1>12, <1>13, <1>14, <1>15, <1>16
    DEF Next, Turn

LEMMA PipeInit == Init => PipeInv
  <1> HAVE Init
  <1>1. PipeTyped /\ PipeIdle /\ phase = "idle"
    BY RestTyped DEF Init
  <1>2. Queued = 0
    BY <1>1, QueuedIs, PipeNumbers DEF PipeIdle
  <1> QED
    BY <1>1, <1>2, PipeNumbers, RangeEmpty
    DEF PipeIdle, PipeInv, Bounds, PipeState, OnTheWay, PipeRests

-----------------------------------------------------------------------------
(* The disk. *)

\* RoomLeft: what was admitted at once stays affordable, other programs aside.
RoomLeft == phase = "receive" => free + outside >= Kept + Bytes(Missing)

\* What a write of one chunk costs.
LEMMA InstallCosts ==
    ASSUME StoreTypeOK, NEW c \in Chunk, Install(c) \/ PutVerified(c), NEW Before, Before = Missing
    PROVE  /\ shared' = shared /\ outside' = outside
           /\ \/ free' = free /\ Missing' = Before /\ Verified(c)
              \/ free' = free - Size[c] /\ Bytes(Missing) = Size[c] + Bytes(Missing') /\ ~Verified(c)
           /\ Bytes(Missing) \in Nat /\ Bytes(Missing') \in Nat
  <1>1. Missing \in SUBSET Chunk /\ Missing' \in SUBSET Chunk
    BY DEF Missing
  <1>2. Bytes(Missing) \in Nat /\ Bytes(Missing') \in Nat
    BY <1>1, BytesFacts
  <1>3. content' = [content EXCEPT ![c] = "intact"] /\ content \in [Chunk -> Content]
        /\ shared' = shared /\ outside' = outside
    BY DEF Install, PutVerified, StoreTypeOK
  <1>4. CASE Verified(c)
    <2>1. Missing' = Missing
      BY <1>3, <1>4 DEF Missing, Verified
    <2> QED
      BY <1>2, <1>3, <1>4, <2>1 DEF Install, PutVerified
  <1>5. CASE ~Verified(c)
    <2>1. Missing' = Missing \ {c} /\ c \in Missing
      BY <1>3, <1>5 DEF Missing, Verified
    <2>2. Bytes(Missing) = Size[c] + Bytes(Missing \ {c})
      BY <1>1, <2>1, BytesFacts
    <2>3. Bytes(Missing') = Bytes(Missing \ {c})
      BY <2>1, Zenon
    <2> QED
      BY <1>2, <1>3, <1>5, <2>2, <2>3 DEF Install, PutVerified
  <1> QED
    BY <1>4, <1>5

LEMMA RoomStep ==
    ASSUME Typed, PipeInv, RoomLeft, Next
    PROVE  RoomLeft'
  <1> USE DEF Typed
  <1> SUFFICES ASSUME phase' = "receive"
               PROVE  free' + outside' >= Kept' + Bytes(Missing')
    BY DEF RoomLeft
  <1>1. Kept \in Nat /\ free \in Nat /\ outside \in Nat
    BY CheckedRoom
  <1>2. Missing \in SUBSET Chunk
    BY DEF Missing
  <1>3. Bytes(Missing) \in Nat
    BY <1>2, BytesFacts
  <1>4. CASE StartReceive
    <2>1. CheckState(Bytes(Missing)) /\ UNCHANGED store
      BY <1>4 DEF StartReceive
    <2>2. Missing' = Missing /\ Kept' = Kept /\ free' = free /\ outside' = outside
      BY <2>1 DEF Missing, Verified, Kept, store
    <2>3. Bytes(Missing') = Bytes(Missing)
      BY <2>2, Zenon
    <2>4. free >= Bytes(Missing) + Kept
      BY <1>3, <2>1, CheckedRoom
    <2> QED
      BY <1>1, <1>3, <2>2, <2>3, <2>4
  <1>5. CASE ReceiveStep
    <2>1. UNCHANGED store /\ phase = "receive"
      BY <1>5, ReceiverTyped DEF ReceiveStep
    <2>2. Missing' = Missing /\ Kept' = Kept /\ free' = free /\ outside' = outside
      BY <2>1 DEF Missing, Verified, Kept, store
    <2>3. Bytes(Missing') = Bytes(Missing)
      BY <2>2, Zenon
    <2> QED
      BY <2>1, <2>2, <2>3 DEF RoomLeft
  <1>6. CASE WriteTask
    <2>1. PICK i \in DOMAIN inflight : Task(i)
      BY <1>6 DEF WriteTask
    <2>2. PICK w \in Write : NextWrite(i, w)
      BY <2>1, TaskIs
    <2>3. phase = "receive"
      BY <1>6 DEF WriteTask
    <2>4. CASE \E chunks : Sync(chunks)
      <3>1. Missing' = Missing /\ Kept' = Kept /\ free' = free /\ outside' = outside
        BY <2>4 DEF Sync, Missing, Verified, Kept
      <3>2. Bytes(Missing') = Bytes(Missing)
        BY <3>1, Zenon
      <3> QED
        BY <2>3, <3>1, <3>2 DEF RoomLeft
    <2>5. CASE inflight[i].todo # <<>> /\ Install(Head(inflight[i].todo))
      <3> DEFINE c == Head(inflight[i].todo)
      <3>1. c \in Chunk
        <4>1. inflight[i] \in Write
          BY ElementOfSeq DEF PipeTyped
        <4> QED
          BY <2>5, <4>1, RangeEnds DEF Write
      <3> HIDE DEF c
      <3>2. Install(c)
        BY <2>5 DEF c
      <3>3. /\ shared' = shared /\ outside' = outside
            /\ \/ free' = free /\ Missing' = Missing
               \/ free' = free - Size[c] /\ Bytes(Missing) = Size[c] + Bytes(Missing')
            /\ Bytes(Missing') \in Nat
        BY <3>1, <3>2, InstallCosts
      <3>4. Kept' = Kept /\ Size[c] \in Nat
        BY <3>1, <3>3, StoreAssumption DEF Kept
      <3>5. CASE free' = free /\ Missing' = Missing
        <4>1. Bytes(Missing') = Bytes(Missing)
          BY <3>5, Zenon
        <4> QED
          BY <2>3, <3>3, <3>4, <3>5, <4>1 DEF RoomLeft
      <3>6. CASE free' = free - Size[c] /\ Bytes(Missing) = Size[c] + Bytes(Missing')
        BY <1>1, <1>3, <2>3, <3>3, <3>4, <3>6 DEF RoomLeft
      <3> QED
        BY <3>3, <3>5, <3>6
    <2> QED
      BY <2>2, <2>4, <2>5 DEF NextWrite
  <1>7. CASE Outside
    <2>1. Missing' = Missing /\ Kept' = Kept /\ free' = free - 1 /\ outside' = outside + 1
          /\ phase = "receive"
      BY <1>7 DEF Outside, Consume, Missing, Verified, Kept
    <2>2. Bytes(Missing') = Bytes(Missing)
      BY <2>1, Zenon
    <2> QED
      BY <1>1, <1>3, <2>1, <2>2 DEF RoomLeft
  <1>8. CASE EndFill
    BY <1>8 DEF EndFill
  <1>9. CASE StartFill \/ StartIngest \/ EndPull \/ Materialize
    BY <1>9 DEF StartFill, StartIngest, EndPull, Materialize
  <1>10. CASE FillStep \/ Ingest \/ IngestFails \/ Crash
    BY <1>10 DEF FillStep, Ingest, IngestFails, Crash
  <1>11. CASE Turn
    BY <1>11, TurnIs DEF Resting
  <1> QED
    BY <1>4, <1>5, <1>6, <1>7, <1>8, <1>9, <1>10, <1>11 DEF Next, Turn

\* A step that takes space leaves what must be kept.
Spends == free' < free /\ outside' = outside =>
            free' + outside >= Reserve + (IF shared /\ phase' # "done" THEN Destination ELSE 0)

LEMMA KeepsReserve ==
    ASSUME StoreTypeOK, free' \in Nat, free' + outside >= Kept
    PROVE  Spends
  <1>1. outside \in Nat /\ Reserve \in Nat /\ Destination \in Nat
    BY CheckedRoom, StoreAssumption
  <1>2. PICK f \in Nat : f = free'
    OBVIOUS
  <1>3. f + outside >= Kept
    BY <1>2
  <1>4. f + outside >= Reserve + (IF shared /\ phase' # "done" THEN Destination ELSE 0)
    <2>1. CASE shared
      BY <1>1, <1>3, <2>1 DEF Kept
    <2>2. CASE ~shared
      BY <1>1, <1>3, <2>2 DEF Kept
    <2> QED
      BY <2>1, <2>2
  <1> QED
    BY <1>2, <1>4 DEF Spends

LEMMA Surplus ==
    ASSUME NEW a \in Nat, NEW b \in Nat, NEW c \in Nat, NEW d \in Nat, a + b >= c + d
    PROVE  a + b >= c
  OBVIOUS

LEMMA ReserveStep ==
    ASSUME Typed, PipeInv, RoomLeft, Next
    PROVE  Spends
  <1> USE DEF Typed
  <1>1. Kept \in Nat /\ free \in Nat /\ outside \in Nat
    BY CheckedRoom
  <1>0. free' \in Nat
    BY NextTyped, StoreAssumption DEF StoreTypeOK
  <1>2. CASE free' = free
    BY <1>1, <1>2 DEF Spends
  <1>3. ASSUME NEW c \in Chunk, PutVerified(c), Verified(c) \/ CheckState(Size[c])
        PROVE  Spends
    <2>1. Size[c] \in Nat
      BY StoreAssumption
    <2>2. CASE Verified(c)
      BY <1>2, <1>3, <2>2 DEF PutVerified
    <2>3. CASE ~Verified(c)
      <3>1. free >= Size[c] + Kept /\ free' = free - Size[c]
        BY <1>3, <2>1, <2>3, CheckedRoom DEF PutVerified
      <3>2. free' + outside >= Kept
        BY <1>1, <2>1, <3>1
      <3> QED
        BY <3>2, <1>0, KeepsReserve
    <2> QED
      BY <2>2, <2>3
  <1>4. CASE Turn \/ StartFill \/ EndFill \/ StartReceive \/ EndPull \/ StartIngest \/ IngestFails
    <2>1. UNCHANGED store
      BY <1>4, TurnIs DEF StartFill, EndFill, StartReceive, EndPull, StartIngest, IngestFails
    <2> QED
      BY <1>2, <2>1 DEF store
  <1>5. CASE ReceiveStep
    BY <1>2, <1>5, ReceiverTyped DEF ReceiveStep, store
  <1>6. CASE FillStep
    <2>1. CASE UNCHANGED store
      BY <1>2, <2>1 DEF store
    <2>2. CASE \E f \in fetches, c \in Chunk : StoreChunk(f, c)
      BY <1>3, <2>2 DEF StoreChunk
    <2> QED
      BY <1>6, <2>1, <2>2 DEF FillStep, Progress, Join
  <1>7. CASE Ingest
    <2>1. Head(expected) \in Chunk
      BY <1>7, RangeEnds DEF Ingest, PipeTyped
    <2> QED
      BY <1>3, <1>7, <2>1 DEF Ingest
  <1>8. CASE WriteTask
    <2>1. phase = "receive" /\ phase' = phase
      BY <1>8 DEF WriteTask, PipeInv, PipeState, PhaseTyped
    <2>2. free' + outside' >= Kept' + Bytes(Missing')
      BY <2>1, RoomStep DEF RoomLeft
    <2>3. Bytes(Missing') \in Nat
      <3>1. Missing' \in SUBSET Chunk
        BY DEF Missing
      <3> QED
        BY <3>1, BytesFacts
    <2>4. outside' = outside /\ shared' = shared
      BY <1>8, TaskIs DEF WriteTask, NextWrite, Install, Sync
    <2>5. Kept' = Kept
      BY <2>4 DEF Kept
    <2> DEFINE b == Bytes(Missing')
    <2>6. b \in Nat /\ free' + outside >= Kept + b
      BY <2>2, <2>3, <2>4, <2>5
    <2> HIDE DEF b
    <2>7. free' + outside >= Kept
      BY <1>0, <1>1, <2>6, Surplus
    <2> QED
      BY <2>7, <1>0, KeepsReserve
  <1>9. CASE Materialize
    BY <1>1, <1>9, CheckedRoom, StoreAssumption DEF Materialize, Spends, Kept, StoreTypeOK
  <1>10. CASE Crash
    <2>1. PICK t \in Torn : Bytes(t) <= free /\ free' = free - Bytes(t)
      BY <1>10 DEF Crash, PowerLoss
    <2>2. t \in SUBSET Missing /\ Missing \in SUBSET Chunk
      BY TornMissing DEF Missing
    <2>3. Bytes(t) \in Nat /\ Bytes(Missing) \in Nat /\ Bytes(t) <= Bytes(Missing)
      BY <2>2, BytesFacts
    <2>4. CASE t = {}
      <3>1. Bytes({}) = 0
        BY <2>2, BytesFacts
      <3>2. Bytes(t) = Bytes({})
        BY <2>4, Zenon
      <3> QED
        BY <1>1, <1>2, <2>1, <3>1, <3>2
    <2>5. CASE t \in SUBSET Writing /\ t # {}
      <3>1. Writing # {}
        BY <2>5
      <3>2. Range(inflight) # {}
        BY <3>1 DEF Writing
      <3>3. phase = "receive"
        BY <3>2, RangeEmpty DEF PipeInv, PipeState, PhaseTyped
      <3>4. free + outside >= Kept + Bytes(Missing)
        BY <3>3 DEF RoomLeft
      <3>5. free' + outside >= Kept
        BY <1>1, <2>1, <2>3, <3>4
      <3> QED
        BY <3>5, <1>0, KeepsReserve
    <2>6. ASSUME NEW c \in Missing, t = {c}, CheckState(Size[c])
          PROVE  Spends
      <3>1. Bytes({c}) = Size[c] /\ Size[c] \in Nat
        BY <2>2, <2>6, BytesFacts
      <3>2. Bytes(t) = Bytes({c})
        BY <2>6, Zenon
      <3>3. free >= Size[c] + Kept
        BY <2>6, <3>1, CheckedRoom
      <3>4. free' + outside >= Kept
        BY <1>1, <2>1, <3>1, <3>2, <3>3
      <3> QED
        BY <3>4, <1>0, KeepsReserve
    <2>7. t \in SUBSET Writing \/ \E c \in Missing : t = {c} /\ CheckState(Size[c])
      BY DEF Torn
    <2> QED
      BY <2>4, <2>5, <2>6, <2>7
  <1>11. CASE Outside
    BY <1>1, <1>11 DEF Outside, Consume, Spends
  <1> QED
    BY <1>4, <1>5, <1>6, <1>7, <1>8, <1>9, <1>10, <1>11 DEF Next, Turn

-----------------------------------------------------------------------------
(* The fill. *)

\* Covered: what is missing is wanted, and everything queued, asked for or
\* still open is too.
Covered ==
    /\ phase = "fill" => Missing \subseteq wanted
    /\ remaining \subseteq wanted
    /\ \A s \in Source : queue[s] \subseteq wanted
    /\ \A f \in fetches : f.assigned \subseteq wanted

\* FetchState: what an answer named is of what was asked for, and what it named
\* present and is no longer to be stored is in the store.
GoodFetch(f) ==
    /\ f.present \subseteq f.assigned /\ f.missing \subseteq f.assigned
    /\ f.at \in {"read", "ok"} =>
          \A c \in f.assigned : c \in f.present \/ c \in f.missing \/ Verified(c)
    /\ f.at = "ok" => f.present = {}
FetchState == \A f \in fetches : GoodFetch(f)

\* Open: the strengthening of Accounted's first part: a chunk that is still open
\* is somewhere, though another fetch may have stored it meanwhile.
Somewhere(c) ==
    \/ \E s \in Source \ disabled : c \in queue[s]
    \/ \E f \in fetches : c \in f.assigned
    \/ c \in remaining /\ \A s \in peers : c \notin available[s]
Open == fault = {} => \A c \in wanted : ~Verified(c) \/ c \in remaining => Somewhere(c)

\* Once: no chunk is at two places.
Once ==
    fault = {} =>
       /\ \A s, t \in Source : s # t => queue[s] \cap queue[t] = {}
       /\ \A f \in fetches, s \in Source : f.assigned \cap queue[s] = {}
       /\ \A f, g \in fetches : f # g => f.assigned \cap g.assigned = {}

\* HonestTrusted: an honest source is never given up, and whatever it holds stays
\* advertised.
HonestFetch(f) ==
    f.source \in Honest => f.at # "source" /\ f.missing \cap held[f.source] = {}
HonestTrusted ==
    /\ phase = "fill" => Honest \subseteq peers \ disabled
    /\ \A h \in Honest : held[h] \subseteq available[h]
    /\ \A f \in fetches : HonestFetch(f)

HonestHolds == \A c \in wanted : \E h \in Honest : c \in held[h]
NoSourceError == HonestHolds => "source" \notin fault

FillInv == Covered /\ FetchState /\ Open /\ Once /\ HonestTrusted /\ NoSourceError

LEMMA IdleInv ==
    /\ FillTypeOK /\ FillIdle /\ phase # "fill" => FillInv
    /\ FillTypeOK' /\ FillIdle' /\ phase' # "fill" => FillInv'
  <1>1. FillTypeOK /\ FillIdle /\ phase # "fill" => FillInv
    <2> HAVE FillTypeOK /\ FillIdle /\ phase # "fill"
    <2>1. \A s \in Source : queue[s] = {} /\ held[s] = {}
      BY DEF FillIdle, NoChunks
    <2> QED
      BY <2>1, FillAssumption DEF FillInv, FillIdle, Covered, FetchState, Open, Once, HonestTrusted, NoSourceError
  <1>2. FillTypeOK' /\ FillIdle' /\ phase' # "fill" => FillInv'
    <2> HAVE FillTypeOK' /\ FillIdle' /\ phase' # "fill"
    <2>1. \A s \in Source : queue'[s] = {} /\ held'[s] = {}
      BY DEF FillIdle, NoChunks
    <2> QED
      BY <2>1, FillAssumption DEF FillInv, FillIdle, Covered, FetchState, Open, Once, HonestTrusted, NoSourceError
  <1> QED
    BY <1>1, <1>2

\* Where Enqueue puts the chunks.
Spread(q, D, g) == \A s \in Source : queue'[s] = q[s] \cup {c \in D : g[c] = s}

\* ReassignIs: either every chunk goes to an eligible source, or one of them has
\* no source left.
LEMMA ReassignIs ==
    ASSUME NEW D, NEW d, NEW adverts, NEW q, Reassign(D, d, adverts, q)
    PROVE  \/ fault' = fault /\ \E g \in [D -> peers \ d] : Spread(q, D, g)
           \/ /\ fault' = fault \cup {"source"} /\ queue' = q
              /\ \E c \in D : \A s \in peers \ d : c \notin adverts[s]
  <1>1. CASE \E g \in Schedule(D, peers \ d, adverts) : queue' = Enqueue(q, g) /\ fault' = fault
    <2>1. PICK g \in [D -> peers \ d] : queue' = Enqueue(q, g) /\ fault' = fault
      BY <1>1 DEF Schedule
    <2>2. Spread(q, D, g)
      BY <2>1 DEF Enqueue, Spread
    <2> QED
      BY <2>1, <2>2
  <1>2. CASE /\ Schedule(D, peers \ d, adverts) = {}
             /\ fault' = fault \cup {"source"} /\ queue' = q
    <2> SUFFICES ASSUME \A c \in D : \E s \in peers \ d : c \in adverts[s]
                 PROVE  FALSE
      BY <1>2
    <2> DEFINE g == [c \in D |-> CHOOSE s \in peers \ d : c \in adverts[s]]
    <2>1. g \in [D -> peers \ d] /\ \A c \in D : c \in adverts[g[c]]
      OBVIOUS
    <2>2. g \in Schedule(D, peers \ d, adverts)
      BY <2>1 DEF Schedule
    <2> QED
      BY <1>2, <2>2
  <1> QED
    BY <1>1, <1>2 DEF Reassign

\* OpenFill establishes the invariant.
LEMMA OpenInv ==
    ASSUME FillTyped, FillIdle, OpenFill, UNCHANGED store
    PROVE  FillInv'
  <1>1. Missing \in SUBSET Chunk
    BY MissingChunks
  <1>2. PICK p \in SUBSET Source, has \in [Honest -> SUBSET Missing] :
        \E a \in {f \in [Source -> SUBSET Missing] :
                     \A s \in Source : f[s] \in IF s \in p THEN Adverts(s, has, Missing) ELSE {{}}} :
           /\ Honest \subseteq p /\ p # {}
           /\ peers' = p /\ available' = a
           /\ held' = [s \in Source |-> IF s \in Honest THEN has[s] ELSE {}]
           /\ \E g \in Schedule(Advertised(Missing, p, a), p, a) : queue' = Enqueue(NoChunks, g)
    BY DEF OpenFill, Answered
  <1>3. PICK a \in [Source -> SUBSET Missing] :
           /\ \A s \in Source : a[s] \in IF s \in p THEN Adverts(s, has, Missing) ELSE {{}}
           /\ Honest \subseteq p
           /\ peers' = p /\ available' = a
           /\ held' = [s \in Source |-> IF s \in Honest THEN has[s] ELSE {}]
           /\ \E g \in Schedule(Advertised(Missing, p, a), p, a) : queue' = Enqueue(NoChunks, g)
    BY <1>2
  <1> DEFINE D == Advertised(Missing, p, a)
  <1>4. PICK g \in [D -> p] : queue' = Enqueue(NoChunks, g)
    BY <1>3 DEF Schedule
  <1>5. \A s \in Source : queue'[s] = {c \in D : g[c] = s}
    BY <1>4 DEF Enqueue, NoChunks
  <1>6. D \subseteq Missing /\ \A c \in Missing \ D : \A s \in p : c \notin a[s]
    BY DEF Advertised
  <1> HIDE DEF D
  <1>7. /\ wanted' = Missing /\ remaining' = Missing /\ Missing' = Missing
        /\ fetches' = {} /\ disabled' = {} /\ fault' = {}
    BY DEF OpenFill, FillIdle, Missing, Verified, store
  <1>8. Covered'
    BY <1>5, <1>6, <1>7 DEF Covered
  <1>9. FetchState' /\ NoSourceError'
    BY <1>7 DEF FetchState, NoSourceError
  <1>10. Open'
    <2> SUFFICES ASSUME NEW c \in Missing PROVE Somewhere(c)'
      BY <1>7 DEF Open
    <2>1. CASE c \in D
      <3>1. g[c] \in Source \ disabled' /\ c \in queue'[g[c]]
        BY <1>4, <1>5, <1>7, <2>1
      <3> QED
        BY <3>1 DEF Somewhere
    <2>2. CASE c \notin D
      BY <1>3, <1>6, <1>7, <2>2 DEF Somewhere
    <2> QED
      BY <2>1, <2>2
  <1>11. Once'
    BY <1>5, <1>7 DEF Once
  <1>12. HonestTrusted'
    <2>1. \A h \in Honest : held'[h] \subseteq available'[h]
      <3> TAKE h \in Honest
      <3>1. h \in Source /\ h \in p
        BY <1>3, FillAssumption
      <3>2. a[h] = has[h] \cap Missing
        BY <1>3, <3>1 DEF Adverts, ServedAvailability
      <3>3. has[h] \subseteq Missing
        OBVIOUS
      <3> QED
        BY <1>3, <3>1, <3>2, <3>3
    <2> QED
      BY <1>3, <1>7, <2>1 DEF HonestTrusted
  <1> QED
    BY <1>8, <1>9, <1>10, <1>11, <1>12 DEF FillInv

LEMMA SpawnInv ==
    ASSUME FillTyped, FillInv, NEW s \in Source, Spawn(s), UNCHANGED store, phase' = phase
    PROVE  FillInv'
  <1> USE DEF FillInv
  <1>1. PICK b \in SUBSET queue[s] :
           /\ queue' = [queue EXCEPT ![s] = @ \ b]
           /\ fetches' = fetches \cup {[source |-> s, assigned |-> b, at |-> "ask",
                                        present |-> {}, missing |-> {}]}
    BY DEF Spawn
  <1> DEFINE g == [source |-> s, assigned |-> b, at |-> "ask", present |-> {}, missing |-> {}]
  <1>2. g.source = s /\ g.assigned = b /\ g.at = "ask" /\ g.present = {} /\ g.missing = {}
    OBVIOUS
  <1> HIDE DEF g
  <1>3. fetches' = fetches \cup {g}
    BY <1>1 DEF g
  <1>4. /\ queue'[s] = queue[s] \ b
        /\ \A t \in Source : t # s => queue'[t] = queue[t]
        /\ \A t \in Source : queue'[t] \subseteq queue[t]
    BY <1>1 DEF FillTyped, FillTypeOK
  <1>5. UNCHANGED <<held, wanted, available, peers, remaining, retried, disabled, fault>>
        /\ Missing' = Missing /\ \A c : Verified(c)' = Verified(c)
    BY DEF Spawn, Missing, Verified, store
  <1>6. Covered'
    BY <1>2, <1>3, <1>4, <1>5 DEF Covered
  <1>7. FetchState'
    <2>1. GoodFetch(g)'
      BY <1>2 DEF GoodFetch
    <2>2. \A f \in fetches : GoodFetch(f)'
      BY <1>5 DEF FetchState, GoodFetch
    <2> QED
      BY <1>3, <2>1, <2>2 DEF FetchState
  <1>8. Open'
    <2> SUFFICES ASSUME fault = {}, NEW c \in wanted, ~Verified(c) \/ c \in remaining
                 PROVE  Somewhere(c)'
      BY <1>5 DEF Open
    <2>1. Somewhere(c)
      BY DEF Open
    <2>2. CASE \E t \in Source \ disabled : c \in queue[t]
      <3>1. PICK t \in Source \ disabled : c \in queue[t]
        BY <2>2
      <3>2. CASE c \in queue'[t]
        BY <1>5, <3>1, <3>2 DEF Somewhere
      <3>3. CASE c \notin queue'[t]
        <4>1. c \in g.assigned
          BY <1>2, <1>4, <3>1, <3>3
        <4> QED
          BY <1>3, <4>1 DEF Somewhere
      <3> QED
        BY <3>2, <3>3
    <2>3. CASE \E f \in fetches : c \in f.assigned
      BY <1>3, <2>3 DEF Somewhere
    <2>4. CASE c \in remaining /\ \A t \in peers : c \notin available[t]
      BY <1>5, <2>4 DEF Somewhere
    <2> QED
      BY <2>1, <2>2, <2>3, <2>4 DEF Somewhere
  <1>9. Once'
    <2>1. CASE fault = {}
      <3>1. \A t, u \in Source : t # u => queue'[t] \cap queue'[u] = {}
        BY <1>4, <2>1 DEF Once
      <3>2. \A f \in fetches, t \in Source : f.assigned \cap queue[t] = {}
        BY <2>1 DEF Once
      <3>3. \A t \in Source : b \cap queue'[t] = {}
        BY <1>4, <2>1 DEF Once
      <3>4. \A f \in fetches : f.assigned \cap b = {}
        BY <3>2
      <3>5. \A f \in fetches', t \in Source : f.assigned \cap queue'[t] = {}
        BY <1>2, <1>3, <1>4, <3>2, <3>3
      <3>6. \A f, h \in fetches' : f # h => f.assigned \cap h.assigned = {}
        BY <1>2, <1>3, <2>1, <3>4 DEF Once
      <3> QED
        BY <3>1, <3>5, <3>6 DEF Once
    <2>2. CASE fault # {}
      BY <1>5, <2>2 DEF Once
    <2> QED
      BY <2>1, <2>2
  <1>10. HonestTrusted'
    <2>1. HonestFetch(g)'
      BY <1>2 DEF HonestFetch
    <2> QED
      BY <1>3, <1>5, <2>1 DEF HonestTrusted, HonestFetch
  <1>11. NoSourceError'
    BY <1>5 DEF NoSourceError, HonestHolds
  <1> QED
    BY <1>6, <1>7, <1>8, <1>9, <1>10, <1>11

\* A fetch that goes on keeps its source and its chunks.
LEMMA BecomeInv ==
    ASSUME FillTyped, FillInv, NEW f \in fetches, NEW g, Become(f, g),
           g.source = f.source, g.assigned = f.assigned, GoodFetch(g)', HonestFetch(g),
           UNCHANGED network, phase' = phase, \A c \in Chunk : Verified(c) => Verified(c)'
    PROVE  FillInv'
  <1> USE DEF FillInv
  <1>1. fetches' = (fetches \ {f}) \cup {g}
    BY DEF Become
  <1>2. UNCHANGED <<held, wanted, available, peers, queue, remaining, retried, disabled, fault>>
    BY DEF network
  <1>3. Missing' \subseteq Missing /\ \A c \in Chunk : ~Verified(c)' => ~Verified(c)
    BY DEF Missing
  <1>4. Covered'
    BY <1>1, <1>2, <1>3 DEF Covered
  <1>5. FetchState'
    <2>1. ASSUME NEW h \in fetches PROVE GoodFetch(h)'
      <3>1. GoodFetch(h)
        BY DEF FetchState
      <3>2. h.assigned \subseteq Chunk
        BY DEF FillTyped, FillTypeOK, Fetch
      <3> QED
        BY <1>3, <3>1, <3>2 DEF GoodFetch
    <2> QED
      BY <1>1, <2>1 DEF FetchState
  <1>6. Open'
    <2> SUFFICES ASSUME fault = {}, NEW c \in wanted, ~Verified(c)' \/ c \in remaining
                 PROVE  Somewhere(c)'
      BY <1>2 DEF Open
    <2>1. Somewhere(c)
      BY <1>3 DEF Open, FillTyped, FillTypeOK
    <2> QED
      BY <1>1, <1>2, <2>1 DEF Somewhere
  <1>7. Once'
    <2>1. CASE fault = {}
      <3>1. \A h \in fetches', s \in Source : h.assigned \cap queue'[s] = {}
        BY <1>1, <1>2, <2>1 DEF Once
      <3>2. \A h, k \in fetches' : h # k => h.assigned \cap k.assigned = {}
        BY <1>1, <2>1 DEF Once
      <3>3. \A s, t \in Source : s # t => queue'[s] \cap queue'[t] = {}
        BY <1>2, <2>1 DEF Once
      <3> QED
        BY <3>1, <3>2, <3>3 DEF Once
    <2>2. CASE fault # {}
      BY <1>2, <2>2 DEF Once
    <2> QED
      BY <2>1, <2>2
  <1>8. HonestTrusted'
    <2>1. \A h \in fetches' : HonestFetch(h)
      BY <1>1 DEF HonestTrusted
    <2>2. \A h \in fetches' : HonestFetch(h)'
      BY <1>2, <2>1 DEF HonestFetch
    <2> QED
      BY <1>2, <2>2 DEF HonestTrusted
  <1>9. NoSourceError'
    BY <1>2 DEF NoSourceError, HonestHolds
  <1> QED
    BY <1>4, <1>5, <1>6, <1>7, <1>8, <1>9

LEMMA ProgressInv ==
    ASSUME Typed, FillInv, NEW f \in fetches, Progress(f), phase' = phase
    PROVE  FillInv'
  <1> USE DEF Typed
  <1>1. f \in Fetch /\ GoodFetch(f) /\ HonestFetch(f)
    BY DEF FillTyped, FillTypeOK, FillInv, FetchState, HonestTrusted
  <1>2. CASE Reply(f) /\ UNCHANGED store
    <2>1. PICK p \in SUBSET f.assigned, m \in SUBSET f.assigned :
             /\ f.source \in Honest => m = ServedMissing(f.source, f.assigned)
             /\ ValidOutcomes(f.assigned, p, m)
             /\ Become(f, [f EXCEPT !.at = "read", !.present = p, !.missing = m])
      BY <1>2 DEF Reply
    <2> DEFINE g == [f EXCEPT !.at = "read", !.present = p, !.missing = m]
    <2>2. g.source = f.source /\ g.assigned = f.assigned /\ g.at = "read" /\ g.present = p /\ g.missing = m
      BY <1>1 DEF Fetch
    <2>3. Become(f, g)
      BY <2>1
    <2> HIDE DEF g
    <2>4. GoodFetch(g)'
      BY <2>1, <2>2 DEF GoodFetch, ValidOutcomes
    <2>5. HonestFetch(g)
      BY <2>1, <2>2 DEF HonestFetch, ServedMissing
    <2> QED
      BY <1>2, <2>2, <2>3, <2>4, <2>5, BecomeInv DEF Reply, Verified, store
  <1>3. CASE SourceFails(f) /\ UNCHANGED store
    <2> DEFINE g == [f EXCEPT !.at = "source"]
    <2>1. g.source = f.source /\ g.assigned = f.assigned /\ g.at = "source"
          /\ g.present = f.present /\ g.missing = f.missing
      BY <1>1 DEF Fetch
    <2>2. Become(f, g) /\ UNCHANGED network /\ f.source \notin Honest
      BY <1>3 DEF SourceFails
    <2> HIDE DEF g
    <2>3. GoodFetch(g)' /\ HonestFetch(g)
      BY <1>1, <2>1, <2>2 DEF GoodFetch, HonestFetch
    <2> QED
      BY <1>3, <2>1, <2>2, <2>3, BecomeInv DEF Verified, store
  <1>4. CASE StoreFails(f) /\ UNCHANGED store
    <2> DEFINE g == [f EXCEPT !.at = "local"]
    <2>1. g.source = f.source /\ g.assigned = f.assigned /\ g.at = "local"
          /\ g.present = f.present /\ g.missing = f.missing
      BY <1>1 DEF Fetch
    <2>2. Become(f, g) /\ UNCHANGED network
      BY <1>4 DEF StoreFails
    <2> HIDE DEF g
    <2>3. GoodFetch(g)' /\ HonestFetch(g)
      BY <1>1, <2>1, <2>2 DEF GoodFetch, HonestFetch
    <2> QED
      BY <1>4, <2>1, <2>2, <2>3, BecomeInv DEF Verified, store
  <1>5. CASE FetchEnds(f) /\ UNCHANGED store
    <2> DEFINE g == [f EXCEPT !.at = "ok"]
    <2>1. g.source = f.source /\ g.assigned = f.assigned /\ g.at = "ok"
          /\ g.present = f.present /\ g.missing = f.missing
      BY <1>1 DEF Fetch
    <2>2. Become(f, g) /\ UNCHANGED network /\ f.at = "read" /\ f.present = {}
      BY <1>5 DEF FetchEnds
    <2> HIDE DEF g
    <2>3. GoodFetch(g)' /\ HonestFetch(g)
      BY <1>1, <1>5, <2>1, <2>2 DEF GoodFetch, HonestFetch, Verified, store
    <2> QED
      BY <1>5, <2>1, <2>2, <2>3, BecomeInv DEF Verified, store
  <1>6. ASSUME NEW c \in Chunk, StoreChunk(f, c)
        PROVE  FillInv'
    <2> DEFINE g == [f EXCEPT !.present = @ \ {c}]
    <2>1. g.source = f.source /\ g.assigned = f.assigned /\ g.at = f.at
          /\ g.present = f.present \ {c} /\ g.missing = f.missing
      BY <1>1 DEF Fetch
    <2>2. Become(f, g) /\ UNCHANGED network /\ f.at = "read" /\ PutVerified(c)
      BY <1>6 DEF StoreChunk
    <2> HIDE DEF g
    <2>3. Verified(c)' /\ \A d \in Chunk : Verified(d) => Verified(d)'
      BY <2>2, InstallKeeps
    <2>4. f.assigned \subseteq Chunk
      BY <1>1 DEF Fetch
    <2>5. GoodFetch(g)' /\ HonestFetch(g)
      BY <1>1, <2>1, <2>2, <2>3, <2>4 DEF GoodFetch, HonestFetch
    <2> QED
      BY <2>1, <2>2, <2>3, <2>5, BecomeInv
  <1> QED
    BY <1>2, <1>3, <1>4, <1>5, <1>6 DEF Progress

\* When a fetch leaves and chunks are spread over the queues, no chunk comes to
\* be at two places,
LEMMA OnceSpread ==
    ASSUME FillTyped, Once, fault = {}, NEW f \in fetches, fetches' = fetches \ {f},
           NEW D, NEW q, NEW E, NEW g \in [D -> E], Spread(q, D, g),
           D \subseteq f.assigned \cup queue[f.source],
           \A s \in Source : q[s] \subseteq queue[s] /\ D \cap q[s] = {}
    PROVE  Once'
  <1>1. /\ \A s, t \in Source : s # t => queue[s] \cap queue[t] = {}
        /\ \A h \in fetches, s \in Source : h.assigned \cap queue[s] = {}
        /\ \A h, k \in fetches : h # k => h.assigned \cap k.assigned = {}
    BY DEF Once
  <1>2. f.source \in Source
    BY DEF FillTyped, FillTypeOK, Fetch
  <1>3. ASSUME NEW s \in Source, NEW t \in Source, s # t, NEW c \in queue'[s] \cap queue'[t]
        PROVE  FALSE
    <2>1. (c \in q[s] \/ (c \in D /\ g[c] = s)) /\ (c \in q[t] \/ (c \in D /\ g[c] = t))
      BY <1>3 DEF Spread
    <2>2. q[s] \cap q[t] = {}
      BY <1>1, <1>3
    <2>3. c \in D => c \notin q[s] /\ c \notin q[t]
      OBVIOUS
    <2> QED
      BY <1>3, <2>1, <2>2, <2>3
  <1>4. ASSUME NEW h \in fetches', NEW s \in Source, NEW c \in h.assigned \cap queue'[s]
        PROVE  FALSE
    <2>1. h \in fetches /\ h # f
      OBVIOUS
    <2>2. c \in q[s] \/ c \in D
      BY DEF Spread
    <2>3. c \in queue[s] \/ c \in f.assigned \/ c \in queue[f.source]
      BY <2>2
    <2> QED
      BY <1>1, <1>2, <2>1, <2>3
  <1>5. \A h, k \in fetches' : h # k => h.assigned \cap k.assigned = {}
    BY <1>1
  <1> QED
    BY <1>3, <1>4, <1>5 DEF Once

\* nor is an open chunk lost.
LEMMA OpenSpread ==
    ASSUME Open, fault = {}, NEW f \in fetches, fetches' = fetches \ {f},
           NEW D, NEW q, NEW g \in [D -> Source \ disabled'], Spread(q, D, g),
           \A c \in f.assigned : ~Verified(c) \/ c \in remaining' => c \in D,
           \A t \in Source \ disabled : \A c \in queue[t] : c \in D \/ (t \notin disabled' /\ c \in q[t]),
           \A c : c \notin f.assigned => (c \in remaining' <=> c \in remaining),
           \A s \in peers : available'[s] \subseteq available[s],
           UNCHANGED <<wanted, peers>>, UNCHANGED store
    PROVE  Open'
  <1> SUFFICES ASSUME NEW c \in wanted, ~Verified(c) \/ c \in remaining'
               PROVE  Somewhere(c)'
    BY DEF Open, Verified, store
  <1>1. ASSUME c \in D
        PROVE  Somewhere(c)'
    <2>1. g[c] \in Source \ disabled' /\ c \in queue'[g[c]]
      BY <1>1 DEF Spread
    <2> QED
      BY <2>1 DEF Somewhere
  <1>2. CASE c \in f.assigned
    BY <1>1, <1>2
  <1>3. CASE c \notin f.assigned
    <2>1. Somewhere(c)
      BY <1>3 DEF Open
    <2>2. ASSUME NEW t \in Source \ disabled, c \in queue[t]
          PROVE  Somewhere(c)'
      <3>1. c \in D \/ (t \notin disabled' /\ c \in queue'[t])
        BY <2>2 DEF Spread
      <3> QED
        BY <1>1, <3>1 DEF Somewhere
    <2>3. CASE \E h \in fetches : c \in h.assigned
      BY <1>3, <2>3 DEF Somewhere
    <2>4. CASE c \in remaining /\ \A s \in peers : c \notin available[s]
      BY <1>3, <2>4 DEF Somewhere
    <2> QED
      BY <2>1, <2>2, <2>3, <2>4 DEF Somewhere
  <1> QED
    BY <1>2, <1>3

\* With an honest source for every wanted chunk no reassignment fails.
LEMMA HonestReassign ==
    ASSUME NEW D, NEW d, NEW adverts, NEW q, Reassign(D, d, adverts, q),
           D \subseteq wanted, HonestHolds, "source" \notin fault,
           Honest \subseteq peers \ d, \A h \in Honest : held[h] \subseteq adverts[h]
    PROVE  "source" \notin fault'
  <1>1. \A c \in D : \E s \in peers \ d : c \in adverts[s]
    BY DEF HonestHolds
  <1> QED
    BY <1>1, ReassignIs

\* The queues after a reassignment hold nothing new but what was reassigned.
LEMMA ReassignWithin ==
    ASSUME NEW D, NEW d, NEW adverts, NEW q, Reassign(D, d, adverts, q)
    PROVE  /\ \A s \in Source : queue'[s] \subseteq q[s] \cup D
           /\ fault \subseteq fault'
  BY ReassignIs DEF Spread

\* What all the joins have in common.
LEMMA LeaveInv ==
    ASSUME FillInv, FillTyped, NEW f \in fetches, fetches' = fetches \ {f},
           UNCHANGED <<held, wanted, peers>>, UNCHANGED store, phase' = phase,
           remaining' \subseteq wanted, \A s \in Source : queue'[s] \subseteq wanted,
           f.source \in Honest => disabled' = disabled,
           disabled' \subseteq disabled \cup {f.source},
           \A h \in Honest : held[h] \subseteq available'[h]
    PROVE  Covered' /\ FetchState' /\ HonestTrusted'
  <1>1. Missing' = Missing /\ \A c : Verified(c)' = Verified(c)
    BY DEF Missing, Verified, store
  <1>2. Covered'
    BY <1>1 DEF FillInv, Covered
  <1>3. FetchState'
    BY <1>1 DEF FillInv, FetchState, GoodFetch
  <1>4. HonestTrusted'
    BY DEF FillInv, HonestTrusted, HonestFetch
  <1> QED
    BY <1>2, <1>3, <1>4

LEMMA JoinOkInv ==
    ASSUME FillTyped, FillInv, NEW f \in fetches, JoinOk(f), UNCHANGED store, phase' = phase, phase = "fill"
    PROVE  FillInv'
  <1> USE DEF FillInv
  <1>1. /\ f.at = "ok" /\ fetches' = fetches \ {f} /\ remaining' = remaining \ f.assigned
        /\ available' = [available EXCEPT ![f.source] = @ \ f.missing]
        /\ UNCHANGED <<held, wanted, peers, retried, disabled>>
        /\ \/ (f.missing = {} \/ "source" \in fault) /\ queue' = queue /\ fault' = fault
           \/ Reassign(f.missing, disabled, available', queue)
    BY DEF JoinOk
  <1>2. /\ f.source \in Source /\ f.assigned \subseteq wanted /\ f.missing \subseteq f.assigned
        /\ f.assigned \subseteq Chunk /\ available \in [Source -> SUBSET Chunk]
        /\ \A c \in f.assigned : c \in f.missing \/ Verified(c)
    BY <1>1 DEF FillTyped, FillTypeOK, Fetch, Covered, FetchState, GoodFetch
  <1>3. /\ \A s \in Source : available'[s] \subseteq available[s]
        /\ \A h \in Honest : held[h] \subseteq available'[h]
    <2>1. \A s \in Source : available'[s] = IF s = f.source THEN available[s] \ f.missing ELSE available[s]
      BY <1>1, <1>2
    <2>2. HonestFetch(f) /\ \A h \in Honest : held[h] \subseteq available[h]
      BY DEF HonestTrusted
    <2>3. f.source \in Honest => f.missing \cap held[f.source] = {}
      BY <2>2 DEF HonestFetch
    <2> QED
      BY <2>1, <2>2, <2>3, FillAssumption
  <1>4. /\ \A s \in Source : queue'[s] \subseteq wanted
        /\ fault \subseteq fault'
    <2>1. CASE queue' = queue /\ fault' = fault
      BY <2>1 DEF Covered
    <2>2. CASE Reassign(f.missing, disabled, available', queue)
      BY <1>2, <2>2, ReassignWithin DEF Covered
    <2> QED
      BY <1>1, <2>1, <2>2
  <1>5. Covered' /\ FetchState' /\ HonestTrusted'
    <2>1. remaining' \subseteq wanted
      BY <1>1 DEF Covered
    <2> QED
      BY <1>1, <1>3, <1>4, <2>1, LeaveInv
  <1>6. CASE fault' = {}
    <2>1. fault = {}
      BY <1>4, <1>6
    <2>2. PICK g \in [f.missing -> Source \ disabled'] : Spread(queue, f.missing, g)
      <3>1. CASE f.missing = {} /\ queue' = queue
        <4> DEFINE g == [c \in f.missing |-> f.source]
        <4>1. g \in [f.missing -> Source \ disabled'] /\ Spread(queue, f.missing, g)
          BY <3>1 DEF Spread
        <4> QED
          BY <4>1
      <3>2. CASE Reassign(f.missing, disabled, available', queue)
        <4>1. "source" \notin fault'
          BY <1>6
        <4>2. PICK g \in [f.missing -> peers \ disabled] : Spread(queue, f.missing, g)
          BY <3>2, <4>1, ReassignIs
        <4>3. g \in [f.missing -> Source \ disabled']
          BY <1>1, <4>2 DEF FillTyped, FillTypeOK
        <4> QED
          BY <4>2, <4>3
      <3> QED
        BY <1>1, <2>1, <3>1, <3>2
    <2>3. Once'
      <3>1. \A s \in Source : f.missing \cap queue[s] = {}
        BY <1>2, <2>1 DEF Once
      <3>2. f.missing \subseteq f.assigned \cup queue[f.source]
        BY <1>2
      <3>3. \A s \in Source : queue[s] \subseteq queue[s] /\ f.missing \cap queue[s] = {}
        BY <3>1
      <3>4. fetches' = fetches \ {f} /\ Once
        BY <1>1
      <3> HIDE DEF FillInv
      <3> QED
        BY <2>1, <2>2, <3>2, <3>3, <3>4, OnceSpread
    <2>4. Open'
      <3>1. \A c \in f.assigned : ~Verified(c) \/ c \in remaining' => c \in f.missing
        BY <1>1, <1>2
      <3>2. \A t \in Source \ disabled : \A c \in queue[t] :
               c \in f.missing \/ (t \notin disabled' /\ c \in queue[t])
        BY <1>1
      <3>3. \A c : c \notin f.assigned => (c \in remaining' <=> c \in remaining)
        BY <1>1
      <3>4. \A s \in peers : available'[s] \subseteq available[s]
        BY <1>3 DEF FillTyped, FillTypeOK
      <3> QED
        BY <1>1, <2>1, <2>2, <3>1, <3>2, <3>3, <3>4, OpenSpread
    <2>5. NoSourceError'
      BY <1>6 DEF NoSourceError
    <2> QED
      BY <1>5, <2>3, <2>4, <2>5
  <1>7. CASE fault' # {}
    <2>1. Once' /\ Open'
      BY <1>7 DEF Once, Open
    <2>2. NoSourceError'
      <3> SUFFICES ASSUME HonestHolds PROVE "source" \notin fault'
        BY <1>1 DEF NoSourceError, HonestHolds
      <3>1. "source" \notin fault
        BY DEF NoSourceError
      <3>2. CASE fault' = fault
        BY <3>1, <3>2
      <3>3. CASE Reassign(f.missing, disabled, available', queue)
        <4>1. Honest \subseteq peers \ disabled /\ f.missing \subseteq wanted
          BY <1>2 DEF HonestTrusted
        <4> QED
          BY <1>3, <3>1, <3>3, <4>1, HonestReassign
      <3> QED
        BY <1>1, <3>2, <3>3
    <2> QED
      BY <1>5, <2>1, <2>2
  <1> QED
    BY <1>6, <1>7

LEMMA JoinSourceInv ==
    ASSUME FillTyped, FillInv, NEW f \in fetches, JoinSource(f), UNCHANGED store, phase' = phase, phase = "fill"
    PROVE  FillInv'
  <1> USE DEF FillInv
  <1> DEFINE s == f.source
             again == AgainOf(f)
             moved == MovedOf(f)
             cleared == ClearedQueue(f)
             all == moved \cup queue[s] \cup again
  <1>1. /\ f.at = "source" /\ fetches' = fetches \ {f}
        /\ remaining' = (remaining \ f.assigned) \cup StillOf(f)
        /\ disabled' = IF moved = {} THEN disabled ELSE disabled \cup {s}
        /\ UNCHANGED <<held, wanted, peers, available>>
        /\ \/ /\ moved = {} /\ fault' = fault
              /\ queue' = [queue EXCEPT ![s] = @ \cup again]
           \/ moved # {} /\ "source" \in fault /\ fault' = fault /\ queue' = cleared
           \/ moved # {} /\ Reassign(all, disabled', available, cleared)
    BY JoinSourceIs
  <1>2. /\ s \in Source /\ f.assigned \subseteq wanted /\ s \notin Honest
        /\ StillOf(f) \subseteq f.assigned /\ StillOf(f) = again \cup moved
        /\ again \subseteq f.assigned /\ moved \subseteq f.assigned
        /\ (again # {} => s \notin disabled)
    BY <1>1 DEF FillTyped, FillTypeOK, Fetch, Covered, HonestTrusted, HonestFetch,
                StillOf, AgainOf, MovedOf
  <1>3. /\ cleared[s] = {} /\ \A t \in Source : cleared[t] = IF t = s THEN {} ELSE queue[t]
        /\ queue \in [Source -> SUBSET Chunk]
    BY <1>2 DEF FillTyped, FillTypeOK, ClearedQueue
  <1>4. StillOf(f) = {c \in f.assigned : ~Verified(c)}
    BY DEF StillOf
  <1> HIDE DEF s, again, moved, cleared
  <1>5. all \subseteq wanted
    BY <1>2 DEF Covered
  <1>6. /\ \A t \in Source : queue'[t] \subseteq wanted
        /\ fault \subseteq fault'
    <2>1. CASE queue' = [queue EXCEPT ![s] = @ \cup again] /\ fault' = fault
      BY <1>2, <1>3, <2>1 DEF Covered
    <2>2. CASE queue' = cleared /\ fault' = fault
      BY <1>3, <2>2 DEF Covered
    <2>3. CASE Reassign(all, disabled', available, cleared)
      <3> HIDE DEF all
      <3>1. \A t \in Source : queue'[t] \subseteq cleared[t] \cup all
        BY <2>3, ReassignWithin
      <3>2. fault \subseteq fault'
        BY <2>3, ReassignWithin
      <3> QED
        BY <1>3, <1>5, <3>1, <3>2 DEF Covered
    <2> QED
      BY <1>1, <2>1, <2>2, <2>3
  <1>7. Covered' /\ FetchState' /\ HonestTrusted'
    <2>1. remaining' \subseteq wanted
      BY <1>1, <1>2 DEF Covered
    <2>2. \A h \in Honest : held[h] \subseteq available'[h]
      BY <1>1 DEF HonestTrusted
    <2>3. disabled' \subseteq disabled \cup {f.source} /\ f.source \notin Honest
      BY <1>1, <1>2 DEF s
    <2>4. fetches' = fetches \ {f} /\ UNCHANGED <<held, wanted, peers>>
      BY <1>1
    <2> QED
      BY <1>6, <2>1, <2>2, <2>3, <2>4, LeaveInv
  <1>8. CASE fault' = {}
    <2>1. fault = {}
      BY <1>6, <1>8
    <2>2. \A c \in f.assigned : ~Verified(c) \/ c \in remaining' => c \in again \cup moved
      BY <1>1, <1>2, <1>4
    <2>3. \A c : c \notin f.assigned => (c \in remaining' <=> c \in remaining)
      BY <1>1, <1>2
    <2>4. \A t \in peers : available'[t] \subseteq available[t]
      BY <1>1
    <2>5. fetches' = fetches \ {f} /\ UNCHANGED <<wanted, peers>>
      BY <1>1
    <2>6. \A t \in Source : f.assigned \cap queue[t] = {}
      BY <2>1 DEF Once
    <2>7. ASSUME moved = {}, queue' = [queue EXCEPT ![s] = @ \cup again]
          PROVE  Once' /\ Open'
      <3> DEFINE g == [c \in again |-> s]
      <3>1. disabled' = disabled
        BY <1>1, <2>7
      <3>2. g \in [again -> Source \ disabled'] /\ \A c \in again : g[c] = s
        BY <1>2, <3>1
      <3> HIDE DEF g
      <3>3. Spread(queue, again, g)
        BY <1>2, <1>3, <2>7, <3>2 DEF Spread
      <3>4. again \subseteq f.assigned \cup queue[f.source]
            /\ \A t \in Source : queue[t] \subseteq queue[t] /\ again \cap queue[t] = {}
        BY <1>2, <2>6
      <3>5. Once'
        BY <2>1, <2>5, <3>2, <3>3, <3>4, OnceSpread
      <3>6. \A c \in f.assigned : ~Verified(c) \/ c \in remaining' => c \in again
        BY <2>2, <2>7
      <3>7. \A t \in Source \ disabled : \A c \in queue[t] :
               c \in again \/ (t \notin disabled' /\ c \in queue[t])
        BY <3>1
      <3>8. Open'
        BY <2>1, <2>3, <2>4, <2>5, <3>2, <3>3, <3>6, <3>7, OpenSpread
      <3> QED
        BY <3>5, <3>8
    <2>8. ASSUME moved # {}, Reassign(all, disabled', available, cleared)
          PROVE  Once' /\ Open'
      <3>1. all \subseteq f.assigned \cup queue[f.source]
            /\ \A t \in Source : cleared[t] \subseteq queue[t] /\ all \cap cleared[t] = {}
        <4>1. all \subseteq f.assigned \cup queue[f.source]
          BY <1>2 DEF s
        <4>2. ASSUME NEW t \in Source
              PROVE  cleared[t] \subseteq queue[t] /\ all \cap cleared[t] = {}
          <5>1. CASE t = s
            BY <1>3, <5>1
          <5>2. CASE t # s
            <6>1. cleared[t] = queue[t] /\ queue[t] \cap queue[s] = {}
              BY <1>2, <1>3, <2>1, <5>2 DEF Once
            <6> QED
              BY <1>2, <2>6, <6>1
          <5> QED
            BY <5>1, <5>2
        <4> QED
          BY <4>1, <4>2
      <3>2. \A c \in f.assigned : ~Verified(c) \/ c \in remaining' => c \in all
        BY <2>2
      <3>3. \A t \in Source \ disabled : \A c \in queue[t] :
               c \in all \/ (t \notin disabled' /\ c \in cleared[t])
        BY <1>1, <1>3
      <3> HIDE DEF all
      <3>4. PICK g \in [all -> peers \ disabled'] : Spread(cleared, all, g)
        BY <1>8, <2>8, ReassignIs
      <3>5. g \in [all -> Source \ disabled']
        BY <3>4 DEF FillTyped, FillTypeOK
      <3>6. Once'
        BY <2>1, <2>5, <3>1, <3>4, <3>5, OnceSpread
      <3>7. Open'
        BY <2>1, <2>3, <2>4, <2>5, <3>2, <3>3, <3>4, <3>5, OpenSpread
      <3> QED
        BY <3>6, <3>7
    <2>9. Once' /\ Open'
      BY <1>1, <2>1, <2>7, <2>8
    <2>10. NoSourceError'
      BY <1>8 DEF NoSourceError
    <2> QED
      BY <1>7, <2>9, <2>10
  <1>9. CASE fault' # {}
    <2>1. Once' /\ Open'
      BY <1>9 DEF Once, Open
    <2>2. NoSourceError'
      <3> SUFFICES ASSUME HonestHolds PROVE "source" \notin fault'
        BY <1>1 DEF NoSourceError, HonestHolds
      <3>1. "source" \notin fault
        BY DEF NoSourceError
      <3>2. CASE fault' = fault
        BY <3>1, <3>2
      <3>3. CASE Reassign(all, disabled', available, cleared)
        <4>1. Honest \subseteq peers \ disabled'
          BY <1>1, <1>2 DEF HonestTrusted
        <4>2. \A h \in Honest : held[h] \subseteq available[h]
          BY DEF HonestTrusted
        <4> HIDE DEF all
        <4> QED
          BY <1>5, <3>1, <3>3, <4>1, <4>2, HonestReassign
      <3> QED
        BY <1>1, <3>2, <3>3
    <2> QED
      BY <1>7, <2>1, <2>2
  <1> QED
    BY <1>8, <1>9

LEMMA JoinLocalInv ==
    ASSUME FillTyped, FillInv, NEW f \in fetches, JoinLocal(f), UNCHANGED store, phase' = phase
    PROVE  FillInv'
  <1>1. /\ fetches' = fetches \ {f} /\ fault' = fault \cup {"local"}
        /\ UNCHANGED <<held, wanted, available, peers, queue, remaining, retried, disabled>>
    BY DEF JoinLocal
  <1>2. Covered' /\ FetchState' /\ HonestTrusted'
    BY <1>1, LeaveInv DEF FillInv, Covered, HonestTrusted
  <1>3. Open' /\ Once'
    BY <1>1 DEF Open, Once
  <1>4. NoSourceError'
    BY <1>1 DEF FillInv, NoSourceError, HonestHolds
  <1> QED
    BY <1>2, <1>3, <1>4 DEF FillInv

LEMMA FillStepInv ==
    ASSUME Typed, FillInv, FillStep
    PROVE  FillInv'
  <1>1. phase = "fill" /\ phase' = phase
    BY DEF FillStep
  <1>2. ASSUME NEW f \in fetches, Join(f)
        PROVE  FillInv'
    BY <1>1, <1>2, JoinOkInv, JoinSourceInv, JoinLocalInv DEF Join, Typed
  <1> QED
    BY <1>1, <1>2, SpawnInv, ProgressInv DEF FillStep, Typed

LEMMA FillInvStep ==
    ASSUME Typed, PipeInv, FillInv, Next
    PROVE  FillInv'
  <1>1. CASE phase' # "fill"
    BY <1>1, NextTyped, IdleInv DEF Typed, FillRests, FillTyped
  <1>2. CASE phase' = "fill" /\ StartFill
    BY <1>2, OpenInv DEF StartFill, Typed, FillRests
  <1>3. CASE FillStep
    BY <1>3, FillStepInv
  <1>4. CASE phase' = "fill" /\ Outside
    <2>1. /\ UNCHANGED <<held, wanted, available, peers, queue, fetches, remaining, retried, disabled, fault>>
          /\ phase' = phase /\ Missing' = Missing /\ \A c : Verified(c)' = Verified(c)
      BY <1>4 DEF Outside, fill, Consume, Missing, Verified
    <2>2. Covered' /\ FetchState' /\ Open' /\ Once' /\ HonestTrusted' /\ NoSourceError'
      BY <2>1 DEF FillInv, Covered, FetchState, GoodFetch, Open, Somewhere, Once,
                  HonestTrusted, HonestFetch, NoSourceError, HonestHolds
    <2> QED
      BY <2>2 DEF FillInv
  <1>5. phase' = "fill" => StartFill \/ FillStep \/ Outside
    <2>1. Turn => phase' # "fill"
      BY TurnIs DEF Resting
    <2>2. EndFill => phase' # "fill"
      BY DEF EndFill
    <2>3. ReceiveStep => phase' # "fill"
      BY DEF ReceiveStep
    <2>4. WriteTask => phase' # "fill"
      BY DEF WriteTask, Typed, PhaseTyped, PipeInv, PipeState
    <2>5. StartReceive \/ EndPull \/ StartIngest \/ Ingest \/ IngestFails \/ Materialize \/ Crash => phase' # "fill"
      BY DEF StartReceive, EndPull, StartIngest, Ingest, IngestFails, Materialize, Crash
    <2> QED
      BY <2>1, <2>2, <2>3, <2>4, <2>5 DEF Next, Turn
  <1> QED
    BY <1>1, <1>2, <1>3, <1>4, <1>5

-----------------------------------------------------------------------------
(* The invariant, and what follows from it. *)

Inv == Typed /\ PipeInv /\ RoomLeft /\ FillInv

LEMMA InvHolds == Spec => []Inv
  <1>1. Init => Inv
    <2> HAVE Init
    <2>1. Typed /\ PipeInv
      BY InitTyped, PipeInit
    <2>2. FillInv
      BY <2>1, IdleInv DEF Init, Typed, FillTyped
    <2>3. RoomLeft
      BY DEF Init, RoomLeft
    <2> QED
      BY <2>1, <2>2, <2>3 DEF Inv
  <1>2. Inv /\ [Next]_vars => Inv'
    <2> SUFFICES ASSUME Inv, [Next]_vars PROVE Inv'
      OBVIOUS
    <2>1. CASE Next
      BY <2>1, NextTyped, PipeStep, RoomStep, FillInvStep DEF Inv
    <2>2. CASE UNCHANGED vars
      <3>1. UNCHANGED <<store, fill, pipe, phase>>
        BY <2>2 DEF vars
      <3>2. Typed'
        <4>1. PhaseTyped' /\ FillRests'
          BY <3>1 DEF Inv, Typed, PhaseTyped, FillRests, FillIdle, NoChunks, fill, pipe
        <4> QED
          BY <3>1, <4>1, SamePipe, SameFill, SameStore DEF Inv, Typed
      <3>3. Missing' = Missing /\ \A c : Verified(c)' = Verified(c)
        BY <3>1 DEF Missing, Verified, store
      <3>4. PipeInv'
        <4>1. Queued' = Queued
          BY <3>1, QueuedIs DEF pipe
        <4>2. Bounds' /\ PipeState' /\ PipeRests'
          BY <3>1, <4>1 DEF Inv, PipeInv, Bounds, PipeState, PipeRests, pipe
        <4>3. On(inflight') = On(inflight)
          BY <3>1 DEF pipe
        <4>4. OnTheWay'
          BY <3>1, <3>3, <4>3 DEF Inv, PipeInv, OnTheWay, pipe
        <4> QED
          BY <4>2, <4>4 DEF PipeInv
      <3>5. RoomLeft'
        <4>1. Bytes(Missing') = Bytes(Missing)
          BY <3>3, Zenon
        <4>2. Kept' = Kept /\ free' = free /\ outside' = outside
          BY <3>1 DEF Kept, store
        <4> QED
          BY <3>1, <4>1, <4>2 DEF Inv, RoomLeft
      <3>6. FillInv'
        <4>1. /\ UNCHANGED <<held, wanted, available, peers, queue, fetches, remaining, retried, disabled, fault>>
              /\ phase' = phase
          BY <3>1 DEF fill
        <4> QED
          BY <3>3, <4>1 DEF Inv, FillInv, Covered, FetchState, GoodFetch, Open, Somewhere, Once,
                            HonestTrusted, HonestFetch, NoSourceError, HonestHolds
      <3> QED
        BY <3>2, <3>4, <3>5, <3>6 DEF Inv
    <2> QED
      BY <2>1, <2>2
  <1> QED
    BY <1>1, <1>2, PTL DEF Spec

\* TransferTypes: in particular never more than the bounds on the write tasks,
\* on the chunks of a batch and on the bytes in memory, whatever the sizes
\* (ChunkWritePipeline).
THEOREM TransferTypes == Spec => []TypeOK
  <1>1. Inv => TypeOK
    BY DEF Inv, Typed, TypeOK, FillTyped, PipeTyped, PipeTypeOK, PipeInv, Bounds, PhaseTyped
  <1> QED
    BY <1>1, InvHolds, PTL

\* ChunksAccounted: for any sources, chunks and limits, a fill that has not
\* failed neither drops a chunk nor fetches it twice at a time.
THEOREM ChunksAccounted == Spec => []Accounted
  <1>1. Inv => Accounted
    BY DEF Inv, FillInv, Open, Somewhere, Once, Accounted
  <1> QED
    BY <1>1, InvHolds, PTL

\* HonestSourceSuffices: whatever the other sources do, a fill whose chunks are
\* all held by sources that answer truthfully reports no source error, and
\* fills.
THEOREM HonestSourceSuffices == Spec => []HonestSuffices
  <1>1. ASSUME Inv, HonestHolds
        PROVE  "source" \notin fault /\ (wanted # {} /\ Drained /\ fault = {} => Filled)
    <2>1. "source" \notin fault
      BY <1>1 DEF Inv, FillInv, NoSourceError
    <2>2. ASSUME wanted # {}, Drained, fault = {}
          PROVE  Filled
      <3>1. phase = "fill"
        BY <1>1, <2>2 DEF Inv, Typed, FillRests, FillIdle
      <3>2. ASSUME NEW s \in Source \ disabled
            PROVE  queue[s] = {}
        <4>1. Running(s) = {}
          BY <2>2 DEF Drained, Running
        <4>2. Cardinality(Running(s)) = 0
          BY <4>1, FS_EmptySet, Zenon
        <4>3. Cardinality(Running(s)) < Streams
          BY <4>2, FillAssumption
        <4>4. ~CanSpawn(s)
          BY <2>2 DEF Drained, Waiting
        <4> QED
          BY <2>2, <3>2, <4>3, <4>4 DEF CanSpawn
      <3>3. ASSUME NEW c \in wanted
            PROVE  Verified(c) /\ c \notin remaining
        <4>1. ~Somewhere(c)
          <5>1. fetches = {}
            BY <2>2 DEF Drained
          <5>2. \E s \in peers : c \in available[s]
            BY <1>1, <3>1 DEF HonestHolds, Inv, FillInv, HonestTrusted
          <5> QED
            BY <3>2, <5>1, <5>2 DEF Somewhere
        <4> QED
          BY <1>1, <2>2, <4>1 DEF Inv, FillInv, Open
      <3> QED
        BY <1>1, <2>2, <3>3 DEF Filled, Inv, FillInv, Covered
    <2> QED
      BY <2>1, <2>2
  <1>2. Inv => HonestSuffices
    BY <1>1 DEF HonestSuffices, HonestHolds
  <1> QED
    BY <1>2, InvHolds, PTL

\* ReserveKept: no write of a transfer, and no crash in the middle of one, takes
\* the disk below what was to be kept free.
THEOREM ReserveKept == Spec => WritesKeepReserve
  <1>1. Inv /\ [Next]_vars => [Spends]_vars
    BY ReserveStep DEF Inv
  <1> QED
    BY <1>1, InvHolds, PTL DEF Spec, WritesKeepReserve, Spends

-----------------------------------------------------------------------------
(* The transfer is a staging attempt. *)

Have == Chunk \ Missing
Busy == {"local", "manifest", "connect", "fill", "pull", "admit", "receive", "ingest"}

Underway == {"busy", "asking"}

LEMMA AttemptIs ==
    /\ phase \in Busy => Attempt \in Underway
    /\ phase \in Resting \ {"done"} => Attempt = phase
    /\ phase = "done" => Attempt = "staged"
    /\ phase' \in Busy => Attempt' \in Underway
    /\ phase' \in Resting \ {"done"} => Attempt' = phase'
    /\ phase' = "done" => Attempt' = "staged"
  <1>1. /\ \A a \in Busy : a # "done" /\ a \notin Resting
        /\ "done" \in Resting
    BY DEF Busy, Resting
  <1>2. /\ phase = "done" => Attempt = "staged"
        /\ phase # "done" /\ phase \in Resting => Attempt = phase
        /\ phase # "done" /\ phase \notin Resting => Attempt = IF OnPeer THEN "asking" ELSE "busy"
    BY <1>1, Zenon DEF Attempt
  <1>3. /\ phase' = "done" => Attempt' = "staged"
        /\ phase' # "done" /\ phase' \in Resting => Attempt' = phase'
        /\ phase' # "done" /\ phase' \notin Resting => Attempt' = IF OnPeer' THEN "asking" ELSE "busy"
    BY <1>1, Zenon DEF Attempt, Resting
  <1> QED
    BY <1>1, <1>2, <1>3 DEF Underway

\* The ways a step of the transfer looks from outside.
Stutter == Have' = Have /\ Attempt' = Attempt
Returns(how) ==
    /\ Have' = Have /\ phase \in Busy /\ phase' = how
    /\ how = "failed" \/ (how = "staged" /\ Missing = {})
Gains ==
    /\ phase \in Busy /\ phase' = phase /\ OnPeer' = OnPeer
    /\ \E c \in Chunk : Have' = Have \cup {c}

LEMMA ReturnIs ==
    ASSUME NEW how, Returns(how)
    PROVE  S!Next
  <1>1. Attempt \in Underway /\ Attempt' = how
    BY AttemptIs DEF Returns, Resting
  <1>2. how = "failed" \/ (how = "staged" /\ Have = Chunk)
    BY DEF Returns, Have
  <1> QED
    BY <1>1, <1>2 DEF Returns, S!Next, S!Return, S!Running, Underway, Have

\* The peer is asked, or has answered.
LEMMA TurnsIs ==
    ASSUME Have' = Have, phase \in Busy, phase' \in Busy
    PROVE  S!Next
  <1>1. Attempt \in Underway /\ Attempt' \in Underway
    BY AttemptIs
  <1> QED
    BY <1>1 DEF S!Next, S!Turn, S!Running, Underway, Have

LEMMA GainIs ==
    ASSUME Gains
    PROVE  S!Next \/ Stutter
  <1>1. Attempt \in Underway /\ Attempt' = Attempt
    <2>1. Attempt \in Underway
      BY AttemptIs DEF Gains
    <2>2. Attempt' = Attempt
      BY DEF Gains, Attempt
    <2> QED
      BY <2>1, <2>2
  <1>2. PICK c \in Chunk : Have' = Have \cup {c}
    BY DEF Gains
  <1>3. CASE c \in Have
    BY <1>1, <1>2, <1>3 DEF Stutter
  <1>4. CASE c \notin Have
    <2>1. S!Gain
      BY <1>1, <1>2, <1>4 DEF S!Gain, S!Running, Underway, Have
    <2> QED
      BY <2>1 DEF S!Next
  <1> QED
    BY <1>3, <1>4

LEMMA PutGains ==
    ASSUME StoreTypeOK, NEW c \in Chunk, Install(c) \/ PutVerified(c)
    PROVE  Have' = Have \cup {c}
  BY DEF StoreTypeOK, Install, PutVerified, Have, Missing, Verified

LEMMA SameHave == content' = content => Have' = Have
  BY DEF Have, Missing, Verified

LEMMA StagingStep ==
    ASSUME Inv, Next
    PROVE  S!Next \/ Stutter
  <1> USE DEF Inv, Typed
  <1>1. CASE Turn
    <2>1. Have' = Have
      BY <1>1, TurnIs, SameHave DEF store
    <2>2. CASE Begin \/ AcceptPush
      <3>1. Attempt = "idle" /\ Attempt' \in Underway
        BY <2>2, AttemptIs DEF Begin, AcceptPush, Busy, Resting
      <3> QED
        BY <2>1, <3>1 DEF S!Next, S!Begin, S!Running, Underway, Have
    <2>3. CASE PullManifest \/ NoSwarm \/ PullRecord
      <3>1. CASE phase' = "failed" /\ phase \in {"manifest", "pull"}
        <4>1. Returns("failed")
          BY <2>1, <3>1 DEF Returns, Busy
        <4> QED
          BY <4>1, ReturnIs
      <3>2. CASE phase' \in Busy /\ phase \in Busy
        BY <2>1, <3>2, TurnsIs
      <3> QED
        BY <2>3, <3>1, <3>2 DEF PullManifest, NoSwarm, PullRecord, Busy
    <2>4. CASE NothingMissing \/ Ingested
      <3>1. Missing = {}
        BY <2>4, RangeEmpty DEF NothingMissing, Ingested, PipeInv, OnTheWay
      <3>2. Returns("staged")
        BY <2>1, <2>4, <3>1 DEF Returns, Busy, NothingMissing, Ingested
      <3> QED
        BY <3>2, ReturnIs
    <2>5. CASE Retry
      <3>1. Attempt = "failed" /\ Attempt' = "idle"
        BY <2>5, AttemptIs DEF Retry, Resting
      <3> QED
        BY <2>1, <3>1 DEF S!Next, S!Retry, Have
    <2> QED
      BY <1>1, <2>2, <2>3, <2>4, <2>5 DEF Turn
  <1>2. ASSUME content' = content, phase \in Busy, phase' \in Busy
        PROVE  S!Next
    BY <1>2, SameHave, TurnsIs
  <1>3. ASSUME content' = content, phase \in Busy, phase' = "failed"
        PROVE  S!Next
    <2>1. Returns("failed")
      BY <1>3, SameHave DEF Returns
    <2> QED
      BY <2>1, ReturnIs
  <1>4. ASSUME content' = content, phase \in Busy, phase' = "staged", Missing = {}
        PROVE  S!Next
    <2>1. Returns("staged")
      BY <1>4, SameHave DEF Returns
    <2> QED
      BY <2>1, ReturnIs
  <1>5. ASSUME NEW c \in Chunk, Install(c) \/ PutVerified(c), phase \in Busy, phase' = phase,
               OnPeer' = OnPeer
        PROVE  S!Next \/ Stutter
    BY <1>5, PutGains, GainIs DEF Gains
  <1>6. CASE StartFill
    BY <1>2, <1>3, <1>6 DEF StartFill, Busy, store
  <1>7. CASE FillStep
    <2>1. phase \in Busy /\ phase' = phase
      BY <1>7 DEF FillStep, Busy
    <2>2. CASE UNCHANGED store
      BY <1>2, <2>1, <2>2 DEF store
    <2>3. CASE \E f \in fetches, c \in Chunk : StoreChunk(f, c)
      <3>1. OnPeer = FALSE /\ OnPeer' = FALSE
        BY <1>7, <2>1 DEF FillStep, OnPeer
      <3> QED
        BY <1>5, <2>1, <2>3, <3>1 DEF StoreChunk
    <2> QED
      BY <1>7, <2>2, <2>3 DEF FillStep, Progress, Join
  <1>8. CASE EndFill
    <2>1. content' = content /\ phase = "fill" /\ phase' \in {"failed", "staged", "pull"}
          /\ (phase' = "staged" => Filled)
      BY <1>8 DEF EndFill, store
    <2>2. Filled => Missing = {}
      BY <2>1 DEF Filled, FillInv, Covered, Missing
    <2> QED
      BY <1>2, <1>3, <1>4, <2>1, <2>2 DEF Busy
  <1>9. CASE StartReceive
    BY <1>2, <1>3, <1>9 DEF StartReceive, Busy, store
  <1>10. CASE ReceiveStep
    BY <1>2, <1>10, ReceiverTyped DEF ReceiveStep, Busy, store
  <1>11. CASE WriteTask
    <2>1. PICK i \in DOMAIN inflight : Task(i)
      BY <1>11 DEF WriteTask
    <2>2. PICK w \in Write : NextWrite(i, w)
      BY <2>1, TaskIs
    <2>3. phase \in Busy /\ phase' = phase
      BY <1>11 DEF WriteTask, PipeInv, PipeState, PhaseTyped, Busy
    <2>4. CASE \E chunks : Sync(chunks)
      BY <1>2, <2>3, <2>4 DEF Sync
    <2>5. CASE inflight[i].todo # <<>> /\ Install(Head(inflight[i].todo))
      <3>1. inflight[i] \in Write
        BY ElementOfSeq DEF PipeTyped
      <3>2. Head(inflight[i].todo) \in Chunk
        BY <2>5, <3>1, RangeEnds DEF Write
      <3>3. OnPeer' = OnPeer
        BY <2>1, <2>3 DEF Task, WriteChunk, WriteEnds, WriteFails, task, OnPeer
      <3> QED
        BY <1>5, <2>3, <2>5, <3>2, <3>3
    <2> QED
      BY <2>2, <2>4, <2>5 DEF NextWrite
  <1>12. CASE EndPull
    <2>1. content' = content /\ phase = "receive" /\ step = "closed"
          /\ phase' \in {"failed", "staged"} /\ (phase' = "staged" => ~failed)
      BY <1>12 DEF EndPull, store
    <2>2. ~failed => Missing = {}
      <3>1. pending = <<>> /\ inflight = <<>> /\ (~failed => expected = <<>>)
        BY <2>1 DEF PipeInv, PipeState
      <3>2. On(<<>>) = {}
        BY OnFacts DEF PipeTyped
      <3> QED
        BY <2>1, <3>1, <3>2, RangeEmpty DEF PipeInv, OnTheWay
    <2> QED
      BY <1>3, <1>4, <2>1, <2>2 DEF Busy
  <1>13. CASE StartIngest \/ IngestFails
    BY <1>2, <1>3, <1>13 DEF StartIngest, IngestFails, Busy, store
  <1>14. CASE Ingest
    <2>1. Head(expected) \in Chunk
      BY <1>14, RangeEnds DEF Ingest, PipeTyped
    <2>2. OnPeer = FALSE /\ OnPeer' = FALSE
      BY <1>14 DEF Ingest, OnPeer
    <2> QED
      BY <1>5, <1>14, <2>1, <2>2 DEF Ingest, Busy
  <1>15. CASE Materialize
    <2>1. Have' = Have /\ phase = "staged" /\ phase' \in {"done", "idle"}
      BY <1>15, SameHave DEF Materialize
    <2>2. Attempt = "staged" /\ (phase' = "done" => Attempt' = "staged") /\ (phase' = "idle" => Attempt' = "idle")
      BY <2>1, AttemptIs DEF Resting
    <2> QED
      BY <2>1, <2>2 DEF S!Next, S!Retry, Stutter, Have
  <1>16. CASE Crash
    <2>1. Attempt' = "idle"
      BY <1>16, AttemptIs DEF Crash, Resting
    <2>2. Have' \subseteq Have
      BY <1>16 DEF Crash, PowerLoss, Have, Missing, Verified
    <2> QED
      BY <2>1, <2>2 DEF S!Next, S!Crash, Have
  <1>17. CASE Outside
    <2>1. content' = content /\ phase' = phase
      BY <1>17 DEF Outside, Consume
    <2>2. OnPeer' = OnPeer
      BY <1>17 DEF Outside, pipe, OnPeer
    <2> QED
      BY <2>1, <2>2, SameHave DEF Stutter, Attempt
  <1> QED
    BY <1>1, <1>6, <1>7, <1>8, <1>9, <1>10, <1>11, <1>12, <1>13, <1>14, <1>15, <1>16, <1>17
    DEF Next, Turn

\* TransferIsStaging: every behaviour of the transfer starts as a staging attempt
\* does and takes only its steps: chunks enter the store only while an attempt
\* runs, and it reports staged only with every chunk intact.  That an
\* attempt ends, S!Ends, is left to the model checker.
THEOREM TransferIsStaging ==
    Spec => S!Init /\ [][S!Next]_<<Chunk \ Missing, Attempt>>
  <1>1. Init => S!Init
    BY AttemptIs DEF Init, S!Init, Missing, Resting
  <1>2. Inv /\ [Next]_vars => [S!Next]_<<Chunk \ Missing, Attempt>>
    <2> SUFFICES ASSUME Inv, [Next]_vars
                 PROVE  S!Next \/ UNCHANGED <<Chunk \ Missing, Attempt>>
      OBVIOUS
    <2>1. CASE Next
      BY <2>1, StagingStep DEF Stutter, Have
    <2>2. CASE UNCHANGED vars
      BY <2>2 DEF vars, store, pipe, OnPeer, Missing, Verified, Attempt
    <2> QED
      BY <2>1, <2>2
  <1> QED
    BY <1>1, <1>2, InvHolds, PTL DEF Spec

=============================================================================
