--------------------------- MODULE DatasetsProofs ---------------------------
(***************************************************************************)
(* Theorems about the datasets kept outside the runs, for every set of     *)
(* datasets and contents and any numbers of uploads, faults and requests:  *)
(* the disk stays within its limit, readers keep their files, and every    *)
(* dataset is measured by one thread at a time.                            *)
(***************************************************************************)
EXTENDS Datasets, FiniteSetTheorems, TLAPS

-----------------------------------------------------------------------------
(* Sums over finite sets.  A fold picks its elements by CHOOSE and is      *)
(* defined by recursion over subsets; that the recursion defines a         *)
(* function, and that the order of the choices is of no account, follow by *)
(* well-founded descent: a set of counterexamples has a smallest member.   *)
Sum(f, S) == FoldFunctionOnSet(+, 0, f, S)

Chosen(T) == CHOOSE x \in T : TRUE

IsSum(g, f, S) ==
  g = [T \in SUBSET S |-> IF T = {} THEN 0
                          ELSE f[Chosen(T)] + g[T \ {Chosen(T)}]]

Numeric(f, S) == \A x \in S : f[x] \in Nat

LEMMA SmallestSubset ==
  ASSUME NEW S, IsFiniteSet(S), NEW B \in SUBSET (SUBSET S), B # {}
  PROVE  \E T \in B : \A U \in B : U \subseteq T => U = T
  <1>1. IsWellFoundedOn(StrictSubsetOrdering(S), SUBSET S)
    BY FS_StrictSubsetOrderingWellFounded, FS_FiniteSubsetsOfFinite
  <1>2. PICK T \in B : \A U \in B : <<U, T>> \notin StrictSubsetOrdering(S)
    BY <1>1, WFMin
  <1>3. ASSUME NEW U \in B, U \subseteq T, U # T
        PROVE  FALSE
    BY <1>2, <1>3 DEF StrictSubsetOrdering
  <1>4. QED
    BY <1>3

LEMMA SumUnique ==
  ASSUME NEW S, IsFiniteSet(S), NEW V, NEW f, NEW g, NEW h,
         IsSum(g, f, S), IsSum(h, f, V), NEW T, T \subseteq S, T \subseteq V
  PROVE  g[T] = h[T]
  <1> DEFINE B == {U \in SUBSET S : U \subseteq V /\ g[U] # h[U]}
  <1>1. SUFFICES ASSUME B # {} PROVE FALSE
    OBVIOUS
  <1>2. PICK U \in B : \A W \in B : W \subseteq U => W = U
    <2>1. B \in SUBSET (SUBSET S)
      OBVIOUS
    <2> HIDE DEF B
    <2>2. QED
      BY <1>1, <2>1, SmallestSubset
  <1> DEFINE c == Chosen(U)
  <1>3. U # {} /\ c \in U
    BY <1>2 DEF IsSum, Chosen
  <1>4. g[U \ {c}] = h[U \ {c}]
    BY <1>2, <1>3
  <1>5. g[U] = f[c] + g[U \ {c}] /\ h[U] = f[c] + h[U \ {c}]
    BY <1>2, <1>3 DEF IsSum
  <1>6. QED
    BY <1>2, <1>4, <1>5

LEMMA SumExists ==
  ASSUME NEW S, IsFiniteSet(S), NEW f
  PROVE  \E g : IsSum(g, f, S)
  <1> DEFINE B == {T \in SUBSET S : ~ \E g : IsSum(g, f, T)}
  <1>1. SUFFICES ASSUME B # {} PROVE FALSE
    OBVIOUS
  <1>2. PICK T \in B : \A U \in B : U \subseteq T => U = T
    <2>1. B \in SUBSET (SUBSET S)
      OBVIOUS
    <2> HIDE DEF B
    <2>2. QED
      BY <1>1, <2>1, SmallestSubset
  <1> DEFINE H(U) == CHOOSE h : IsSum(h, f, U)
             g == [U \in SUBSET T |-> IF U = {} THEN 0
                     ELSE f[Chosen(U)] + H(U \ {Chosen(U)})[U \ {Chosen(U)}]]
  <1>3. ASSUME NEW U \in SUBSET T, U # T
        PROVE  IsSum(H(U), f, U)
    BY <1>2, <1>3
  <1>4. ASSUME NEW U \in SUBSET T, U # {}
        PROVE  g[U \ {Chosen(U)}] = H(U \ {Chosen(U)})[U \ {Chosen(U)}]
    <2> DEFINE W == U \ {Chosen(U)}
               V == W \ {Chosen(W)}
    <2>1. W \in SUBSET T /\ W # T
      BY <1>4 DEF Chosen
    <2>2. IsSum(H(W), f, W)
      BY <2>1, <1>3
    <2>3. CASE W = {}
      <3>1. H(W)[W] = 0
        BY <2>2, <2>3 DEF IsSum
      <3>2. QED
        BY <2>1, <2>3, <3>1
    <2>4. CASE W # {}
      <3>1. V \in SUBSET T /\ V # T /\ V \subseteq W
        BY <2>1
      <3>2. IsSum(H(V), f, V)
        BY <3>1, <1>3
      <3>3. H(V)[V] = H(W)[V]
        <4> HIDE DEF H, W, V
        <4>1. IsFiniteSet(V)
          BY <3>1, FS_Subset, <1>2
        <4>2. QED
          BY <2>2, <3>1, <3>2, <4>1, SumUnique
      <3>4. g[W] = f[Chosen(W)] + H(V)[V]
        BY <2>1, <2>4
      <3>5. H(W)[W] = f[Chosen(W)] + H(W)[V]
        BY <2>2, <2>4 DEF IsSum
      <3>6. QED
        BY <3>3, <3>4, <3>5
    <2>5. QED
      BY <2>3, <2>4
  <1>5. IsSum(g, f, T)
    <2>1. \A U \in SUBSET T :
            g[U] = IF U = {} THEN 0 ELSE f[Chosen(U)] + g[U \ {Chosen(U)}]
      <3> TAKE U \in SUBSET T
      <3>1. CASE U = {}
        BY <3>1
      <3>2. CASE U # {}
        <4>1. g[U] = f[Chosen(U)] + H(U \ {Chosen(U)})[U \ {Chosen(U)}]
          BY <3>2
        <4>2. g[U \ {Chosen(U)}] = H(U \ {Chosen(U)})[U \ {Chosen(U)}]
          BY <3>2, <1>4
        <4> HIDE DEF g, H
        <4>3. QED
          BY <3>2, <4>1, <4>2
      <3>3. QED
        BY <3>1, <3>2
    <2>2. g = [U \in SUBSET T |-> g[U]]
      OBVIOUS
    <2> HIDE DEF g
    <2>3. QED
      BY <2>1, <2>2 DEF IsSum
  <1>6. QED
    BY <1>2, <1>5

LEMMA SumIsSum ==
  ASSUME NEW S, IsFiniteSet(S), NEW f
  PROVE  \E g : IsSum(g, f, S) /\ Sum(f, S) = g[S]
  <1> DEFINE g == CHOOSE h : IsSum(h, f, S)
  <1>1. IsSum(g, f, S)
    BY SumExists
  <1>2. Sum(f, S) = g[S]
    BY DEF Sum, FoldFunctionOnSet, MapThenFoldSet, IsSum, Chosen
  <1>3. QED
    BY <1>1, <1>2

LEMMA SumEmpty ==
  ASSUME NEW f
  PROVE  Sum(f, {}) = 0
  BY SumIsSum, FS_EmptySet DEF IsSum

LEMMA SumChosen ==
  ASSUME NEW S, IsFiniteSet(S), S # {}, NEW f
  PROVE  /\ Chosen(S) \in S
         /\ Sum(f, S) = f[Chosen(S)] + Sum(f, S \ {Chosen(S)})
  <1> DEFINE V == S \ {Chosen(S)}
  <1>1. Chosen(S) \in S
    BY DEF Chosen
  <1>2. IsFiniteSet(V)
    BY FS_Subset
  <1>3. PICK g : IsSum(g, f, S) /\ Sum(f, S) = g[S]
    BY SumIsSum
  <1>4. PICK h : IsSum(h, f, V) /\ Sum(f, V) = h[V]
    BY <1>2, SumIsSum
  <1>5. g[V] = h[V]
    <2> HIDE DEF V
    <2>1. V \subseteq S
      BY DEF V
    <2>2. QED
      BY <1>3, <1>4, <2>1, SumUnique
  <1>6. g[S] = f[Chosen(S)] + g[V]
    BY <1>3 DEF IsSum
  <1>7. QED
    BY <1>1, <1>3, <1>4, <1>5, <1>6

LEMMA SumNat ==
  ASSUME NEW S, IsFiniteSet(S), NEW f, Numeric(f, S)
  PROVE  Sum(f, S) \in Nat
  <1> DEFINE B == {T \in SUBSET S : Sum(f, T) \notin Nat}
  <1>1. SUFFICES ASSUME B # {} PROVE FALSE
    OBVIOUS
  <1>2. PICK T \in B : \A U \in B : U \subseteq T => U = T
    <2>1. B \in SUBSET (SUBSET S)
      OBVIOUS
    <2> HIDE DEF B
    <2>2. QED
      BY <1>1, <2>1, SmallestSubset
  <1>3. T # {} /\ IsFiniteSet(T)
    <2>1. IsFiniteSet(T)
      BY FS_Subset
    <2>2. Sum(f, {}) \in Nat
      BY SumEmpty
    <2>3. QED
      BY <1>2, <2>1, <2>2
  <1>4. Chosen(T) \in T /\ Sum(f, T) = f[Chosen(T)] + Sum(f, T \ {Chosen(T)})
    BY <1>3, SumChosen
  <1>5. Sum(f, T \ {Chosen(T)}) \in Nat
    BY <1>2, <1>4
  <1>6. QED
    BY <1>2, <1>4, <1>5 DEF Numeric

(* Any element may be taken first.                                         *)
LEMMA SumElement ==
  ASSUME NEW S, IsFiniteSet(S), NEW f, Numeric(f, S), NEW x \in S
  PROVE  Sum(f, S) = f[x] + Sum(f, S \ {x})
  <1> DEFINE B == {T \in SUBSET S : \E y \in T : Sum(f, T) # f[y] + Sum(f, T \ {y})}
  <1>1. SUFFICES ASSUME B # {} PROVE FALSE
    OBVIOUS
  <1>2. PICK T \in B : \A U \in B : U \subseteq T => U = T
    <2>1. B \in SUBSET (SUBSET S)
      OBVIOUS
    <2> HIDE DEF B
    <2>2. QED
      BY <1>1, <2>1, SmallestSubset
  <1>3. PICK y \in T : Sum(f, T) # f[y] + Sum(f, T \ {y})
    BY <1>2
  <1> DEFINE c == Chosen(T)
             V == (T \ {c}) \ {y}
  <1>4. IsFiniteSet(T) /\ IsFiniteSet(V)
    BY FS_Subset
  <1>5. c \in T /\ Sum(f, T) = f[c] + Sum(f, T \ {c})
    BY <1>3, <1>4, SumChosen
  <1>6. y # c
    BY <1>3, <1>5
  <1>7. Sum(f, T \ {c}) = f[y] + Sum(f, V)
    BY <1>2, <1>3, <1>5, <1>6
  <1>8. Sum(f, T \ {y}) = f[c] + Sum(f, V)
    <2>1. (T \ {y}) \ {c} = V
      OBVIOUS
    <2>2. T \ {y} \notin B
      BY <1>2, <1>3
    <2>3. QED
      BY <1>5, <1>6, <2>1, <2>2
  <1>9. f[c] \in Nat /\ f[y] \in Nat /\ Sum(f, V) \in Nat
    BY <1>3, <1>4, <1>5, SumNat DEF Numeric
  <1> HIDE DEF c, V
  <1>10. QED
    BY <1>3, <1>5, <1>7, <1>8, <1>9

LEMMA SumMonotone ==
  ASSUME NEW S, IsFiniteSet(S), NEW f, NEW g, Numeric(f, S), Numeric(g, S),
         \A x \in S : f[x] <= g[x]
  PROVE  Sum(f, S) <= Sum(g, S)
  <1> DEFINE B == {T \in SUBSET S : ~(Sum(f, T) <= Sum(g, T))}
  <1>1. SUFFICES ASSUME B # {} PROVE FALSE
    OBVIOUS
  <1>2. PICK T \in B : \A U \in B : U \subseteq T => U = T
    <2>1. B \in SUBSET (SUBSET S)
      OBVIOUS
    <2> HIDE DEF B
    <2>2. QED
      BY <1>1, <2>1, SmallestSubset
  <1> DEFINE c == Chosen(T)
             V == T \ {c}
  <1>3. T # {} /\ IsFiniteSet(T) /\ IsFiniteSet(V)
    <2>1. IsFiniteSet(T) /\ IsFiniteSet(V)
      BY FS_Subset
    <2>2. Sum(f, {}) = 0 /\ Sum(g, {}) = 0
      BY SumEmpty
    <2>3. ~(Sum(f, T) <= Sum(g, T))
      BY <1>2
    <2> HIDE DEF c, V
    <2>4. T # {}
      BY <2>2, <2>3
    <2>5. QED
      BY <2>1, <2>4
  <1>4. c \in T /\ Sum(f, T) = f[c] + Sum(f, V) /\ Sum(g, T) = g[c] + Sum(g, V)
    BY <1>3, SumChosen
  <1>5. Sum(f, V) <= Sum(g, V)
    BY <1>2, <1>4
  <1>6. /\ f[c] \in Nat /\ g[c] \in Nat /\ f[c] <= g[c]
        /\ Sum(f, V) \in Nat /\ Sum(g, V) \in Nat
    BY <1>3, <1>4, SumNat DEF Numeric
  <1>7. ~(Sum(f, T) <= Sum(g, T))
    BY <1>2
  <1> HIDE DEF c, V
  <1>8. QED
    BY <1>4, <1>5, <1>6, <1>7

LEMMA SumSubset ==
  ASSUME NEW S, IsFiniteSet(S), NEW f, Numeric(f, S), NEW R \in SUBSET S
  PROVE  Sum(f, R) <= Sum(f, S)
  <1> DEFINE B == {T \in SUBSET S : R \subseteq T /\ ~(Sum(f, R) <= Sum(f, T))}
  <1>1. SUFFICES ASSUME B # {} PROVE FALSE
    OBVIOUS
  <1>2. PICK T \in B : \A U \in B : U \subseteq T => U = T
    <2>1. B \in SUBSET (SUBSET S)
      OBVIOUS
    <2> HIDE DEF B
    <2>2. QED
      BY <1>1, <2>1, SmallestSubset
  <1>3. IsFiniteSet(T) /\ IsFiniteSet(R)
    BY FS_Subset
  <1>4. Sum(f, T) \in Nat /\ Sum(f, R) \in Nat
    BY <1>3, SumNat DEF Numeric
  <1>5. PICK x \in T : x \notin R
    BY <1>2, <1>4
  <1>6. Sum(f, T) = f[x] + Sum(f, T \ {x}) /\ f[x] \in Nat
    BY <1>3, SumElement DEF Numeric
  <1>7. Sum(f, R) <= Sum(f, T \ {x})
    BY <1>2, <1>5
  <1>8. Sum(f, T \ {x}) \in Nat
    BY <1>3, FS_Subset, SumNat DEF Numeric
  <1>9. QED
    BY <1>2, <1>4, <1>6, <1>7, <1>8

(* A sum depends on the summands alone, and changes with one of them.      *)
LEMMA SumSame ==
  ASSUME NEW S, IsFiniteSet(S), NEW f, NEW g, Numeric(f, S), \A x \in S : f[x] = g[x]
  PROVE  Sum(f, S) = Sum(g, S)
  <1>1. Numeric(g, S)
    BY DEF Numeric
  <1>2. \A x \in S : f[x] <= g[x] /\ g[x] <= f[x]
    BY DEF Numeric
  <1>3. Sum(f, S) <= Sum(g, S) /\ Sum(g, S) <= Sum(f, S)
    BY <1>1, <1>2, SumMonotone
  <1>4. Sum(f, S) \in Nat /\ Sum(g, S) \in Nat
    BY <1>1, SumNat
  <1>5. QED
    BY <1>3, <1>4

LEMMA SumChanged ==
  ASSUME NEW S, IsFiniteSet(S), NEW f, NEW g, Numeric(f, S), NEW d \in S,
         g[d] \in Nat, \A x \in S : x # d => g[x] = f[x]
  PROVE  Sum(g, S) = Sum(f, S) - f[d] + g[d]
  <1> DEFINE V == S \ {d}
  <1>1. Numeric(g, S) /\ Numeric(f, V) /\ IsFiniteSet(V)
    BY FS_Subset DEF Numeric
  <1>2. Sum(f, V) = Sum(g, V)
    <2>1. \A x \in V : f[x] = g[x]
      OBVIOUS
    <2> HIDE DEF V
    <2>2. QED
      BY <1>1, <2>1, SumSame
  <1>3. Sum(f, S) = f[d] + Sum(f, V) /\ Sum(g, S) = g[d] + Sum(g, V)
    BY <1>1, SumElement
  <1>4. f[d] \in Nat /\ Sum(f, V) \in Nat
    BY <1>1, SumNat DEF Numeric
  <1> HIDE DEF V
  <1>5. QED
    BY <1>2, <1>3, <1>4

LEMMA SumZero ==
  ASSUME NEW S, IsFiniteSet(S), NEW f, \A x \in S : f[x] = 0
  PROVE  Sum(f, S) = 0
  <1> DEFINE B == {T \in SUBSET S : Sum(f, T) # 0}
  <1>1. SUFFICES ASSUME B # {} PROVE FALSE
    OBVIOUS
  <1>2. PICK T \in B : \A U \in B : U \subseteq T => U = T
    <2>1. B \in SUBSET (SUBSET S)
      OBVIOUS
    <2> HIDE DEF B
    <2>2. QED
      BY <1>1, <2>1, SmallestSubset
  <1>3. T # {} /\ IsFiniteSet(T)
    BY <1>2, SumEmpty, FS_Subset
  <1>4. Chosen(T) \in T /\ Sum(f, T) = f[Chosen(T)] + Sum(f, T \ {Chosen(T)})
    BY <1>3, SumChosen
  <1>5. Sum(f, T \ {Chosen(T)}) = 0 /\ f[Chosen(T)] = 0
    BY <1>2, <1>4
  <1>6. QED
    BY <1>2, <1>4, <1>5

-----------------------------------------------------------------------------
(* Bytes of files and folders.                                             *)
IsFiles(x) == x \in [DOMAIN x -> Nat] /\ IsFiniteSet(DOMAIN x)

LEMMA BytesIsSum == \A x : Bytes(x) = Sum(x, DOMAIN x)
  BY DEF Bytes, Sum, FoldFunction

LEMMA BytesNat ==
  ASSUME NEW x, IsFiles(x)
  PROVE  Bytes(x) \in Nat /\ Numeric(x, DOMAIN x)
  <1>1. Numeric(x, DOMAIN x)
    BY DEF IsFiles, Numeric
  <1>2. QED
    BY <1>1, BytesIsSum, SumNat DEF IsFiles

LEMMA RestrictFiles ==
  ASSUME NEW x, IsFiles(x), NEW S \in SUBSET (DOMAIN x)
  PROVE  /\ IsFiles(Restrict(x, S))
         /\ Bytes(Restrict(x, S)) = Sum(x, S)
         /\ Bytes(Restrict(x, S)) <= Bytes(x)
  <1> DEFINE y == Restrict(x, S)
  <1>1. y = [f \in S |-> x[f]]
    BY DEF Restrict
  <1>2. DOMAIN y = S /\ \A f \in S : y[f] = x[f] /\ x[f] \in Nat
    BY <1>1 DEF IsFiles
  <1>3. IsFiniteSet(S)
    BY FS_Subset DEF IsFiles
  <1>4. IsFiles(y)
    BY <1>1, <1>2, <1>3 DEF IsFiles
  <1> HIDE DEF y
  <1>5. Bytes(y) = Sum(y, S)
    BY <1>2, BytesIsSum
  <1>6. Sum(y, S) = Sum(x, S)
    BY <1>2, <1>3, SumSame DEF Numeric
  <1>7. Sum(x, S) <= Sum(x, DOMAIN x)
    BY BytesNat, SumSubset DEF IsFiles
  <1>8. QED
    BY <1>4, <1>5, <1>6, <1>7, BytesIsSum DEF y

LEMMA SetFiles ==
  ASSUME NEW x, IsFiles(x), NEW f, NEW n \in Nat
  PROVE  IsFiles(Set(x, f, n)) /\ Bytes(Set(x, f, n)) <= Bytes(x) + n
  <1> DEFINE y == Set(x, f, n)
             D == DOMAIN x
             E == D \union {f}
  <1>1. y = [g \in E |-> IF g = f THEN n ELSE x[g]]
    BY DEF Set
  <1>2. /\ DOMAIN y = E /\ y[f] = n
        /\ \A g \in D \ {f} : y[g] = x[g] /\ x[g] \in Nat
    BY <1>1 DEF IsFiles
  <1>3. IsFiniteSet(D) /\ IsFiniteSet(E) /\ IsFiniteSet(D \ {f})
    BY FS_AddElement, FS_Subset DEF IsFiles
  <1>4. IsFiles(y)
    BY <1>1, <1>2, <1>3 DEF IsFiles
  <1> HIDE DEF y
  <1>5. E \ {f} = D \ {f}
    OBVIOUS
  <1>6. Sum(y, E) = n + Sum(y, D \ {f})
    <2>1. Numeric(y, E) /\ f \in E
      BY <1>2 DEF Numeric
    <2>2. Sum(y, E) = y[f] + Sum(y, E \ {f})
      <3> HIDE DEF E
      <3>1. QED
        BY <1>3, <2>1, SumElement
    <2>3. QED
      BY <1>2, <1>5, <2>2
  <1>7. Sum(y, D \ {f}) = Sum(x, D \ {f})
    BY <1>2, <1>3, SumSame DEF Numeric
  <1>8. Sum(x, D \ {f}) <= Sum(x, D)
    BY <1>3, BytesNat, SumSubset
  <1>9. Sum(x, D \ {f}) \in Nat /\ Sum(x, D) \in Nat
    BY <1>3, BytesNat, SumNat DEF Numeric
  <1>10. Bytes(y) = Sum(y, E) /\ Bytes(x) = Sum(x, D)
    BY <1>2, BytesIsSum
  <1> HIDE DEF D, E
  <1>11. Bytes(y) <= Bytes(x) + n
    BY <1>6, <1>7, <1>8, <1>9, <1>10
  <1>12. QED
    BY <1>4, <1>11 DEF y

LEMMA OneLess ==
  ASSUME NEW x, IsFiles(x), NEW S \in SUBSET (DOMAIN x), NEW f \in S
  PROVE  /\ Incoming(x, S) = x[f] + Incoming(x, S \ {f})
         /\ x[f] \in Nat /\ Incoming(x, S \ {f}) \in Nat
  <1>1. Incoming(x, S) = Sum(x, S) /\ Incoming(x, S \ {f}) = Sum(x, S \ {f})
    BY RestrictFiles DEF Incoming
  <1>2. IsFiniteSet(S) /\ IsFiniteSet(S \ {f}) /\ Numeric(x, S) /\ Numeric(x, S \ {f})
    BY BytesNat, FS_Subset DEF IsFiles, Numeric
  <1>3. QED
    BY <1>1, <1>2, SumElement, SumNat DEF Numeric

-----------------------------------------------------------------------------
(* The invariant of the cache.                                             *)
IsFolder(x) ==
  /\ DOMAIN x = {"files", "parts", "manifest"}
  /\ IsFiles(x.files)
  /\ IsFiles(x.parts)

DiskOK ==
  /\ bucket \in [Datasets -> Contents]
  /\ disk = [d \in Datasets |-> disk[d]]
  /\ \A d \in Datasets : IsFolder(disk[d])
  /\ excess \in Nat

JobOK ==
  /\ DOMAIN job = {"pc", "d", "prefixes", "objects", "missing", "total", "queue"}
  /\ job.pc \in {"free", "resolve", "trim", "reserve", "download", "manifest"}
  /\ job.pc # "free" => /\ job.d \in Datasets
                        /\ job.prefixes \in Seq(Datasets) /\ job.prefixes # <<>>
  /\ job.pc \notin {"free", "resolve"} => job.objects \in Contents
  /\ job.pc \in {"trim", "reserve"} => job.total \in Int
  /\ job.pc \in {"reserve", "download"} => job.missing \in SUBSET (DOMAIN job.objects)

(* While room is made the disk holds no more than the estimate and what it *)
(* has missed; while files are fetched there is room for those to come.    *)
Room ==
  /\ DiskBounded
  /\ job.pc \in {"trim", "reserve"} => Usage <= job.total + excess
  /\ job.pc = "download" => Usage + Needed <= MaxBytes + excess

(* What is read is valid, and the thread with the lock works on another    *)
(* folder: it found its own invalid.                                       *)
ReadersOK ==
  \A d \in readers :
    /\ d \in Datasets
    /\ Valid(d)
    /\ job.pc # "free" => job.d # d

CacheInv == DiskOK /\ JobOK /\ Room /\ ReadersOK

(* What ReadersKeepFiles says of one step.                                 *)
FilesKept ==
  \A d \in readers :
    \/ disk'[d].files = disk[d].files
    \/ job.pc \in {"trim", "reserve"} /\ job.d # d

LEMMA ContentIsFiles ==
  ASSUME NEW c \in Contents
  PROVE  IsFiles(c) /\ c # Null
  BY CacheAssumption DEF IsFiles

LEMMA FolderNat ==
  ASSUME NEW x, IsFolder(x)
  PROVE  FolderBytes(x) \in Nat
  BY BytesNat DEF IsFolder, FolderBytes

LEMMA EmptyFolder == IsFolder(NoFolder) /\ FolderBytes(NoFolder) = 0
  <1>1. NoFiles = [f \in {} |-> 0] /\ DOMAIN NoFiles = {}
    BY DEF NoFiles
  <1>2. IsFiles(NoFiles)
    BY <1>1, FS_EmptySet DEF IsFiles
  <1>3. Bytes(NoFiles) = 0
    BY <1>1, BytesIsSum, SumEmpty
  <1>4. QED
    BY <1>2, <1>3 DEF NoFolder, IsFolder, FolderBytes

LEMMA UsageNat ==
  ASSUME DiskOK
  PROVE  /\ Usage \in Nat
         /\ Usage = Sum([d \in Datasets |-> FolderBytes(disk[d])], Datasets)
  <1> DEFINE F == [d \in Datasets |-> FolderBytes(disk[d])]
  <1>1. DOMAIN F = Datasets /\ Usage = Bytes(F)
    BY DEF Usage
  <1>2. Numeric(F, Datasets) /\ IsFiniteSet(Datasets)
    BY FolderNat, CacheAssumption DEF DiskOK, Numeric
  <1> HIDE DEF F
  <1>3. Usage = Sum(F, Datasets)
    BY <1>1, BytesIsSum
  <1>4. QED
    BY <1>2, <1>3, SumNat DEF F

(* A folder that is written counts for what it holds from then on.         *)
LEMMA WriteCounts ==
  ASSUME DiskOK, NEW d \in Datasets, NEW x, IsFolder(x), Write(d, x),
         bucket' \in [Datasets -> Contents], excess' \in Nat
  PROVE  /\ DiskOK'
         /\ disk'[d] = x
         /\ \A e \in Datasets : e # d => disk'[e] = disk[e]
         /\ Usage \in Nat /\ Usage' \in Nat
         /\ FolderBytes(disk[d]) \in Nat /\ FolderBytes(x) \in Nat
         /\ Usage' = Usage - FolderBytes(disk[d]) + FolderBytes(x)
  <1> DEFINE F == [e \in Datasets |-> FolderBytes(disk[e])]
             G == [e \in Datasets |-> FolderBytes(disk'[e])]
  <1>1. disk' = [disk EXCEPT ![d] = x]
    BY DEF Write
  <1>2. disk'[d] = x /\ \A e \in Datasets : e # d => disk'[e] = disk[e]
    BY <1>1 DEF DiskOK
  <1>3. disk' = [e \in Datasets |-> disk'[e]]
    BY <1>1 DEF DiskOK
  <1>4. DiskOK'
    BY <1>2, <1>3 DEF DiskOK
  <1>5. FolderBytes(disk[d]) \in Nat /\ FolderBytes(x) \in Nat
    BY FolderNat DEF DiskOK
  <1>6. F[d] = FolderBytes(disk[d]) /\ G[d] = FolderBytes(x)
        /\ \A e \in Datasets : e # d => G[e] = F[e]
    BY <1>2
  <1>7. Numeric(F, Datasets) /\ IsFiniteSet(Datasets)
    BY FolderNat, CacheAssumption DEF DiskOK, Numeric
  <1>8. Usage = Sum(F, Datasets) /\ Usage \in Nat
    BY UsageNat
  <1>9. Usage' = Sum(G, Datasets)
    <2>1. DOMAIN G = Datasets /\ Usage' = Bytes(G)
      BY DEF Usage
    <2> HIDE DEF G
    <2>2. QED
      BY <2>1, BytesIsSum
  <1>10. Numeric(G, Datasets)
    BY <1>4, FolderNat DEF DiskOK, Numeric
  <1>11. Sum(G, Datasets) = Sum(F, Datasets) - F[d] + G[d] /\ Sum(G, Datasets) \in Nat
    <2> HIDE DEF F, G
    <2>1. G[d] \in Nat
      BY <1>10 DEF Numeric
    <2>2. QED
      BY <1>6, <1>7, <1>10, <2>1, SumChanged, SumNat
  <1> HIDE DEF F, G
  <1>12. QED
    BY <1>2, <1>4, <1>5, <1>6, <1>8, <1>9, <1>11

(* The disk and its estimate stand, and no reader is let in.               *)
LEMMA Standing ==
  ASSUME DiskOK, UNCHANGED <<disk, excess>>, bucket' \in [Datasets -> Contents]
  PROVE  /\ DiskOK' /\ Usage' = Usage /\ Usage \in Nat
         /\ \A d \in Datasets : Valid(d)' = Valid(d)
         /\ \A d \in readers : disk'[d].files = disk[d].files
  <1>1. DiskOK'
    BY DEF DiskOK
  <1>2. Usage' = Usage
    BY DEF Usage
  <1>3. \A d \in Datasets : Valid(d)' = Valid(d)
    BY DEF Valid, Lacks
  <1>4. QED
    BY <1>1, <1>2, <1>3, UsageNat

LEMMA Waiting ==
  ASSUME CacheInv,
         \/ \E d \in Datasets : Return(d) \/ Leave(d) \/ Upload(d)
         \/ UNCHANGED cacheVars
  PROVE  CacheInv' /\ FilesKept
  <1>1. bucket' \in [Datasets -> Contents]
    <2>1. CASE UNCHANGED bucket
      BY <2>1 DEF CacheInv, DiskOK
    <2>2. CASE \E d \in Datasets : Upload(d)
      BY <2>2 DEF CacheInv, DiskOK, Upload
    <2>3. QED
      BY <2>1, <2>2 DEF Return, Leave, cacheVars, outside
  <1>2. UNCHANGED <<disk, excess, job>>
    BY DEF Return, Leave, Upload, cacheVars, disks
  <1>3. /\ DiskOK' /\ Usage' = Usage /\ \A d \in Datasets : Valid(d)' = Valid(d)
        /\ \A d \in readers : disk'[d].files = disk[d].files
    BY <1>1, <1>2, Standing DEF CacheInv
  <1>4. JobOK'
    BY <1>2 DEF CacheInv, JobOK
  <1>5. Room'
    BY <1>2, <1>3 DEF CacheInv, Room, DiskBounded, Needed, Incoming
  <1>6. ASSUME NEW d \in readers'
        PROVE  d \in readers \/ (job.pc = "free" /\ Valid(d) /\ d \in Datasets)
    BY <1>6 DEF Return, Leave, Upload, cacheVars, disks, JobAt
  <1>7. ReadersOK'
    <2> SUFFICES ASSUME NEW d \in readers'
                 PROVE  d \in Datasets /\ Valid(d)' /\ (job'.pc # "free" => job'.d # d)
      BY DEF ReadersOK
    <2>1. QED
      BY <1>2, <1>3, <1>6 DEF CacheInv, ReadersOK
  <1>8. QED
    BY <1>3, <1>4, <1>5, <1>7 DEF CacheInv, FilesKept

(* Steps of the thread with the lock that leave the disk as it is.         *)
LEMMA JobMoves ==
  ASSUME CacheInv, UNCHANGED <<bucket, disk, excess, readers>>, JobOK',
         \/ job'.pc \in {"free", "resolve", "manifest"}
         \/ Usage <= job'.total + excess /\ job'.pc \in {"trim", "reserve"}
         \/ job'.pc = "download" /\ Usage + Needed' <= MaxBytes + excess,
         job'.pc # "free" => \/ job.pc # "free" /\ job'.d = job.d
                             \/ job'.d \in Datasets /\ ~Valid(job'.d)
  PROVE  CacheInv' /\ FilesKept
  <1>1. /\ DiskOK' /\ Usage' = Usage /\ \A d \in Datasets : Valid(d)' = Valid(d)
        /\ \A d \in readers : disk'[d].files = disk[d].files
    BY Standing DEF CacheInv, DiskOK
  <1>2. Room'
    BY <1>1 DEF CacheInv, Room, DiskBounded
  <1>3. ReadersOK'
    <2> SUFFICES ASSUME NEW d \in readers
                 PROVE  d \in Datasets /\ Valid(d)' /\ (job'.pc # "free" => job'.d # d)
      BY DEF ReadersOK
    <2>1. QED
      BY <1>1 DEF CacheInv, ReadersOK
  <1>4. QED
    BY <1>1, <1>2, <1>3 DEF CacheInv, FilesKept

LEMMA FreeOK ==
  ASSUME job' = Free
  PROVE  JobOK' /\ job'.pc = "free"
  BY DEF Free, JobOK

LEMMA BeginStep ==
  ASSUME CacheInv, NEW d \in Datasets, Begin(d)
  PROVE  CacheInv' /\ FilesKept
  <1>1. /\ UNCHANGED <<bucket, disk, excess, readers>> /\ ~Valid(d)
        /\ job' = [Free EXCEPT !.pc = "resolve", !.d = d, !.prefixes = Candidates(d)]
    BY DEF Begin, disks, outside
  <1>2. /\ DOMAIN job' = {"pc", "d", "prefixes", "objects", "missing", "total", "queue"}
        /\ job'.pc = "resolve" /\ job'.d = d /\ job'.prefixes = Candidates(d)
    BY <1>1 DEF Free
  <1>3. Candidates(d) \in Seq(Datasets) /\ Candidates(d) # <<>>
    BY CacheAssumption DEF Candidates
  <1>4. JobOK'
    BY <1>2, <1>3 DEF JobOK
  <1>5. QED
    BY <1>1, <1>2, <1>4, JobMoves

LEMMA MorePrefixes ==
  ASSUME NEW s \in Seq(Datasets), s # <<>>, Len(s) # 1
  PROVE  Tail(s) \in Seq(Datasets) /\ Tail(s) # <<>>
  <1>1. Len(s) \in Nat /\ Len(s) # 0
    OBVIOUS
  <1>2. Tail(s) \in Seq(Datasets) /\ Len(Tail(s)) = Len(s) - 1
    BY <1>1
  <1>3. Len(<<>>) = 0
    OBVIOUS
  <1>4. Tail(s) # <<>>
    <2>1. Len(Tail(s)) # Len(<<>>)
      BY <1>1, <1>2, <1>3
    <2>2. QED
      BY <2>1
  <1>5. QED
    BY <1>2, <1>4

LEMMA PassOverOK ==
  ASSUME CacheInv, JobAt("resolve"), PassOver
  PROVE  JobOK' /\ job'.pc \in {"free", "resolve"} /\ (job'.pc # "free" => job'.d = job.d)
  <1>1. CASE job' = Free
    BY <1>1, FreeOK
  <1>2. CASE Len(job.prefixes) # 1 /\ job' = [job EXCEPT !.prefixes = Tail(@)]
    <2>1. Tail(job.prefixes) \in Seq(Datasets) /\ Tail(job.prefixes) # <<>>
      BY <1>2, MorePrefixes DEF CacheInv, JobOK, JobAt
    <2>2. /\ DOMAIN job' = DOMAIN job /\ job'.pc = "resolve" /\ job'.d = job.d
          /\ job'.prefixes = Tail(job.prefixes)
      BY <1>2 DEF CacheInv, JobOK, JobAt
    <2>3. QED
      BY <2>1, <2>2 DEF CacheInv, JobOK, JobAt
  <1>3. QED
    BY <1>1, <1>2 DEF PassOver

LEMMA ListStep ==
  ASSUME CacheInv, ListPrefix \/ ListFails
  PROVE  CacheInv' /\ FilesKept
  <1>1. UNCHANGED <<bucket, disk, excess, readers>> /\ JobAt("resolve")
    BY DEF ListPrefix, ListFails, disks, outside
  <1>2. CASE PassOver
    BY <1>1, <1>2, PassOverOK, JobMoves DEF JobAt
  <1>3. CASE /\ Objects # NoFiles
             /\ job' = [job EXCEPT !.pc = "trim", !.objects = Objects, !.total = Usage,
                                   !.queue = IF Usage > MaxBytes THEN order ELSE <<>>]
    <2>1. /\ DOMAIN job' = DOMAIN job /\ job'.pc = "trim" /\ job'.d = job.d
          /\ job'.objects = Objects /\ job'.total = Usage /\ job'.prefixes = job.prefixes
      BY <1>3 DEF CacheInv, JobOK
    <2>2. Head(job.prefixes) \in Datasets
      BY <1>1 DEF CacheInv, JobOK, JobAt
    <2>3. Objects \in Contents
      BY <2>2 DEF Objects, CacheInv, DiskOK
    <2>4. Usage \in Nat /\ excess \in Nat
      BY UsageNat DEF CacheInv, DiskOK
    <2>5. JobOK'
      BY <1>1, <2>1, <2>3, <2>4 DEF CacheInv, JobOK, JobAt
    <2>6. QED
      BY <1>1, <2>1, <2>4, <2>5, JobMoves DEF JobAt
  <1>4. QED
    BY <1>2, <1>3 DEF ListPrefix, ListFails

LEMMA ReserveStep ==
  ASSUME CacheInv, Reserve
  PROVE  CacheInv' /\ FilesKept
  <1>1. /\ UNCHANGED <<bucket, disk, excess, readers>> /\ job.pc = "trim"
        /\ job' = [job EXCEPT !.pc = "reserve", !.queue = Others,
                              !.missing = Missing(job.d, job.objects)]
    BY DEF Reserve, disks, outside, JobAt
  <1>2. /\ DOMAIN job' = DOMAIN job /\ job'.pc = "reserve" /\ job'.d = job.d
        /\ job'.objects = job.objects /\ job'.total = job.total
        /\ job'.prefixes = job.prefixes /\ job'.missing = Missing(job.d, job.objects)
    BY <1>1 DEF CacheInv, JobOK
  <1>3. JobOK'
    BY <1>1, <1>2 DEF CacheInv, JobOK, Missing
  <1>4. Usage <= job'.total + excess
    BY <1>1, <1>2 DEF CacheInv, Room
  <1>5. QED
    BY <1>1, <1>2, <1>3, <1>4, JobMoves

LEMMA DecideStep ==
  ASSUME CacheInv, Refuse \/ Accept
  PROVE  CacheInv' /\ FilesKept
  <1>1. UNCHANGED <<bucket, disk, excess, readers>> /\ job.pc = "reserve"
    BY DEF Refuse, Accept, disks, outside, JobAt
  <1>2. CASE Refuse
    BY <1>1, <1>2, FreeOK, JobMoves DEF Refuse
  <1>3. CASE Accept
    <2>1. job' = [job EXCEPT !.pc = "download"] /\ job.total + Needed <= MaxBytes
      BY <1>3 DEF Accept
    <2>2. /\ DOMAIN job' = DOMAIN job /\ job'.pc = "download" /\ job'.d = job.d
          /\ job'.objects = job.objects /\ job'.prefixes = job.prefixes
          /\ job'.missing = job.missing
      BY <2>1 DEF CacheInv, JobOK
    <2>3. JobOK'
      BY <1>1, <2>2 DEF CacheInv, JobOK
    <2>4. Needed' = Needed
      BY <2>2 DEF Needed, Incoming
    <2>5. Needed \in Nat
      <3>1. IsFiles(job.objects) /\ job.missing \in SUBSET (DOMAIN job.objects)
        BY <1>1, ContentIsFiles DEF CacheInv, JobOK
      <3>2. QED
        BY <3>1, RestrictFiles, BytesNat DEF Needed, Incoming
    <2>6. Usage \in Nat /\ excess \in Nat /\ job.total \in Int /\ MaxBytes \in Nat
          /\ Usage <= job.total + excess
      BY <1>1, UsageNat, CacheAssumption DEF CacheInv, DiskOK, JobOK, Room
    <2>7. Usage + Needed' <= MaxBytes + excess
      BY <2>1, <2>4, <2>5, <2>6
    <2>8. QED
      BY <1>1, <2>2, <2>3, <2>7, JobMoves
  <1>4. QED
    BY <1>2, <1>3

(* One folder d that nobody reads any more is written, for a download or   *)
(* an eviction.                                                            *)
LEMMA FolderMoves ==
  ASSUME CacheInv, NEW d \in Datasets, NEW x, IsFolder(x), Write(d, x),
         bucket' = bucket, excess' \in Nat, JobOK', Room',
         readers' \subseteq readers, d \notin readers',
         job'.pc # "free" => job.pc # "free" /\ job'.d = job.d,
         d \in readers => job.pc \in {"trim", "reserve"}
  PROVE  CacheInv' /\ FilesKept
  <1>1. /\ DiskOK' /\ disk'[d] = x
        /\ \A e \in Datasets : e # d => disk'[e] = disk[e]
    BY WriteCounts DEF CacheInv, DiskOK
  <1>2. ReadersOK'
    <2> SUFFICES ASSUME NEW e \in readers'
                 PROVE  e \in Datasets /\ Valid(e)' /\ (job'.pc # "free" => job'.d # e)
      BY DEF ReadersOK
    <2>1. e \in Datasets /\ e # d /\ Valid(e) /\ (job.pc # "free" => job.d # e)
      BY DEF CacheInv, ReadersOK
    <2>2. disk'[e] = disk[e]
      BY <1>1, <2>1
    <2>3. Valid(e)'
      BY <2>1, <2>2 DEF Valid, Lacks
    <2>4. QED
      BY <2>1, <2>3
  <1>3. FilesKept
    <2> SUFFICES ASSUME NEW e \in readers
                 PROVE  \/ disk'[e].files = disk[e].files
                        \/ job.pc \in {"trim", "reserve"} /\ job.d # e
      BY DEF FilesKept
    <2>1. e \in Datasets /\ (job.pc # "free" => job.d # e)
      BY DEF CacheInv, ReadersOK
    <2>2. CASE e = d
      BY <2>1, <2>2
    <2>3. CASE e # d
      BY <1>1, <2>1, <2>3
    <2>4. QED
      BY <2>2, <2>3
  <1>4. QED
    BY <1>1, <1>2, <1>3 DEF CacheInv

LEMMA RemnantsAreFolders ==
  ASSUME NEW x, IsFolder(x), NEW y \in Remnants(x)
  PROVE  IsFolder(y)
  <1>1. PICK fs \in SUBSET (DOMAIN x.files \union DOMAIN x.parts), m \in {Null, x.manifest} :
          y = [Without(x, fs) EXCEPT !.manifest = m]
    BY DEF Remnants
  <1> DEFINE F == Restrict(x.files, DOMAIN x.files \ fs)
             G == Restrict(x.parts, DOMAIN x.parts \ fs)
  <1>2. IsFiles(F) /\ IsFiles(G)
    BY RestrictFiles DEF IsFolder
  <1>3. /\ DOMAIN y = {"files", "parts", "manifest"}
        /\ y.files = F /\ y.parts = G
    BY <1>1 DEF Without, IsFolder
  <1>4. QED
    BY <1>2, <1>3 DEF IsFolder

(* Both guardrails: what is evicted, and what a failed eviction leaves.    *)
LEMMA EvictStep ==
  ASSUME CacheInv, NEW d \in Datasets, Trimming \/ Reserving, Evict(d) \/ EvictFails(d)
  PROVE  CacheInv' /\ FilesKept
  <1>1. /\ job.pc \in {"trim", "reserve"} /\ job' = Freed(d) /\ bucket' = bucket
        /\ readers' = readers \ {d}
    BY DEF Trimming, Reserving, Evict, EvictFails, JobAt, outside
  <1>2. PICK x : /\ IsFolder(x) /\ Write(d, x) /\ excess' = excess + FolderBytes(x)
    <2>1. CASE Evict(d)
      <3>1. Write(d, NoFolder) /\ excess' = excess + FolderBytes(NoFolder)
        BY <2>1, EmptyFolder DEF Evict, CacheInv, DiskOK
      <3>2. QED
        BY <3>1, EmptyFolder
    <2>2. CASE EvictFails(d)
      <3>1. IsFolder(disk[d])
        BY DEF CacheInv, DiskOK
      <3>2. QED
        BY <2>2, <3>1, RemnantsAreFolders DEF EvictFails
    <2>3. QED
      BY <2>1, <2>2
  <1>3. FolderBytes(x) \in Nat /\ excess \in Nat /\ excess' \in Nat
    BY <1>2, FolderNat DEF CacheInv, DiskOK
  <1>4. /\ Usage \in Nat /\ FolderBytes(disk[d]) \in Nat
        /\ Usage' = Usage - FolderBytes(disk[d]) + FolderBytes(x)
    BY <1>1, <1>2, <1>3, WriteCounts DEF CacheInv, DiskOK
  <1>5. /\ DOMAIN job' = DOMAIN job /\ job'.pc = job.pc /\ job'.d = job.d
        /\ job'.objects = job.objects /\ job'.prefixes = job.prefixes
        /\ job'.missing = job.missing
        /\ job'.total = job.total - FolderBytes(disk[d])
    BY <1>1 DEF Freed, CacheInv, JobOK
  <1>6. job.total \in Int /\ Usage <= job.total + excess /\ Usage <= MaxBytes + excess
        /\ MaxBytes \in Nat
    BY <1>1, CacheAssumption DEF CacheInv, JobOK, Room, DiskBounded
  <1>7. JobOK'
    BY <1>1, <1>4, <1>5, <1>6 DEF CacheInv, JobOK
  <1>8. Room'
    <2>1. Usage' <= MaxBytes + excess' /\ Usage' <= job'.total + excess'
      BY <1>2, <1>3, <1>4, <1>5, <1>6
    <2>2. QED
      BY <1>1, <1>5, <2>1 DEF Room, DiskBounded
  <1>9. QED
    BY <1>1, <1>2, <1>3, <1>5, <1>7, <1>8, FolderMoves

(* What the download needs to know of its own folder.                      *)
LEMMA OwnFolder ==
  ASSUME CacheInv, job.pc \in {"download", "manifest"}
  PROVE  /\ job.d \in Datasets /\ job.d \notin readers /\ IsFolder(disk[job.d])
         /\ job.objects \in Contents /\ IsFiles(job.objects)
         /\ Head(job.prefixes) \in Datasets /\ IsFiles(bucket[Head(job.prefixes)])
         /\ Usage \in Nat /\ excess \in Nat /\ MaxBytes \in Nat /\ Usage <= MaxBytes + excess
  <1>1. job.d \in Datasets /\ job.objects \in Contents /\ IsFiles(job.objects)
    BY ContentIsFiles DEF CacheInv, JobOK
  <1>2. job.d \notin readers /\ IsFolder(disk[job.d])
    BY <1>1 DEF CacheInv, ReadersOK, DiskOK
  <1>3. Head(job.prefixes) \in Datasets
    BY DEF CacheInv, JobOK
  <1>4. IsFiles(bucket[Head(job.prefixes)])
    BY <1>3, ContentIsFiles DEF CacheInv, DiskOK
  <1>5. QED
    BY <1>1, <1>2, <1>3, <1>4, UsageNat, CacheAssumption DEF CacheInv, DiskOK, Room, DiskBounded

LEMMA FetchStep ==
  ASSUME CacheInv, NEW f \in job.missing, Fetch(f)
  PROVE  CacheInv' /\ FilesKept
  <1> DEFINE n == bucket[Prefix][f]
             x == disk[job.d]
             F == Set(x.files, f, n)
             G == Restrict(x.parts, DOMAIN x.parts \ {f})
             y == [x EXCEPT !.files = F, !.parts = G]
  <1>1. /\ job.pc = "download" /\ f \in DOMAIN bucket[Prefix]
        /\ Write(job.d, y)
        /\ excess' = IF n > job.objects[f] THEN excess + n - job.objects[f] ELSE excess
        /\ job' = [job EXCEPT !.missing = @ \ {f}]
        /\ readers' = readers /\ bucket' = bucket
    BY DEF Fetch, Missed, JobAt, outside
  <1>2. /\ job.d \in Datasets /\ job.d \notin readers /\ IsFolder(x)
        /\ job.objects \in Contents /\ IsFiles(job.objects) /\ IsFiles(bucket[Prefix])
        /\ Usage \in Nat /\ excess \in Nat /\ MaxBytes \in Nat
    BY <1>1, OwnFolder DEF Prefix
  <1>3. n \in Nat
    BY <1>1, <1>2 DEF IsFiles
  <1>4. job.missing \in SUBSET (DOMAIN job.objects) /\ Usage + Needed <= MaxBytes + excess
    BY <1>1 DEF CacheInv, JobOK, Room
  <1>5. /\ Needed = job.objects[f] + Incoming(job.objects, job.missing \ {f})
        /\ job.objects[f] \in Nat /\ Incoming(job.objects, job.missing \ {f}) \in Nat
    BY <1>2, <1>4, OneLess DEF Needed
  <1>6. /\ IsFiles(F) /\ Bytes(F) <= Bytes(x.files) + n
        /\ IsFiles(G) /\ Bytes(G) <= Bytes(x.parts)
        /\ Bytes(F) \in Nat /\ Bytes(G) \in Nat
        /\ Bytes(x.files) \in Nat /\ Bytes(x.parts) \in Nat
    <2>1. IsFiles(x.files) /\ IsFiles(x.parts)
      BY <1>2 DEF IsFolder
    <2>2. IsFiles(F) /\ Bytes(F) <= Bytes(x.files) + n
      BY <1>3, <2>1, SetFiles
    <2>3. IsFiles(G) /\ Bytes(G) <= Bytes(x.parts)
      BY <2>1, RestrictFiles
    <2> HIDE DEF F, G, x
    <2>4. QED
      BY <2>1, <2>2, <2>3, BytesNat
  <1>7. /\ IsFolder(y) /\ FolderBytes(y) = Bytes(F) + Bytes(G)
        /\ FolderBytes(x) = Bytes(x.files) + Bytes(x.parts)
    <2>1. DOMAIN y = {"files", "parts", "manifest"} /\ y.files = F /\ y.parts = G
      BY <1>2 DEF IsFolder
    <2> HIDE DEF F, G, x, y
    <2>2. QED
      BY <1>6, <2>1 DEF IsFolder, FolderBytes
  <1>8. excess' \in Nat /\ excess' >= excess /\ excess' >= excess + n - job.objects[f]
    <2> HIDE DEF n
    <2>1. QED
      BY <1>1, <1>2, <1>3, <1>5
  <1>9. Usage' = Usage - FolderBytes(x) + FolderBytes(y) /\ Usage' \in Nat
    <2> HIDE DEF y
    <2>1. QED
      BY <1>1, <1>2, <1>7, <1>8, WriteCounts DEF CacheInv, DiskOK
  <1>10. /\ DOMAIN job' = DOMAIN job /\ job'.pc = job.pc /\ job'.d = job.d
         /\ job'.objects = job.objects /\ job'.prefixes = job.prefixes
         /\ job'.missing = job.missing \ {f}
    BY <1>1 DEF CacheInv, JobOK
  <1>11. JobOK'
    BY <1>1, <1>4, <1>10 DEF CacheInv, JobOK
  <1>12. Needed' = Incoming(job.objects, job.missing \ {f})
    BY <1>10 DEF Needed, Incoming
  <1> HIDE DEF n, x, F, G, y
  <1>13. Usage' <= Usage + n
    BY <1>2, <1>3, <1>6, <1>7, <1>9
  <1>14. Room'
    <2>1. Usage' + Needed' <= MaxBytes + excess'
      BY <1>2, <1>3, <1>4, <1>5, <1>8, <1>9, <1>12, <1>13
    <2>2. Usage' <= MaxBytes + excess'
      BY <1>2, <1>5, <1>8, <1>9, <1>12, <2>1
    <2>3. QED
      BY <1>1, <1>10, <2>1, <2>2 DEF Room, DiskBounded
  <1>15. QED
    BY <1>1, <1>2, <1>7, <1>8, <1>10, <1>11, <1>14, FolderMoves

(* The folder of the job loses files, or nothing but its manifest changes. *)
LEMMA OwnFolderShrinks ==
  ASSUME CacheInv, job.pc \in {"download", "manifest"}, NEW y, IsFolder(y),
         FolderBytes(y) <= FolderBytes(disk[job.d]), Write(job.d, y),
         UNCHANGED <<bucket, excess>>, readers' \subseteq readers, JobOK',
         job'.pc \in {"free", "manifest"},
         job'.pc # "free" => job'.d = job.d
  PROVE  CacheInv' /\ FilesKept
  <1>1. /\ job.d \in Datasets /\ job.d \notin readers
        /\ Usage \in Nat /\ excess \in Nat /\ MaxBytes \in Nat /\ Usage <= MaxBytes + excess
    BY OwnFolder
  <1>2. /\ Usage' = Usage - FolderBytes(disk[job.d]) + FolderBytes(y)
        /\ FolderBytes(disk[job.d]) \in Nat /\ FolderBytes(y) \in Nat
    BY <1>1, WriteCounts DEF CacheInv, DiskOK
  <1>3. Usage' <= MaxBytes + excess'
    BY <1>1, <1>2
  <1>4. Room'
    BY <1>3 DEF Room, DiskBounded
  <1>5. QED
    BY <1>1, <1>4, FolderMoves

LEMMA AbandonStep ==
  ASSUME CacheInv, Vanished \/ FetchFails
  PROVE  CacheInv' /\ FilesKept
  <1>1. job.pc = "download" /\ Abandon
    BY DEF Vanished, FetchFails, JobAt
  <1> DEFINE x == disk[job.d]
             G(f) == Restrict(x.parts, DOMAIN x.parts \ {f})
  <1>2. PICK f : Write(job.d, [x EXCEPT !.parts = G(f)])
    BY <1>1 DEF Abandon
  <1> DEFINE y == [x EXCEPT !.parts = G(f)]
  <1>3. IsFolder(x)
    BY <1>1, OwnFolder
  <1>4. IsFiles(G(f)) /\ Bytes(G(f)) <= Bytes(x.parts) /\ IsFiles(x.files) /\ IsFiles(x.parts)
    BY <1>3, RestrictFiles DEF IsFolder
  <1>5. Bytes(G(f)) \in Nat /\ Bytes(x.parts) \in Nat /\ Bytes(x.files) \in Nat
    <2> HIDE DEF G, x
    <2>1. QED
      BY <1>4, BytesNat
  <1>6. DOMAIN y = {"files", "parts", "manifest"} /\ y.files = x.files /\ y.parts = G(f)
    BY <1>3 DEF IsFolder
  <1>7. Write(job.d, y)
    BY <1>2
  <1> HIDE DEF y, G, x
  <1>8. IsFolder(y) /\ FolderBytes(y) <= FolderBytes(x)
    BY <1>4, <1>5, <1>6 DEF IsFolder, FolderBytes
  <1>9. UNCHANGED <<bucket, excess>> /\ readers' = readers /\ job' = Free
    BY <1>1 DEF Abandon, outside
  <1>10. QED
    BY <1>1, <1>7, <1>8, <1>9, FreeOK, OwnFolderShrinks DEF x

LEMMA PruneStep ==
  ASSUME CacheInv, Prune
  PROVE  CacheInv' /\ FilesKept
  <1> DEFINE x == disk[job.d]
             F == Restrict(x.files, DOMAIN x.files \intersect DOMAIN job.objects)
             y == [x EXCEPT !.files = F]
  <1>1. /\ job.pc = "download" /\ Write(job.d, y)
        /\ job' = [job EXCEPT !.pc = "manifest"]
        /\ UNCHANGED <<bucket, excess>> /\ readers' = readers
    BY DEF Prune, JobAt, outside
  <1>2. IsFolder(x)
    BY <1>1, OwnFolder
  <1>3. IsFiles(F) /\ Bytes(F) <= Bytes(x.files) /\ IsFiles(x.files) /\ IsFiles(x.parts)
    BY <1>2, RestrictFiles DEF IsFolder
  <1>4. Bytes(F) \in Nat /\ Bytes(x.parts) \in Nat /\ Bytes(x.files) \in Nat
    <2> HIDE DEF F, x
    <2>1. QED
      BY <1>3, BytesNat
  <1>5. DOMAIN y = {"files", "parts", "manifest"} /\ y.files = F /\ y.parts = x.parts
    BY <1>2 DEF IsFolder
  <1>6. /\ DOMAIN job' = DOMAIN job /\ job'.pc = "manifest" /\ job'.d = job.d
        /\ job'.objects = job.objects /\ job'.prefixes = job.prefixes
    BY <1>1 DEF CacheInv, JobOK
  <1>7. JobOK'
    BY <1>1, <1>6 DEF CacheInv, JobOK
  <1> HIDE DEF y, F, x
  <1>8. IsFolder(y) /\ FolderBytes(y) <= FolderBytes(x)
    BY <1>3, <1>4, <1>5 DEF IsFolder, FolderBytes
  <1>9. QED
    BY <1>1, <1>6, <1>7, <1>8, OwnFolderShrinks DEF x

LEMMA ManifestStep ==
  ASSUME CacheInv, WriteManifest
  PROVE  CacheInv' /\ FilesKept
  <1>0. PICK d : d = job.d
    OBVIOUS
  <1> DEFINE x == disk[d]
             y == [x EXCEPT !.manifest = job.objects]
  <1>1. /\ job.pc = "manifest" /\ Write(d, y) /\ job' = Free
        /\ readers' = IF Missing(d, job.objects) = {} THEN readers \union {d} ELSE readers
        /\ UNCHANGED <<bucket, excess>>
    BY <1>0 DEF WriteManifest, JobAt, outside
  <1>2. /\ d \in Datasets /\ d \notin readers /\ IsFolder(x)
        /\ job.objects # Null
        /\ Usage \in Nat /\ excess \in Nat /\ MaxBytes \in Nat /\ Usage <= MaxBytes + excess
    BY <1>0, <1>1, OwnFolder, ContentIsFiles
  <1>3. /\ DOMAIN y = {"files", "parts", "manifest"} /\ y.files = x.files
        /\ y.parts = x.parts /\ y.manifest = job.objects
    BY <1>2 DEF IsFolder
  <1> HIDE DEF y
  <1>4. IsFolder(y) /\ FolderBytes(y) = FolderBytes(x)
    BY <1>2, <1>3 DEF IsFolder, FolderBytes
  <1>5. /\ DiskOK' /\ disk'[d] = y /\ \A e \in Datasets : e # d => disk'[e] = disk[e]
        /\ Usage' = Usage - FolderBytes(x) + FolderBytes(y)
        /\ FolderBytes(x) \in Nat /\ FolderBytes(y) \in Nat
    BY <1>1, <1>2, <1>4, WriteCounts DEF CacheInv, DiskOK
  <1>6. JobOK' /\ job'.pc = "free"
    BY <1>1, FreeOK
  <1>7. Room'
    <2>1. Usage' <= MaxBytes + excess'
      BY <1>1, <1>2, <1>4, <1>5
    <2>2. QED
      BY <1>6, <2>1 DEF Room, DiskBounded
  <1>8. ASSUME NEW e \in readers
        PROVE  e \in Datasets /\ e # d /\ Valid(e)' /\ disk'[e] = disk[e]
    <2>1. e \in Datasets /\ e # d /\ Valid(e)
      BY <1>2 DEF CacheInv, ReadersOK
    <2>2. disk'[e] = disk[e]
      BY <1>5, <2>1
    <2>3. Valid(e)'
      BY <2>1, <2>2 DEF Valid, Lacks
    <2>4. QED
      BY <2>1, <2>2, <2>3
  <1>9. ASSUME Missing(d, job.objects) = {}
        PROVE  Valid(d)'
    <2>1. \A f \in DOMAIN job.objects :
            f \in DOMAIN x.files /\ x.files[f] = job.objects[f]
      BY <1>9 DEF Missing, Lacks
    <2>2. disk'[d].manifest = job.objects /\ disk'[d].files = x.files
      BY <1>3, <1>5
    <2> HIDE DEF x
    <2>3. QED
      BY <1>2, <2>1, <2>2 DEF Valid, Lacks
  <1>10. ReadersOK'
    <2> SUFFICES ASSUME NEW e \in readers'
                 PROVE  e \in Datasets /\ Valid(e)'
      BY <1>6 DEF ReadersOK
    <2>1. CASE e \in readers
      BY <1>8, <2>1
    <2>2. CASE e \notin readers
      <3>1. e = d /\ Missing(d, job.objects) = {}
        BY <1>1, <2>2
      <3>2. QED
        BY <1>2, <1>9, <3>1
    <2>3. QED
      BY <2>1, <2>2
  <1>11. FilesKept
    BY <1>8 DEF FilesKept
  <1>12. QED
    BY <1>5, <1>6, <1>7, <1>10, <1>11 DEF CacheInv

LEMMA KillStep ==
  ASSUME CacheInv, Kill
  PROVE  CacheInv' /\ FilesKept
  <1>1. job' = Free /\ readers' = {} /\ UNCHANGED bucket
    BY DEF Kill, outside
  <1>2. JobOK' /\ job'.pc = "free" /\ ReadersOK'
    BY <1>1, FreeOK DEF ReadersOK
  <1>3. CASE UNCHANGED <<disk, order, excess>>
    <2>1. /\ DiskOK' /\ Usage' = Usage
          /\ \A d \in readers : disk'[d].files = disk[d].files
      BY <1>1, <1>3, Standing DEF CacheInv, DiskOK
    <2>2. Room'
      BY <1>1, <1>2, <1>3, <2>1 DEF CacheInv, Room, DiskBounded
    <2>3. QED
      BY <1>2, <2>1, <2>2 DEF CacheInv, FilesKept
  <1>4. CASE KillDownload
    <2> DEFINE x == disk[job.d]
    <2>1. job.pc = "download"
      BY <1>4 DEF KillDownload, JobAt
    <2>2. PICK f \in job.missing :
            /\ f \in DOMAIN bucket[Prefix]
            /\ \E k \in 0 .. bucket[Prefix][f] :
                 Write(job.d, Leftover(f, k)) /\ excess' = Missed(f, k)
      BY <1>4 DEF KillDownload
    <2>3. PICK k \in 0 .. bucket[Prefix][f] :
            Write(job.d, Leftover(f, k)) /\ excess' = Missed(f, k)
      BY <2>2
    <2> DEFINE y == Leftover(f, k)
    <2>4. /\ job.d \in Datasets /\ job.d \notin readers /\ IsFolder(x)
          /\ job.objects \in Contents /\ IsFiles(job.objects) /\ IsFiles(bucket[Prefix])
          /\ Usage \in Nat /\ excess \in Nat /\ MaxBytes \in Nat
      BY <2>1, OwnFolder DEF Prefix
    <2>5. job.missing \in SUBSET (DOMAIN job.objects) /\ Usage + Needed <= MaxBytes + excess
      BY <2>1 DEF CacheInv, JobOK, Room
    <2>6. /\ Needed = job.objects[f] + Incoming(job.objects, job.missing \ {f})
          /\ job.objects[f] \in Nat /\ Incoming(job.objects, job.missing \ {f}) \in Nat
      BY <2>4, <2>5, OneLess DEF Needed
    <2>7. k \in Nat
      BY <2>2, <2>4 DEF IsFiles
    <2>8. /\ IsFolder(y) /\ FolderBytes(y) \in Nat /\ FolderBytes(x) \in Nat
          /\ FolderBytes(y) <= FolderBytes(x) + k
      <3>1. CASE k = 0
        <4>1. y = x
          BY <3>1 DEF Leftover
        <4> HIDE DEF x, y
        <4>2. QED
          BY <2>4, <3>1, <4>1, FolderNat
      <3>2. CASE k # 0
        <4>1. y = [x EXCEPT !.parts = Set(@, f, k)]
          BY <3>2 DEF Leftover
        <4>2. /\ DOMAIN y = {"files", "parts", "manifest"} /\ y.files = x.files
              /\ y.parts = Set(x.parts, f, k)
          BY <2>4, <4>1 DEF IsFolder
        <4>3. IsFiles(x.files) /\ IsFiles(x.parts)
          BY <2>4 DEF IsFolder
        <4> HIDE DEF x, y
        <4>4. IsFiles(y.parts) /\ Bytes(y.parts) <= Bytes(x.parts) + k
          BY <2>7, <4>2, <4>3, SetFiles
        <4>5. Bytes(y.parts) \in Nat /\ Bytes(x.parts) \in Nat /\ Bytes(x.files) \in Nat
          BY <4>3, <4>4, BytesNat
        <4>6. QED
          BY <2>7, <4>2, <4>3, <4>4, <4>5 DEF IsFolder, FolderBytes
      <3>3. QED
        BY <3>1, <3>2
    <2>9. excess' \in Nat /\ excess' >= excess /\ excess' >= excess + k - job.objects[f]
      BY <2>3, <2>4, <2>6, <2>7 DEF Missed
    <2>10. Write(job.d, y)
      BY <2>3
    <2> HIDE DEF x, y
    <2>11. Usage' = Usage - FolderBytes(x) + FolderBytes(y)
      BY <1>1, <2>4, <2>8, <2>9, <2>10, WriteCounts DEF CacheInv, DiskOK, x
    <2>12. Usage' <= MaxBytes + excess'
      BY <2>4, <2>5, <2>6, <2>7, <2>8, <2>9, <2>11
    <2>13. Room'
      BY <1>2, <2>12 DEF Room, DiskBounded
    <2>14. readers' \subseteq readers /\ job.d \notin readers'
      BY <1>1
    <2>15. QED
      BY <1>1, <1>2, <2>4, <2>8, <2>9, <2>10, <2>13, <2>14, FolderMoves
  <1>5. QED
    BY <1>3, <1>4 DEF Kill

LEMMA CacheInitInv ==
  ASSUME CacheInit
  PROVE  CacheInv
  <1>1. /\ bucket \in [Datasets -> Contents] /\ disk = [d \in Datasets |-> NoFolder]
        /\ job = Free /\ readers = {} /\ excess = 0
    BY DEF CacheInit
  <1>2. DiskOK
    BY <1>1, EmptyFolder DEF DiskOK
  <1>3. JobOK /\ job.pc = "free"
    BY <1>1 DEF Free, JobOK
  <1>4. Usage = 0
    <2> DEFINE F == [d \in Datasets |-> FolderBytes(disk[d])]
    <2>1. \A d \in Datasets : F[d] = 0
      BY <1>1, EmptyFolder
    <2>2. Usage = Sum(F, Datasets) /\ IsFiniteSet(Datasets)
      BY <1>2, UsageNat, CacheAssumption
    <2> HIDE DEF F
    <2>3. Sum(F, Datasets) = 0
      BY <2>1, <2>2, SumZero
    <2>4. QED
      BY <2>2, <2>3
  <1>5. Room
    BY <1>1, <1>3, <1>4, CacheAssumption DEF Room, DiskBounded
  <1>6. ReadersOK
    BY <1>1 DEF ReadersOK
  <1>7. QED
    BY <1>2, <1>3, <1>5, <1>6 DEF CacheInv

LEMMA CacheStep ==
  ASSUME CacheInv, CacheNext \/ UNCHANGED cacheVars
  PROVE  CacheInv' /\ FilesKept
  <1>1. CASE UNCHANGED cacheVars \/ \E d \in Datasets : Return(d) \/ Leave(d) \/ Upload(d)
    BY <1>1, Waiting
  <1>2. CASE \E d \in Datasets : Begin(d)
    BY <1>2, BeginStep
  <1>3. CASE Ensure
    <2>1. CASE ListPrefix
      BY <2>1, ListStep
    <2>2. CASE Reserve
      BY <2>2, ReserveStep
    <2>3. CASE Refuse \/ Accept
      BY <2>3, DecideStep
    <2>4. CASE Vanished
      BY <2>4, AbandonStep
    <2>5. CASE Prune
      BY <2>5, PruneStep
    <2>6. CASE WriteManifest
      BY <2>6, ManifestStep
    <2>7. CASE \E d \in Datasets : (Trimming \/ Reserving) /\ d = Head(job.queue) /\ Evict(d)
      BY <2>7, EvictStep
    <2>8. CASE \E f \in job.missing : Fetch(f)
      BY <2>8, FetchStep
    <2>9. QED
      BY <1>3, <2>1, <2>2, <2>3, <2>4, <2>5, <2>6, <2>7, <2>8 DEF Ensure
  <1>4. CASE CacheFails
    <2>1. CASE ListFails
      BY <2>1, ListStep
    <2>2. CASE FetchFails
      BY <2>2, AbandonStep
    <2>3. CASE Kill
      BY <2>3, KillStep
    <2>4. CASE \E d \in Datasets :
                 (Trimming \/ Reserving) /\ d = Head(job.queue) /\ EvictFails(d)
      BY <2>4, EvictStep
    <2>5. QED
      BY <1>4, <2>1, <2>2, <2>3, <2>4 DEF CacheFails
  <1>5. QED
    BY <1>1, <1>2, <1>3, <1>4 DEF CacheNext

-----------------------------------------------------------------------------
(* The invariant of the measuring threads.                                 *)
ThreadOK(w) ==
  /\ DOMAIN w = {"keys", "left", "item", "read", "failed"}
  /\ w.left \subseteq DOMAIN w.keys
  /\ w.item # None => w.item \in DOMAIN w.keys
  /\ \A n \in DOMAIN w.keys : n \in Names /\ w.keys[n] \in Keys \union {None}

Types ==
  /\ rows \in [Names -> [key : Keys \union {None}, scale : Keys \union {None}]]
  /\ page \in [pc : {"idle", "listed", "waiting"}, todo : SUBSET Names, shown : SUBSET Names]

Threads ==
  /\ inflight \subseteq Names
  /\ \A w \in workers : ThreadOK(w)

(* Names under way are those of the threads, each of one thread, and those *)
(* of threads that could not be started.                                   *)
Owned ==
  /\ \A w, v \in workers : w # v => DOMAIN w.keys \intersect DOMAIN v.keys = {}
  /\ \A w \in workers : DOMAIN w.keys \subseteq inflight
  /\ \A n \in inflight \ refused : \E w \in workers : n \in DOMAIN w.keys

ScaleInv == Types /\ Threads /\ Owned

LEMMA OwnedIsMeasuredByOne ==
  ASSUME ScaleInv
  PROVE  MeasuredByOne /\ ScaleTypeOK
  <1>1. ASSUME NEW n \in Names
        PROVE  /\ Cardinality(Owners(n)) <= 1
               /\ Owners(n) # {} => n \in inflight
               /\ n \in inflight \ refused => Owners(n) # {}
    <2>1. CASE Owners(n) = {}
      <3>1. Cardinality(Owners(n)) = 0
        BY <2>1, FS_EmptySet
      <3>2. n \notin inflight \ refused
        BY <2>1 DEF ScaleInv, Owned, Owners
      <3>3. QED
        BY <2>1, <3>1, <3>2
    <2>2. CASE Owners(n) # {}
      <3>1. PICK w : w \in Owners(n)
        BY <2>2
      <3>2. Owners(n) = {w} /\ n \in inflight
        BY <3>1 DEF ScaleInv, Owned, Owners
      <3>3. Cardinality(Owners(n)) = 1
        BY <3>2, FS_Singleton
      <3>4. QED
        BY <2>2, <3>2, <3>3
    <2>3. QED
      BY <2>1, <2>2
  <1>2. ScaleTypeOK
    BY DEF ScaleInv, Types, Threads, ThreadOK, ScaleTypeOK
  <1>3. QED
    BY <1>1, <1>2 DEF MeasuredByOne

(* Requests, and pages that start no thread.                               *)
LEMMA RequestStep ==
  ASSUME ScaleInv,
         \/ List \/ NothingToMeasure \/ Render
         \/ \E n \in Names : Delete(n) \/ \E k \in Keys : Register(n, k)
         \/ UNCHANGED scaleVars
  PROVE  ScaleInv'
  <1>1. UNCHANGED <<inflight, workers, refused>>
    BY DEF List, NothingToMeasure, Render, Delete, Register, scaleVars
  <1>2. Threads' /\ Owned'
    BY <1>1 DEF ScaleInv, Threads, ThreadOK, Owned
  <1>3. rows' \in [Names -> [key : Keys \union {None}, scale : Keys \union {None}]]
    <2>1. CASE \E n \in Names : Delete(n)
      <3>1. NoRow \in [key : Keys \union {None}, scale : Keys \union {None}]
        BY DEF NoRow
      <3>2. QED
        BY <2>1, <3>1 DEF Delete, ScaleInv, Types
    <2>2. CASE \E n \in Names, k \in Keys : Register(n, k)
      <3>1. PICK n \in Names, k \in Keys : Register(n, k)
        BY <2>2
      <3>2. PICK scale \in {None, rows[n].scale} :
              rows' = [rows EXCEPT ![n] = [key |-> k, scale |-> scale]]
        BY <3>1 DEF Register
      <3>3. scale \in Keys \union {None}
        BY DEF ScaleInv, Types
      <3>4. QED
        BY <3>2, <3>3 DEF ScaleInv, Types
    <2>3. CASE UNCHANGED rows
      BY <2>3 DEF ScaleInv, Types
    <2>4. QED
      BY <2>1, <2>2, <2>3 DEF List, NothingToMeasure, Render, scaleVars
  <1>4. page' \in [pc : {"idle", "listed", "waiting"}, todo : SUBSET Names,
                   shown : SUBSET Names]
    BY DEF List, NothingToMeasure, Render, Delete, Register, scaleVars, NoPage, ScaleInv, Types
  <1>5. QED
    BY <1>2, <1>3, <1>4 DEF ScaleInv, Types

LEMMA StartStep ==
  ASSUME ScaleInv, StartWorker \/ StartFails
  PROVE  ScaleInv'
  <1>1. /\ inflight' = inflight \union Todo /\ rows' = rows
        /\ Todo \subseteq Names /\ Todo \intersect inflight = {}
    BY DEF StartWorker, StartFails, Todo, ScaleInv, Types, counts
  <1>2. CASE StartWorker
    <2> DEFINE v == Worker(Todo)
    <2>1. workers' = workers \union {v} /\ refused' = refused
          /\ page' = [page EXCEPT !.pc = "waiting", !.todo = Todo]
      BY <1>2 DEF StartWorker
    <2>2. /\ v.keys = [n \in Todo |-> rows[n].key] /\ v.left = Todo /\ v.item = None
          /\ DOMAIN v = {"keys", "left", "item", "read", "failed"}
      BY DEF Worker
    <2>3. DOMAIN v.keys = Todo
      BY <2>2
    <2>4. \A n \in Todo : v.keys[n] \in Keys \union {None}
      BY <1>1, <2>2 DEF ScaleInv, Types
    <2> HIDE DEF v
    <2>5. ThreadOK(v)
      BY <1>1, <2>2, <2>3, <2>4 DEF ThreadOK
    <2>6. Threads'
      BY <1>1, <2>1, <2>5 DEF ScaleInv, Threads, ThreadOK
    <2>7. Owned'
      <3>1. \A w \in workers : DOMAIN w.keys \intersect Todo = {}
        BY <1>1 DEF ScaleInv, Owned
      <3>2. \A w, u \in workers' : w # u => DOMAIN w.keys \intersect DOMAIN u.keys = {}
        BY <2>1, <2>3, <3>1 DEF ScaleInv, Owned
      <3>3. \A w \in workers' : DOMAIN w.keys \subseteq inflight'
        BY <1>1, <2>1, <2>3 DEF ScaleInv, Owned
      <3>4. \A n \in inflight' \ refused' : \E w \in workers' : n \in DOMAIN w.keys
        BY <1>1, <2>1, <2>3 DEF ScaleInv, Owned
      <3>5. QED
        BY <3>2, <3>3, <3>4 DEF Owned
    <2>8. Types'
      BY <1>1, <2>1 DEF ScaleInv, Types
    <2>9. QED
      BY <2>6, <2>7, <2>8 DEF ScaleInv
  <1>3. CASE StartFails
    <2>1. workers' = workers /\ refused' = refused \union Todo /\ page' = NoPage
      BY <1>3 DEF StartFails
    <2>2. Threads' /\ Owned'
      BY <1>1, <2>1 DEF ScaleInv, Threads, ThreadOK, Owned
    <2>3. Types'
      BY <1>1, <2>1 DEF ScaleInv, Types, NoPage
    <2>4. QED
      BY <2>2, <2>3 DEF ScaleInv
  <1>4. QED
    BY <1>2, <1>3

(* A thread goes on with the names it was started for.                     *)
LEMMA GoesOn ==
  ASSUME ScaleInv, NEW w \in workers, NEW v, Step(w, v), ThreadOK(v),
         DOMAIN v.keys = DOMAIN w.keys, UNCHANGED <<inflight, refused>>, Types'
  PROVE  ScaleInv'
  <1>1. workers' = (workers \ {w}) \union {v}
    BY DEF Step
  <1>2. Threads'
    BY <1>1 DEF ScaleInv, Threads, ThreadOK
  <1>3. \A u \in workers \ {w} : DOMAIN u.keys \intersect DOMAIN v.keys = {}
    BY DEF ScaleInv, Owned
  <1>4. \A u, t \in workers' : u # t => DOMAIN u.keys \intersect DOMAIN t.keys = {}
    BY <1>1, <1>3 DEF ScaleInv, Owned
  <1>5. \A u \in workers' : DOMAIN u.keys \subseteq inflight'
    BY <1>1 DEF ScaleInv, Owned
  <1>6. \A n \in inflight' \ refused' : \E u \in workers' : n \in DOMAIN u.keys
    BY <1>1 DEF ScaleInv, Owned
  <1>7. QED
    BY <1>2, <1>4, <1>5, <1>6 DEF ScaleInv, Owned

LEMMA ReadStep ==
  ASSUME ScaleInv, NEW w \in workers, NEW n \in w.left, ReadFooters(w, n) \/ ReadFails(w, n)
  PROVE  ScaleInv'
  <1> DEFINE a == [w EXCEPT !.left = @ \ {n}]
             b == [w EXCEPT !.item = n, !.read = @ \union {w.keys[n]}]
             c == [w EXCEPT !.left = @ \ {n}, !.failed = @ \union {w.keys[n]}]
  <1>1. ThreadOK(w) /\ n \in DOMAIN w.keys
    BY DEF ScaleInv, Threads, ThreadOK
  <1>2. DOMAIN a = DOMAIN w /\ a.keys = w.keys /\ a.left = w.left \ {n} /\ a.item = w.item
    BY <1>1 DEF ThreadOK
  <1>3. DOMAIN b = DOMAIN w /\ b.keys = w.keys /\ b.left = w.left /\ b.item = n
    BY <1>1 DEF ThreadOK
  <1>4. DOMAIN c = DOMAIN w /\ c.keys = w.keys /\ c.left = w.left \ {n} /\ c.item = w.item
    BY <1>1 DEF ThreadOK
  <1>5. Step(w, a) \/ Step(w, b) \/ Step(w, c)
    BY DEF ReadFooters, ReadFails
  <1>6. UNCHANGED <<rows, inflight, page, refused>>
    BY DEF ReadFooters, ReadFails
  <1>7. Types'
    BY <1>6 DEF ScaleInv, Types
  <1> HIDE DEF a, b, c
  <1>8. ThreadOK(a) /\ ThreadOK(b) /\ ThreadOK(c)
    BY <1>1, <1>2, <1>3, <1>4 DEF ThreadOK
  <1>9. QED
    BY <1>2, <1>3, <1>4, <1>5, <1>6, <1>7, <1>8, GoesOn

LEMMA StoreStep ==
  ASSUME ScaleInv, NEW w \in workers, Store(w) \/ StoreFails(w)
  PROVE  ScaleInv'
  <1> DEFINE v == [w EXCEPT !.item = None, !.left = @ \ {w.item}]
  <1>1. ThreadOK(w)
    BY DEF ScaleInv, Threads
  <1>2. /\ w.item # None /\ Step(w, v) /\ Result(w, w.item)
        /\ UNCHANGED <<inflight, refused>>
    BY DEF Store, StoreFails, Stored
  <1>3. /\ DOMAIN v = DOMAIN w /\ v.keys = w.keys /\ v.left = w.left \ {w.item}
        /\ v.item = None
    BY <1>1 DEF ThreadOK
  <1> HIDE DEF v
  <1>4. ThreadOK(v) /\ w.item \in Names /\ w.keys[w.item] \in Keys \union {None}
    BY <1>1, <1>2, <1>3 DEF ThreadOK
  <1>5. rows' \in [Names -> [key : Keys \union {None}, scale : Keys \union {None}]]
    <2>1. CASE rows' = [rows EXCEPT ![w.item].scale = w.keys[w.item]]
      BY <1>4, <2>1 DEF ScaleInv, Types
    <2>2. CASE rows' = rows
      BY <2>2 DEF ScaleInv, Types
    <2>3. QED
      BY <2>1, <2>2 DEF Store, StoreFails
  <1>6. page' \in [pc : {"idle", "listed", "waiting"}, todo : SUBSET Names,
                   shown : SUBSET Names]
    BY <1>2, <1>4 DEF Result, ScaleInv, Types
  <1>7. QED
    BY <1>2, <1>3, <1>4, <1>5, <1>6, GoesOn DEF Types

LEMMA EndStep ==
  ASSUME ScaleInv, NEW w \in workers, Finish(w) \/ OpenFails(w)
  PROVE  ScaleInv'
  <1>1. /\ inflight' = inflight \ DOMAIN w.keys /\ workers' = workers \ {w}
        /\ UNCHANGED <<rows, page, refused>>
    BY DEF Finish, OpenFails
  <1>2. Types' /\ Threads'
    BY <1>1 DEF ScaleInv, Types, Threads, ThreadOK
  <1>3. \A v \in workers' : DOMAIN v.keys \subseteq inflight'
    BY <1>1 DEF ScaleInv, Owned
  <1>4. \A n \in inflight' \ refused' : \E v \in workers' : n \in DOMAIN v.keys
    BY <1>1 DEF ScaleInv, Owned
  <1>5. \A u, v \in workers' : u # v => DOMAIN u.keys \intersect DOMAIN v.keys = {}
    BY <1>1 DEF ScaleInv, Owned
  <1>6. QED
    BY <1>2, <1>3, <1>4, <1>5 DEF ScaleInv, Owned

LEMMA RestartStep ==
  ASSUME ScaleInv, Restart
  PROVE  ScaleInv'
  BY DEF Restart, ScaleInv, Types, Threads, Owned, NoPage

LEMMA ScaleStep ==
  ASSUME ScaleInv, ScaleNext \/ UNCHANGED scaleVars
  PROVE  ScaleInv'
  <1>1. CASE Page \/ UNCHANGED scaleVars
             \/ \E n \in Names : Delete(n) \/ \E k \in Keys : Register(n, k)
    BY <1>1, RequestStep, StartStep DEF Page
  <1>2. CASE ScaleFails
    <2>1. CASE StartFails \/ Restart
      BY <2>1, StartStep, RestartStep
    <2>2. CASE \E w \in workers : OpenFails(w) \/ StoreFails(w)
      BY <2>2, EndStep, StoreStep
    <2>3. CASE \E w \in workers : \E n \in w.left : ReadFails(w, n)
      BY <2>3, ReadStep
    <2>4. QED
      BY <1>2, <2>1, <2>2, <2>3 DEF ScaleFails
  <1>3. CASE \E w \in workers : Measure(w)
    <2>1. PICK w \in workers : Measure(w)
      BY <1>3
    <2>2. QED
      BY <2>1, StoreStep, EndStep, ReadStep DEF Measure
  <1>4. QED
    BY <1>1, <1>2, <1>3 DEF ScaleNext

-----------------------------------------------------------------------------
IInv == CacheInv /\ ScaleInv

LEMMA InitInv ==
  ASSUME Init
  PROVE  IInv
  <1>1. CacheInv
    BY CacheInitInv DEF Init
  <1>2. /\ rows = [n \in Names |-> NoRow] /\ page = NoPage
        /\ inflight = {} /\ workers = {} /\ refused = {}
    BY DEF Init, ScaleInit
  <1>3. NoRow \in [key : Keys \union {None}, scale : Keys \union {None}]
    BY DEF NoRow
  <1>4. Types
    BY <1>2, <1>3 DEF Types, NoPage
  <1>5. Threads /\ Owned
    BY <1>2 DEF Threads, Owned
  <1>6. QED
    BY <1>1, <1>4, <1>5 DEF IInv, ScaleInv

LEMMA StepInv ==
  ASSUME IInv, [Next]_vars
  PROVE  IInv' /\ FilesKept
  <1>1. CacheNext \/ UNCHANGED cacheVars
    BY DEF Next, InCache, InScale, vars
  <1>2. ScaleNext \/ UNCHANGED scaleVars
    BY DEF Next, InCache, InScale, vars
  <1>3. CacheInv' /\ FilesKept
    BY <1>1, CacheStep DEF IInv
  <1>4. ScaleInv'
    BY <1>2, ScaleStep DEF IInv
  <1>5. QED
    BY <1>3, <1>4 DEF IInv

(* The cache's estimate of the disk is off by no more than what it has     *)
(* missed, every folder that is read is valid and not the one being        *)
(* worked on, and the names under way are those of one thread each.        *)
THEOREM DatasetsInvariance == Spec => [](IInv /\ ScaleTypeOK)
  <1>1. Init => IInv
    BY InitInv
  <1>2. IInv /\ [Next]_vars => IInv'
    BY StepInv
  <1>3. IInv => ScaleTypeOK
    BY OwnedIsMeasuredByOne DEF IInv
  <1>4. QED
    BY <1>1, <1>2, <1>3, PTL DEF Spec

(* The folders on the disk exceed the limit by no more than failed         *)
(* evictions left and objects grew by between listing and download, those  *)
(* that a kill leaves half-way among them.                                 *)
THEOREM DiskBoundedAlways == Spec => []DiskBounded
  <1>1. IInv => DiskBounded
    BY DEF IInv, CacheInv, Room
  <1>2. QED
    BY <1>1, DatasetsInvariance, PTL

(* No step but room made for another dataset takes files from a reader.    *)
THEOREM ReadersKeepFilesAlways == Spec => ReadersKeepFiles
  <1>1. IInv /\ [Next]_vars => [FilesKept]_cacheVars
    BY StepInv
  <1>2. Spec => [][FilesKept]_cacheVars
    BY <1>1, DatasetsInvariance, PTL DEF Spec
  <1>3. QED
    BY <1>2 DEF ReadersKeepFiles, FilesKept

(* A dataset is measured by one thread at a time, and only a thread that   *)
(* never started leaves its names behind.                                  *)
THEOREM MeasuredByOneAlways == Spec => []MeasuredByOne
  <1>1. IInv => MeasuredByOne
    BY OwnedIsMeasuredByOne DEF IInv
  <1>2. QED
    BY <1>1, DatasetsInvariance, PTL
=============================================================================
