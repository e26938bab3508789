----------------------- MODULE SystemAllocatorProofs -----------------------
(***************************************************************************)
(* Theorems about SystemAllocator, for all requirements, requests, threads *)
(* and sizes of the pointer and of the free list's object: the arena is    *)
(* laid out without overlap and to its last byte, the clients' blocks are  *)
(* apart, none is lost, no stack is overrun, and BlockStore is kept.       *)
(***************************************************************************)
EXTENDS SystemAllocator, StackLemmas, FiniteSetTheorems

-----------------------------------------------------------------------------
(***************************************************************************)
(* Numbers                                                                 *)
(***************************************************************************)
\* Min and Max are what they say, for numbers.
LEMMA LeastNumber ==
  ASSUME NEW S \in SUBSET Nat, S # {}
  PROVE  Min(S) \in S /\ \A n \in S : Min(S) <= n
<1> DEFINE Below == {n \in Nat : \A m \in S : n < m}
<1>1. ASSUME \A n \in S : \E m \in S : m < n
      PROVE  FALSE
  <2>1. 0 \in Below
    BY <1>1
  <2>2. \A n \in Below : n + 1 \in Below
    <3> SUFFICES ASSUME NEW n \in Below
                 PROVE  n + 1 \in Below
      OBVIOUS
    <3>1. n + 1 \notin S
      BY <1>1
    <3> QED
      BY <3>1
  <2>3. Below = Nat
    <3> HIDE DEF Below
    <3>1. Below \in SUBSET Nat
      BY DEF Below
    <3> QED
      BY <2>1, <2>2, <3>1, SetInduction
  <2>4. PICK m \in S : TRUE
    OBVIOUS
  <2>5. m \in Below
    BY <2>3
  <2>6. m < m
    BY <2>5
  <2> QED
    BY <2>6
<1>2. PICK n \in S : \A m \in S : n <= m
  BY <1>1
<1> QED
  BY <1>2 DEF Min

LEMMA GreatestNumber ==
  ASSUME NEW S \in SUBSET Nat, NEW bound \in Nat, S # {}, \A n \in S : n <= bound
  PROVE  Max(S) \in S /\ \A n \in S : n <= Max(S)
<1> DEFINE Gaps == {n \in Nat : bound - n \in S}
<1>1. Gaps # {}
  <2>1. PICK n \in S : TRUE
    OBVIOUS
  <2>2. bound - n \in Nat /\ bound - (bound - n) = n
    BY <2>1
  <2> QED
    BY <2>1, <2>2
<1>2. Min(Gaps) \in Gaps /\ \A n \in Gaps : Min(Gaps) <= n
  <2> HIDE DEF Gaps
  <2>1. Gaps \in SUBSET Nat
    BY DEF Gaps
  <2> QED
    BY <1>1, <2>1, LeastNumber
<1>3. \A n \in S : n <= bound - Min(Gaps)
  <2> SUFFICES ASSUME NEW n \in S
               PROVE  n <= bound - Min(Gaps)
    OBVIOUS
  <2>1. bound - n \in Gaps
    <3>1. bound - n \in Nat /\ bound - (bound - n) = n
      OBVIOUS
    <3> QED
      BY <3>1
  <2> HIDE DEF Gaps
  <2>2. Min(Gaps) \in Nat /\ Min(Gaps) <= bound - n
    BY <1>2, <2>1 DEF Gaps
  <2> QED
    BY <2>2
<1>4. bound - Min(Gaps) \in S
  BY <1>2
<1> QED
  BY <1>3, <1>4 DEF Max

-----------------------------------------------------------------------------
(***************************************************************************)
(* Sums. The library's sum over a set is a recursive function on the parts *)
(* of the set that takes one element, chosen, after the other. That the    *)
(* function exists, and that any element may be the one taken, are by      *)
(* induction on the number of elements; induction is stated with a set of  *)
(* numbers.                                                                *)
(***************************************************************************)
\* The set of the parts of S that have at most n elements.
Small(S, n) == {T \in SUBSET S : Cardinality(T) <= n}
First(T) == CHOOSE x \in T : TRUE

\* The sum of a part, where those of the smaller parts are given.
SumStep(f, sum, T) == IF T = {} THEN 0 ELSE f[First(T)] + sum[T \ {First(T)}]

\* A function that gives the sum of every part of S.
Summation(sum, f, S) == sum = [T \in SUBSET S |-> SumStep(f, sum, T)]

LEMMA FirstOut ==
  ASSUME NEW T, IsFiniteSet(T), T # {}
  PROVE  /\ First(T) \in T /\ T \ {First(T)} \in SUBSET T
         /\ IsFiniteSet(T \ {First(T)}) /\ Cardinality(T) \in Nat
         /\ Cardinality(T \ {First(T)}) \in Nat
         /\ Cardinality(T \ {First(T)}) + 1 = Cardinality(T)
<1>1. First(T) \in T
  BY DEF First
<1>2. Cardinality(T) \in Nat
  BY FS_CardinalityType
<1>3. IsFiniteSet(T \ {First(T)}) /\ Cardinality(T \ {First(T)}) = Cardinality(T) - 1
  BY <1>1, FS_RemoveElement
<1>4. Cardinality(T \ {First(T)}) \in Nat
  BY <1>3, FS_CardinalityType
<1> QED
  BY <1>1, <1>2, <1>3, <1>4

\* There is such a function, and on the parts of a part it is the same.
LEMMA FoldExists ==
  ASSUME NEW S, IsFiniteSet(S), NEW f
  PROVE  \E sum : Summation(sum, f, S)
<1> DEFINE Good(sum, n) == sum = [T \in Small(S, n) |-> SumStep(f, sum, T)]
           A == {n \in Nat : \E sum : Good(sum, n)}
<1>1. \A T \in SUBSET S : IsFiniteSet(T) /\ Cardinality(T) \in Nat /\ Cardinality(T) <= Cardinality(S)
  BY FS_Subset, FS_CardinalityType
<1>2. 0 \in A
  <2> DEFINE sum == [T \in Small(S, 0) |-> 0]
  <2>1. \A T \in Small(S, 0) : T = {}
    BY <1>1, FS_EmptySet DEF Small
  <2>2. \A T \in Small(S, 0) : SumStep(f, sum, T) = 0
    BY <2>1 DEF SumStep
  <2>3. Good(sum, 0)
    BY <2>2
  <2> QED
    BY <2>3
<1>3. \A n \in A : n + 1 \in A
  <2> SUFFICES ASSUME NEW n \in Nat, n \in A
               PROVE  \E sum : Good(sum, n + 1)
    OBVIOUS
  <2>1. PICK small : Good(small, n)
    OBVIOUS
  <2> DEFINE sum == [T \in Small(S, n + 1) |-> SumStep(f, small, T)]
  <2>2. \A T \in Small(S, n + 1) : T # {} => T \ {First(T)} \in Small(S, n) /\ T \ {First(T)} \in Small(S, n + 1)
    BY <1>1, FirstOut DEF Small
  <2>3. \A T \in Small(S, n) : T \in Small(S, n + 1)
    BY <1>1 DEF Small
  <2>4. \A T \in Small(S, n) : small[T] = SumStep(f, small, T) /\ sum[T] = SumStep(f, small, T)
    BY <2>1, <2>3
  <2> HIDE DEF sum
  <2>5. \A T \in Small(S, n + 1) : SumStep(f, sum, T) = SumStep(f, small, T)
    BY <2>2, <2>4 DEF SumStep
  <2>6. Good(sum, n + 1)
    BY <2>5 DEF sum
  <2> QED
    BY <2>6
<1>4. A = Nat
  <2> HIDE DEF A
  <2>1. A \in SUBSET Nat
    BY DEF A
  <2> QED
    BY <1>2, <1>3, <2>1, SetInduction
<1>5. PICK sum : Good(sum, Cardinality(S))
  <2>1. Cardinality(S) \in A
    BY <1>4, FS_CardinalityType
  <2> QED
    BY <2>1
<1>6. Small(S, Cardinality(S)) = SUBSET S
  BY <1>1 DEF Small
<1> QED
  BY <1>5, <1>6 DEF Summation

LEMMA SumIsFold ==
  ASSUME NEW S, NEW f
  PROVE  SumFunctionOnSet(f, S) = (CHOOSE sum : Summation(sum, f, S))[S]
BY DEF Summation, SumStep, First, SumFunctionOnSet, FoldFunctionOnSet, MapThenFoldSet

LEMMA Inhabited ==
  ASSUME NEW T, NEW n \in Nat, Cardinality(T) = n + 1
  PROVE  T # {}
<1>1. Cardinality({}) = 0
  BY FS_EmptySet
<1> QED
  BY <1>1

LEMMA FoldUnique ==
  ASSUME NEW S, IsFiniteSet(S), NEW f,
         NEW a, \A T \in SUBSET S : a[T] = SumStep(f, a, T),
         NEW b, \A T \in SUBSET S : b[T] = SumStep(f, b, T)
  PROVE  a[S] = b[S]
<1> DEFINE A == {n \in Nat : \A T \in SUBSET S : Cardinality(T) = n => a[T] = b[T]}
<1>1. \A T \in SUBSET S : IsFiniteSet(T) /\ Cardinality(T) \in Nat
  BY FS_Subset, FS_CardinalityType
<1>3. 0 \in A
  <2>1. \A T \in SUBSET S : Cardinality(T) = 0 => T = {}
    BY <1>1, FS_EmptySet
  <2>2. a[{}] = 0 /\ b[{}] = 0
    BY DEF SumStep
  <2> QED
    BY <2>1, <2>2
<1>4. \A n \in A : n + 1 \in A
  <2>1. ASSUME NEW n \in Nat, n \in A, NEW T \in SUBSET S, Cardinality(T) = n + 1
        PROVE  a[T] = b[T]
    <3>1. T # {}
      BY <2>1, Inhabited
    <3>2. T \ {First(T)} \in SUBSET S /\ Cardinality(T \ {First(T)}) = n
      BY <1>1, <2>1, <3>1, FirstOut
    <3>3. a[T \ {First(T)}] = b[T \ {First(T)}]
      BY <2>1, <3>2
    <3>4. a[T] = SumStep(f, a, T) /\ b[T] = SumStep(f, b, T)
      OBVIOUS
    <3> QED
      BY <3>1, <3>3, <3>4 DEF SumStep
  <2> QED
    BY <2>1
<1>5. A = Nat
  <2> HIDE DEF A
  <2>1. A \in SUBSET Nat
    BY DEF A
  <2> QED
    BY <1>3, <1>4, <2>1, SetInduction
<1>6. Cardinality(S) \in A
  BY <1>1, <1>5
<1> QED
  BY <1>6

\* What the library's definition comes to, and what follows from it.
LEMMA SumRule ==
  ASSUME NEW S, IsFiniteSet(S), NEW f
  PROVE  SumFunctionOnSet(f, S) =
           IF S = {} THEN 0 ELSE f[First(S)] + SumFunctionOnSet(f, S \ {First(S)})
<1> DEFINE sum(T) == CHOOSE g : Summation(g, f, T)
<1>1. ASSUME NEW T \in SUBSET S
      PROVE  /\ \A U \in SUBSET T : sum(T)[U] = SumStep(f, sum(T), U)
             /\ SumFunctionOnSet(f, T) = sum(T)[T]
  <2>1. \E g : Summation(g, f, T)
    <3>1. IsFiniteSet(T)
      BY <1>1, FS_Subset
    <3> QED
      BY <3>1, FoldExists
  <2>2. Summation(sum(T), f, T)
    BY <2>1
  <2>3. SumFunctionOnSet(f, T) = sum(T)[T]
    BY SumIsFold
  <2> HIDE DEF sum
  <2> QED
    BY <2>2, <2>3 DEF Summation
<1> HIDE DEF sum
<1>2. \A U \in SUBSET S : sum(S)[U] = SumStep(f, sum(S), U)
  BY <1>1
<1>3. CASE S = {}
  BY <1>1, <1>2, <1>3 DEF SumStep
<1>4. CASE S # {}
  <2> DEFINE T == S \ {First(S)}
  <2>1. T \in SUBSET S /\ IsFiniteSet(T)
    BY <1>4, FirstOut
  <2>2. sum(T)[T] = sum(S)[T]
    <3> HIDE DEF T
    <3>1. \A U \in SUBSET T : sum(S)[U] = SumStep(f, sum(S), U)
      BY <1>2, <2>1
    <3>2. \A U \in SUBSET T : sum(T)[U] = SumStep(f, sum(T), U)
      BY <1>1, <2>1
    <3> QED
      BY <2>1, <3>1, <3>2, FoldUnique
  <2>3. sum(S)[S] = f[First(S)] + sum(S)[T]
    BY <1>2, <1>4 DEF SumStep
  <2> QED
    BY <1>1, <1>4, <2>1, <2>2, <2>3
<1> QED
  BY <1>3, <1>4

LEMMA SumType ==
  ASSUME NEW S, IsFiniteSet(S), NEW f, \A x \in S : f[x] \in Nat
  PROVE  SumFunctionOnSet(f, S) \in Nat
<1> DEFINE A == {n \in Nat : \A T \in SUBSET S :
                               Cardinality(T) = n => SumFunctionOnSet(f, T) \in Nat}
<1>1. \A T \in SUBSET S : IsFiniteSet(T) /\ Cardinality(T) \in Nat
  BY FS_Subset, FS_CardinalityType
<1>2. 0 \in A
  <2>1. ASSUME NEW T \in SUBSET S, Cardinality(T) = 0
        PROVE  SumFunctionOnSet(f, T) \in Nat
    <3>1. T = {}
      BY <1>1, <2>1, FS_EmptySet
    <3> QED
      BY <1>1, <3>1, SumRule
  <2> QED
    BY <2>1
<1>3. \A n \in A : n + 1 \in A
  <2>1. ASSUME NEW n \in Nat, n \in A, NEW T \in SUBSET S, Cardinality(T) = n + 1
        PROVE  SumFunctionOnSet(f, T) \in Nat
    <3>1. T # {}
      BY <2>1, Inhabited
    <3>2. T \ {First(T)} \in SUBSET S /\ Cardinality(T \ {First(T)}) = n /\ First(T) \in S
      BY <1>1, <2>1, <3>1, FirstOut
    <3>3. SumFunctionOnSet(f, T \ {First(T)}) \in Nat
      BY <2>1, <3>2
    <3>4. SumFunctionOnSet(f, T) = f[First(T)] + SumFunctionOnSet(f, T \ {First(T)})
      BY <1>1, <3>1, SumRule
    <3> QED
      BY <3>2, <3>3, <3>4
  <2> QED
    BY <2>1
<1>4. A = Nat
  <2> HIDE DEF A
  <2>1. A \in SUBSET Nat
    BY DEF A
  <2> QED
    BY <1>2, <1>3, <2>1, SetInduction
<1>5. Cardinality(S) \in A
  BY <1>1, <1>4
<1> QED
  BY <1>5

LEMMA SumRemove ==
  ASSUME NEW S, IsFiniteSet(S), NEW f, \A x \in S : f[x] \in Nat, NEW y \in S
  PROVE  SumFunctionOnSet(f, S) = f[y] + SumFunctionOnSet(f, S \ {y})
<1> DEFINE Out(T) == \A x \in T : SumFunctionOnSet(f, T) = f[x] + SumFunctionOnSet(f, T \ {x})
           A == {n \in Nat : \A T \in SUBSET S : Cardinality(T) = n => Out(T)}
<1>1. \A T \in SUBSET S : /\ IsFiniteSet(T) /\ Cardinality(T) \in Nat
                          /\ SumFunctionOnSet(f, T) \in Nat
  BY FS_Subset, FS_CardinalityType, SumType
<1>2. 0 \in A
  BY <1>1, FS_EmptySet
<1>3. \A n \in A : n + 1 \in A
  <2>1. ASSUME NEW n \in Nat, n \in A, NEW T \in SUBSET S, Cardinality(T) = n + 1
        PROVE  Out(T)
    <3> SUFFICES ASSUME NEW x \in T
                 PROVE  SumFunctionOnSet(f, T) = f[x] + SumFunctionOnSet(f, T \ {x})
      OBVIOUS
    <3> DEFINE z == First(T)
    <3>1. T # {}
      OBVIOUS
    <3>2. T \ {z} \in SUBSET S /\ Cardinality(T \ {z}) = n /\ z \in T
      BY <1>1, <2>1, <3>1, FirstOut
    <3>3. SumFunctionOnSet(f, T) = f[z] + SumFunctionOnSet(f, T \ {z})
      BY <1>1, <3>1, SumRule
    <3> HIDE DEF z
    <3>4. CASE x = z
      BY <3>3, <3>4
    <3>5. CASE x # z
      <4>1. T \ {x} \in SUBSET S /\ Cardinality(T \ {x}) = n
        <5>1. Cardinality(T \ {x}) = Cardinality(T) - 1
          BY <1>1, FS_RemoveElement
        <5> QED
          BY <2>1, <5>1
      <4>2. SumFunctionOnSet(f, T \ {z}) = f[x] + SumFunctionOnSet(f, (T \ {z}) \ {x})
        BY <2>1, <3>2, <3>5
      <4>3. SumFunctionOnSet(f, T \ {x}) = f[z] + SumFunctionOnSet(f, (T \ {x}) \ {z})
        BY <2>1, <3>2, <3>5, <4>1
      <4>4. (T \ {x}) \ {z} = (T \ {z}) \ {x} /\ (T \ {x}) \ {z} \in SUBSET S
        OBVIOUS
      <4>5. SumFunctionOnSet(f, (T \ {x}) \ {z}) \in Nat /\ f[x] \in Nat /\ f[z] \in Nat
        BY <1>1, <3>2, <4>4
      <4> QED
        BY <3>3, <4>2, <4>3, <4>4, <4>5
    <3> QED
      BY <3>4, <3>5
  <2> HIDE DEF Out
  <2> QED
    BY <2>1
<1>4. A = Nat
  <2> HIDE DEF A
  <2>1. A \in SUBSET Nat
    BY DEF A
  <2> QED
    BY <1>2, <1>3, <2>1, SetInduction
<1>5. Cardinality(S) \in A
  BY <1>1, <1>4
<1> QED
  BY <1>5

LEMMA SumAdd ==
  ASSUME NEW S, IsFiniteSet(S), NEW y, y \notin S, NEW f,
         \A x \in S : f[x] \in Nat, f[y] \in Nat
  PROVE  /\ SumFunctionOnSet(f, S \cup {y}) = f[y] + SumFunctionOnSet(f, S)
         /\ SumFunctionOnSet(f, S) \in Nat
<1>1. IsFiniteSet(S \cup {y}) /\ (S \cup {y}) \ {y} = S
  BY FS_AddElement
<1>2. \A x \in S \cup {y} : f[x] \in Nat
  OBVIOUS
<1>3. SumFunctionOnSet(f, S \cup {y}) = f[y] + SumFunctionOnSet(f, (S \cup {y}) \ {y})
  BY <1>1, <1>2, SumRemove
<1> QED
  BY <1>1, <1>3, SumType

LEMMA SumEmpty ==
  ASSUME NEW f
  PROVE  SumFunctionOnSet(f, {}) = 0
BY FS_EmptySet, SumRule

-----------------------------------------------------------------------------
(***************************************************************************)
(* The constructor's arithmetic: sizes are rounded up to multiples of      *)
(* eight, and the largest is one of those with a list, so that every size  *)
(* has one at or above it.                                                 *)
(***************************************************************************)

LEMMA Products ==
  ASSUME NEW a \in Nat, NEW b \in Nat, NEW c \in Nat
  PROVE  /\ a * c \in Nat
         /\ (a + 1) * c = a * c + c
         /\ a <= b => a * c <= b * c
         /\ a < b => a * c + c <= b * c
<1>1. a * c \in Nat /\ (a + 1) * c = a * c + c
  OBVIOUS
<1>2. \A x, y \in Nat : x <= y => x * c <= y * c
  OBVIOUS
<1>3. a < b => (a + 1) * c <= b * c
  BY <1>2
<1> QED
  BY <1>1, <1>2, <1>3

LEMMA Rounded ==
  ASSUME NEW n \in Nat \ {0}
  PROVE  /\ calblocksize(n) \in Nat /\ n <= calblocksize(n)
         /\ calblocksize(n) % 8 = 0
         /\ \A m \in Nat : m % 8 = 0 /\ n <= m => calblocksize(n) <= m
BY DEF calblocksize

LEMMA Required ==
  ASSUME NEW r \in Requirements, NEW i \in DOMAIN r
  PROVE  r[i].block_size \in Nat \ {0} /\ r[i].n_blocks \in Nat \ {0}
<1> DEFINE Entry == [block_size : Nat \ {0}, n_blocks : Nat \ {0}]
<1>1. r \in Seq(Entry)
  BY AllocatorAssumption
<1>2. r[i] \in Entry
  <2> HIDE DEF Entry
  <2> QED
    BY <1>1
<1> QED
  BY <1>2

LEMMA RequirementsFinite ==
  ASSUME NEW r \in Requirements
  PROVE  IsFiniteSet(DOMAIN r)
<1>1. r \in Seq([block_size : Nat \ {0}, n_blocks : Nat \ {0}])
  BY AllocatorAssumption
<1>2. DOMAIN r = 1..Len(r) /\ Len(r) \in Nat
  BY <1>1
<1> QED
  BY <1>2, FS_Interval

LEMMA Largest ==
  ASSUME NEW r \in Requirements
  PROVE  /\ max_block_size(r) \in Nat \ {0} /\ max_block_size(r) % 8 = 0
         /\ \E i \in DOMAIN r : r[i].block_size = max_block_size(r)
         /\ \A i \in DOMAIN r : r[i].block_size <= max_block_size(r)
<1> DEFINE sizes == {r[i].block_size : i \in DOMAIN r}
<1>1. PICK i \in DOMAIN r : /\ r[i].block_size % 8 = 0
                            /\ \A j \in DOMAIN r : r[j].block_size <= r[i].block_size
  BY AllocatorAssumption
<1>2. sizes \in SUBSET Nat /\ r[i].block_size \in sizes
  BY Required
<1>3. \A s \in sizes : s <= r[i].block_size
  BY <1>1
<1>4. max_block_size(r) = Max(sizes)
  BY DEF max_block_size
<1>5. Max(sizes) \in sizes /\ \A s \in sizes : s <= Max(sizes)
  <2> HIDE DEF sizes
  <2> QED
    BY <1>2, <1>3, GreatestNumber, Required
<1>6. max_block_size(r) = r[i].block_size
  <2>1. Max(sizes) <= r[i].block_size /\ r[i].block_size <= Max(sizes) /\ Max(sizes) \in Nat
    BY <1>2, <1>3, <1>5
  <2> QED
    BY <1>4, <2>1, Required
<1> QED
  BY <1>1, <1>6, Required

LEMMA Counts ==
  ASSUME NEW r \in Requirements, NEW k
  PROVE  /\ nblocks(r, k) \in Nat
         /\ nblocks(r, k) # 0 <=> \E i \in DOMAIN r : calblocksize(r[i].block_size) = k
<1> DEFINE S == {i \in DOMAIN r : calblocksize(r[i].block_size) = k}
           f == [i \in DOMAIN r |-> r[i].n_blocks]
<1>1. IsFiniteSet(S)
  BY RequirementsFinite, FS_Subset
<1>2. \A i \in S : f[i] \in Nat \ {0}
  BY Required
<1>3. nblocks(r, k) = SumFunctionOnSet(f, S)
  BY DEF nblocks
<1>4. SumFunctionOnSet(f, S) \in Nat
  <2> HIDE DEF f, S
  <2> QED
    BY <1>1, <1>2, SumType
<1>5. CASE S = {}
  <2>1. SumFunctionOnSet(f, S) = 0
    <3> HIDE DEF f
    <3> QED
      BY <1>5, SumEmpty
  <2> QED
    BY <1>3, <1>5, <2>1
<1>6. CASE S # {}
  <2>1. PICK i \in S : TRUE
    BY <1>6
  <2>2. SumFunctionOnSet(f, S) = f[i] + SumFunctionOnSet(f, S \ {i})
    <3> HIDE DEF f, S
    <3> QED
      BY <1>1, <1>2, <2>1, SumRemove
  <2>3. SumFunctionOnSet(f, S \ {i}) \in Nat
    <3> HIDE DEF f, S
    <3> QED
      BY <1>1, <1>2, FS_RemoveElement, SumType
  <2>4. SumFunctionOnSet(f, S) # 0
    <3> HIDE DEF f, S
    <3> QED
      BY <1>2, <2>1, <2>2, <2>3
  <2> QED
    BY <1>3, <1>4, <2>1, <2>4
<1> QED
  BY <1>5, <1>6, <1>3, <1>4

LEMMA Lists ==
  ASSUME NEW r \in Requirements
  PROVE  /\ max_block_size(r) \in Listed(r)
         /\ Listed(r) \in SUBSET (Nat \ {0}) /\ Listed(r) \subseteq 1..max_block_size(r)
         /\ \A k \in Listed(r) : k % 8 = 0 /\ nblocks(r, k) \in Nat \ {0}
         /\ \A i \in DOMAIN r : calblocksize(r[i].block_size) \in Listed(r)
<1>1. \A i \in DOMAIN r : calblocksize(r[i].block_size) \in Listed(r)
  BY Counts, Largest, Required, Rounded DEF Listed
<1>2. PICK i \in DOMAIN r : r[i].block_size = max_block_size(r)
  BY Largest
<1>3. calblocksize(max_block_size(r)) = max_block_size(r)
  BY Largest DEF calblocksize
<1> QED
  BY <1>1, <1>2, <1>3, Counts, Largest, Required, Rounded DEF Listed

LEMMA NextIs ==
  ASSUME NEW r \in Requirements, NEW k \in 1..max_block_size(r)
  PROVE  /\ NextList(r, k) \in Listed(r) /\ k <= NextList(r, k)
         /\ \A j \in Listed(r) : k <= j => NextList(r, k) <= j
<1> DEFINE S == {j \in Listed(r) : j >= k}
<1>1. S \in SUBSET Nat /\ S # {}
  BY Lists, Largest
<1>2. NextList(r, k) = Min(S)
  BY DEF NextList
<1>3. Min(S) \in S /\ \A j \in S : Min(S) <= j
  <2> HIDE DEF S
  <2> QED
    BY <1>1, LeastNumber
<1> QED
  BY <1>2, <1>3

\* The least size listed that is not less than b.
LeastFor(r, b) == Min({k \in Listed(r) : b <= k})

LEMMA Finds ==
  ASSUME NEW r \in Requirements, NEW b \in Nat \ {0}, b <= max_block_size(r)
  PROVE  /\ calblocksize(b) \in 1..max_block_size(r)
         /\ NextList(r, calblocksize(b)) = LeastFor(r, b)
         /\ LeastFor(r, b) \in Listed(r) /\ b <= LeastFor(r, b)
<1>1. calblocksize(b) \in 1..max_block_size(r)
  BY Rounded, Largest
<1> DEFINE S == {k \in Listed(r) : b <= k}
<1>2. S = {k \in Listed(r) : k >= calblocksize(b)}
  BY Rounded, Lists
<1>3. S \in SUBSET Nat /\ S # {}
  BY Lists
<1>4. Min(S) \in S
  <2> HIDE DEF S
  <2> QED
    BY <1>3, LeastNumber
<1> QED
  BY <1>1, <1>2, <1>4 DEF LeastFor, NextList

-----------------------------------------------------------------------------
(***************************************************************************)
(* The pointer that the constructor moves through the arena exists, by     *)
(* induction from the largest size down, and what it passes over for one   *)
(* size is the object, the stack and the blocks of that size.              *)
(***************************************************************************)
\* What size k takes of the arena, and the pointer in terms of the next one up.
Share(r, k) == IF k \in Listed(r) THEN FreelistSize + nblocks(r, k) * (PointerSize + k) ELSE 0
PointerStep(r, p, k) ==
  IF k = max_block_size(r) THEN (k + 1) * PointerSize ELSE p[k + 1] + Share(r, k + 1)
Descent(r, p) == p = [k \in 0..max_block_size(r) |-> PointerStep(r, p, k)]

LEMMA ShareType ==
  ASSUME NEW r \in Requirements, NEW k \in Nat
  PROVE  Share(r, k) \in Nat
<1>1. k \in Listed(r) => nblocks(r, k) * (PointerSize + k) \in Nat
  <2>1. k \in Listed(r) => nblocks(r, k) \in Nat
    BY Lists
  <2>2. PointerSize + k \in Nat
    BY AllocatorAssumption
  <2> QED
    BY <2>1, <2>2, Products
<1> QED
  BY <1>1, AllocatorAssumption DEF Share

LEMMA DescentExists ==
  ASSUME NEW r \in Requirements
  PROVE  \E p : Descent(r, p)
<1> DEFINE m == max_block_size(r)
           Good(p, n) == p = [k \in (m - n)..m |-> PointerStep(r, p, k)]
           A == {n \in Nat : n <= m => \E p : Good(p, n)}
<1>1. m \in Nat
  BY Largest
<1>2. 0 \in A
  <2> DEFINE p == [k \in (m - 0)..m |-> (m + 1) * PointerSize]
  <2>1. \A k \in (m - 0)..m : PointerStep(r, p, k) = (m + 1) * PointerSize
    BY <1>1 DEF PointerStep
  <2>2. Good(p, 0)
    BY <2>1
  <2> QED
    BY <2>2
<1>3. \A n \in A : n + 1 \in A
  <2>1. ASSUME NEW n \in Nat, n \in A, n + 1 <= m
        PROVE  \E p : Good(p, n + 1)
    <3> HIDE DEF m
    <3>1. PICK q : Good(q, n)
      BY <1>1, <2>1
    <3> DEFINE p == [k \in (m - (n + 1))..m |-> PointerStep(r, q, k)]
    <3>2. \A k \in (m - n)..m : p[k] = q[k]
      BY <1>1, <2>1, <3>1
    <3>3. \A k \in (m - (n + 1))..m : k # m => k + 1 \in (m - n)..m
      BY <1>1, <2>1
    <3> HIDE DEF p
    <3>4. \A k \in (m - (n + 1))..m : PointerStep(r, p, k) = PointerStep(r, q, k)
      BY <3>2, <3>3 DEF PointerStep, m
    <3>5. Good(p, n + 1)
      BY <3>4 DEF p
    <3> QED
      BY <3>5
  <2> HIDE DEF Good
  <2> QED
    BY <1>1, <2>1
<1>4. A = Nat
  <2> HIDE DEF A
  <2>1. A \in SUBSET Nat
    BY DEF A
  <2> QED
    BY <1>2, <1>3, <2>1, SetInduction
<1>5. PICK p : Good(p, m)
  BY <1>1, <1>4
<1>6. m - m = 0
  BY <1>1
<1> QED
  BY <1>5, <1>6 DEF Descent

LEMMA PointerIsDescent ==
  ASSUME NEW r
  PROVE  arena_pointer(r) = CHOOSE p : Descent(r, p)
BY DEF arena_pointer, Descent, PointerStep, Share

LEMMA PointerRule ==
  ASSUME NEW r \in Requirements
  PROVE  /\ arena_pointer(r)[max_block_size(r)] = (max_block_size(r) + 1) * PointerSize
         /\ \A k \in 0..(max_block_size(r) - 1) :
               arena_pointer(r)[k] = arena_pointer(r)[k + 1] + Share(r, k + 1)
<1> DEFINE p == arena_pointer(r)
<1>1. Descent(r, p)
  BY DescentExists, PointerIsDescent
<1> HIDE DEF p
<1>2. \A k \in 0..max_block_size(r) : p[k] = PointerStep(r, p, k)
  BY <1>1 DEF Descent
<1>3. /\ p[max_block_size(r)] = (max_block_size(r) + 1) * PointerSize
      /\ \A k \in 0..(max_block_size(r) - 1) : p[k] = p[k + 1] + Share(r, k + 1)
  BY <1>2, Largest DEF PointerStep
<1> QED
  BY <1>3 DEF p

LEMMA Addresses ==
  ASSUME NEW r \in Requirements
  PROVE  /\ \A k \in 0..max_block_size(r) : arena_pointer(r)[k] \in Nat
         /\ \A j, k \in 0..max_block_size(r) : j <= k => arena_pointer(r)[k] <= arena_pointer(r)[j]
<1> DEFINE m == max_block_size(r)
           p == arena_pointer(r)
           A == {n \in Nat : n <= m => /\ \A k \in (m - n)..m : p[k] \in Nat /\ p[k] <= p[m - n]}
<1>1. m \in Nat /\ PointerSize \in Nat
  BY Largest, AllocatorAssumption
<1>2. p[m] = (m + 1) * PointerSize /\ p[m] \in Nat
  BY <1>1, PointerRule, Products
<1>3. \A k \in 0..(m - 1) : p[k] = p[k + 1] + Share(r, k + 1) /\ Share(r, k + 1) \in Nat
  BY <1>1, PointerRule, ShareType
<1> HIDE DEF m, p
<1>4. 0 \in A
  BY <1>1, <1>2
<1>5. \A n \in A : n + 1 \in A
  <2>1. ASSUME NEW n \in Nat, n \in A, n + 1 <= m, NEW k \in (m - (n + 1))..m
        PROVE  p[k] \in Nat /\ p[k] <= p[m - (n + 1)]
    <3>1. \A i \in (m - n)..m : p[i] \in Nat /\ p[i] <= p[m - n]
      BY <1>1, <2>1
    <3>2. m - (n + 1) \in 0..(m - 1) /\ (m - (n + 1)) + 1 = m - n /\ m - n \in (m - n)..m
      BY <1>1, <2>1
    <3>3. /\ p[m - (n + 1)] = p[m - n] + Share(r, m - n)
          /\ Share(r, m - n) \in Nat /\ p[m - n] \in Nat
      BY <1>3, <3>1, <3>2
    <3>4. k = m - (n + 1) \/ k \in (m - n)..m
      BY <1>1, <2>1
    <3> QED
      BY <3>1, <3>3, <3>4
  <2> QED
    BY <1>1, <2>1
<1>6. A = Nat
  <2> HIDE DEF A
  <2>1. A \in SUBSET Nat
    BY DEF A
  <2> QED
    BY <1>4, <1>5, <2>1, SetInduction
<1>7. \A j \in 0..m : m - j \in A /\ m - (m - j) = j
  <2>1. \A j \in 0..m : m - j \in Nat /\ m - (m - j) = j
    BY <1>1
  <2> HIDE DEF A
  <2> QED
    BY <1>6, <2>1
<1>8. \A j \in 0..m : \A k \in j..m : p[k] \in Nat /\ p[k] <= p[j]
  BY <1>1, <1>7
<1>9. \A j, k \in 0..m : j <= k => k \in j..m
  BY <1>1
<1> QED
  BY <1>1, <1>8, <1>9 DEF m, p

LEMMA Regions ==
  ASSUME NEW r \in Requirements, NEW k \in Listed(r)
  PROVE  /\ ObjectAt(r, k) \in Nat /\ BaseAt(r, k) \in Nat
         /\ nblocks(r, k) * PointerSize \in Nat /\ nblocks(r, k) * k \in Nat
         /\ StackAt(r, k) = ObjectAt(r, k) + FreelistSize
         /\ BaseAt(r, k) = ObjectAt(r, k) + FreelistSize + nblocks(r, k) * PointerSize
         /\ (max_block_size(r) + 1) * PointerSize \in Nat
         /\ (max_block_size(r) + 1) * PointerSize <= ObjectAt(r, k)
         /\ BaseAt(r, k) + nblocks(r, k) * k <= arena_pointer(r)[0]
         /\ arena_pointer(r)[0] \in Nat
         /\ \A j \in Listed(r) : j < k => BaseAt(r, k) + nblocks(r, k) * k <= ObjectAt(r, j)
<1>1. /\ k \in 1..max_block_size(r) /\ k - 1 \in 0..(max_block_size(r) - 1)
      /\ (k - 1) + 1 = k /\ max_block_size(r) \in Nat
  BY Lists, Largest
<1>2. /\ nblocks(r, k) \in Nat /\ PointerSize \in Nat /\ FreelistSize \in Nat
      /\ nblocks(r, k) * PointerSize \in Nat /\ nblocks(r, k) * k \in Nat
      /\ (max_block_size(r) + 1) * PointerSize \in Nat
  <2>1. /\ nblocks(r, k) \in Nat /\ PointerSize \in Nat /\ FreelistSize \in Nat
        /\ max_block_size(r) + 1 \in Nat /\ k \in Nat
    <3>1. nblocks(r, k) \in Nat
      BY Lists
    <3>2. PointerSize \in Nat /\ FreelistSize \in Nat
      BY AllocatorAssumption
    <3> QED
      BY <1>1, <3>1, <3>2
  <2> QED
    BY <2>1, Products
<1>3. /\ ObjectAt(r, k) \in Nat
      /\ ObjectAt(r, max_block_size(r)) <= ObjectAt(r, k)
      /\ arena_pointer(r)[k - 1] <= arena_pointer(r)[0]
      /\ arena_pointer(r)[k - 1] \in Nat
      /\ arena_pointer(r)[0] \in Nat
  BY <1>1, Addresses DEF ObjectAt
<1>4. BaseAt(r, k) = ObjectAt(r, k) + FreelistSize + nblocks(r, k) * PointerSize
  BY DEF BaseAt, StackAt
<1>5. nblocks(r, k) * (PointerSize + k) = nblocks(r, k) * PointerSize + nblocks(r, k) * k
  BY <1>1, <1>2
<1>6. arena_pointer(r)[k - 1] = ObjectAt(r, k) + FreelistSize + nblocks(r, k) * (PointerSize + k)
  <2>1. arena_pointer(r)[k - 1] = ObjectAt(r, k) + Share(r, k)
    BY <1>1, PointerRule DEF ObjectAt
  <2>2. nblocks(r, k) * (PointerSize + k) \in Nat
    BY <1>2, <1>5
  <2> QED
    BY <1>2, <1>3, <2>1, <2>2 DEF Share
<1>7. BaseAt(r, k) + nblocks(r, k) * k = arena_pointer(r)[k - 1]
  BY <1>2, <1>3, <1>4, <1>5, <1>6
<1>8. \A j \in Listed(r) : j < k => arena_pointer(r)[k - 1] <= ObjectAt(r, j)
  BY <1>1, Lists, Addresses DEF ObjectAt
<1>9. ObjectAt(r, max_block_size(r)) = (max_block_size(r) + 1) * PointerSize
  BY PointerRule DEF ObjectAt
<1>10. StackAt(r, k) = ObjectAt(r, k) + FreelistSize
  BY DEF StackAt
<1>11. BaseAt(r, k) \in Nat
  BY <1>2, <1>3, <1>4
<1> QED
  BY <1>2, <1>3, <1>4, <1>7, <1>8, <1>9, <1>10, <1>11

\* The assertion that ends the constructor: the pointer has come to the end of
\* the arena.
LEMMA Filled ==
  ASSUME NEW r \in Requirements
  PROVE  arena_pointer(r)[0] = arena_size(r)
<1> DEFINE m == max_block_size(r)
           p == arena_pointer(r)
           blocks == [k \in Listed(r) |-> k * nblocks(r, k)]
           stacks == [k \in Listed(r) |-> nblocks(r, k) * PointerSize]
           Above(j) == {k \in Listed(r) : k > j}
           Needed(j) == SumFunctionOnSet(blocks, Above(j)) + SumFunctionOnSet(stacks, Above(j))
                        + Cardinality(Above(j)) * FreelistSize + (m + 1) * PointerSize
           A == {n \in Nat : n <= m => p[m - n] = Needed(m - n)}
<1>1. m \in Nat /\ PointerSize \in Nat /\ FreelistSize \in Nat /\ (m + 1) * PointerSize \in Nat
  <2>1. m \in Nat /\ PointerSize \in Nat /\ FreelistSize \in Nat
    BY Largest, AllocatorAssumption
  <2> QED
    BY <2>1, Products
<1>2. \A k \in Listed(r) :
         /\ blocks[k] = k * nblocks(r, k) /\ stacks[k] = nblocks(r, k) * PointerSize
         /\ k \in Nat /\ k <= m /\ k > 0 /\ nblocks(r, k) \in Nat
  BY Lists
<1>3. \A k \in Listed(r) : blocks[k] \in Nat /\ stacks[k] \in Nat
  BY <1>1, <1>2, Products
<1>4. IsFiniteSet(Listed(r))
  BY <1>1, <1>2, FS_BoundedSetOfNaturals, Lists
<1>5. \A j : IsFiniteSet(Above(j)) /\ Above(j) \subseteq Listed(r)
  BY <1>4, FS_Subset
<1>6. p[m] = (m + 1) * PointerSize /\ \A j \in 1..m : p[j - 1] = p[j] + Share(r, j)
  <2>1. p[m] = (m + 1) * PointerSize /\ \A j \in 0..(m - 1) : p[j] = p[j + 1] + Share(r, j + 1)
    BY PointerRule
  <2>2. \A j \in 1..m : j - 1 \in 0..(m - 1) /\ (j - 1) + 1 = j
    BY <1>1
  <2> HIDE DEF m, p
  <2> QED
    BY <2>1, <2>2
<1> HIDE DEF m, p, blocks, stacks
<1>7. 0 \in A
  <2>1. Above(m) = {}
    BY <1>1, <1>2
  <2>2. SumFunctionOnSet(blocks, {}) = 0 /\ SumFunctionOnSet(stacks, {}) = 0 /\ Cardinality({}) = 0
    BY SumEmpty, FS_EmptySet
  <2>3. Needed(m) = (m + 1) * PointerSize
    BY <1>1, <2>1, <2>2
  <2>4. m - 0 = m
    BY <1>1
  <2> QED
    BY <1>6, <2>3, <2>4
<1>8. ASSUME NEW j \in 1..m
      PROVE  Needed(j - 1) = Needed(j) + Share(r, j)
  <2>1. /\ SumFunctionOnSet(blocks, Above(j)) \in Nat /\ SumFunctionOnSet(stacks, Above(j)) \in Nat
        /\ Cardinality(Above(j)) \in Nat
    <3> HIDE DEF Above
    <3> QED
      BY <1>3, <1>5, SumType, FS_CardinalityType
  <2>2. CASE j \notin Listed(r)
    <3>1. Above(j - 1) = Above(j)
      BY <1>1, <1>2, <2>2
    <3>2. Share(r, j) = 0
      BY <2>2 DEF Share
    <3>3. Cardinality(Above(j)) * FreelistSize \in Nat
      BY <1>1, <2>1, Products
    <3> HIDE DEF Above
    <3> QED
      BY <1>1, <2>1, <3>1, <3>2, <3>3
  <2>3. CASE j \in Listed(r)
    <3>1. Above(j - 1) = Above(j) \cup {j} /\ j \notin Above(j)
      <4>1. \A k \in Listed(r) : k > j - 1 <=> k > j \/ k = j
        BY <1>1, <1>2
      <4>2. ~(j > j)
        BY <1>1
      <4> QED
        BY <2>3, <4>1, <4>2
    <3>2. Share(r, j) = FreelistSize + nblocks(r, j) * (PointerSize + j)
      BY <2>3 DEF Share
    <3> HIDE DEF Above
    <3>3. /\ SumFunctionOnSet(blocks, Above(j - 1)) = blocks[j] + SumFunctionOnSet(blocks, Above(j))
          /\ SumFunctionOnSet(stacks, Above(j - 1)) = stacks[j] + SumFunctionOnSet(stacks, Above(j))
      BY <1>3, <1>5, <2>3, <3>1, SumAdd
    <3>4. Cardinality(Above(j - 1)) = Cardinality(Above(j)) + 1
      BY <1>5, <3>1, FS_AddElement
    <3>5. /\ Cardinality(Above(j)) * FreelistSize \in Nat
          /\ (Cardinality(Above(j)) + 1) * FreelistSize = Cardinality(Above(j)) * FreelistSize + FreelistSize
      BY <1>1, <2>1, Products
    <3>6. nblocks(r, j) * (PointerSize + j) = blocks[j] + stacks[j]
      BY <1>1, <1>2, <2>3
    <3>7. blocks[j] \in Nat /\ stacks[j] \in Nat
      BY <1>3, <2>3
    <3> QED
      BY <1>1, <2>1, <3>2, <3>3, <3>4, <3>5, <3>6, <3>7
  <2> QED
    BY <2>2, <2>3
<1>9. \A n \in A : n + 1 \in A
  <2>1. ASSUME NEW n \in Nat, n \in A, n + 1 <= m
        PROVE  p[m - (n + 1)] = Needed(m - (n + 1))
    <3>1. m - n \in 1..m /\ m - (n + 1) = (m - n) - 1 /\ n <= m
      BY <1>1, <2>1
    <3>2. p[m - n] = Needed(m - n)
      BY <2>1, <3>1
    <3> HIDE DEF Needed
    <3> QED
      BY <1>6, <1>8, <3>1, <3>2
  <2> HIDE DEF Needed
  <2> QED
    BY <2>1
<1>10. A = Nat
  <2> HIDE DEF A
  <2>1. A \in SUBSET Nat
    BY DEF A
  <2> QED
    BY <1>7, <1>9, <2>1, SetInduction
<1>11. p[0] = Needed(0)
  <2>1. m \in A /\ m - m = 0 /\ m <= m
    <3> HIDE DEF A
    <3> QED
      BY <1>1, <1>10
  <2>2. p[m - m] = Needed(m - m)
    BY <2>1
  <2> HIDE DEF Needed
  <2> QED
    BY <2>1, <2>2
<1>12. Above(0) = Listed(r)
  BY <1>2
<1> QED
  BY <1>11, <1>12 DEF p, m, blocks, stacks, arena_size

-----------------------------------------------------------------------------
(***************************************************************************)
(* Where everything is: the slots of a stack and the blocks of a size      *)
(* follow each other, and what belongs to one size is apart from what      *)
(* belongs to another.                                                     *)
(***************************************************************************)

Laid ==
  /\ reqs \in Requirements
  /\ freelist_pointers = [k \in 1..max_block_size(reqs) |-> NextList(reqs, k)]
  /\ base = [k \in Listed(reqs) |-> BaseAt(reqs, k)]

LEMMA Quotient ==
  ASSUME NEW i \in Nat, NEW n \in Nat \ {0}
  PROVE  (i * n) \div n = i
OBVIOUS

LEMMA Plan ==
  ASSUME Laid
  PROVE  /\ List = Listed(reqs) /\ List \in SUBSET (Nat \ {0}) /\ IsFiniteSet(List)
         /\ List # {}
         /\ \A k \in List : /\ nblocks(reqs, k) \in Nat \ {0} /\ base[k] = BaseAt(reqs, k)
                            /\ base[k] \in Nat /\ nblocks(reqs, k) * PointerSize \in Nat
                            /\ nblocks(reqs, k) * PointerSize <= base[k]
                            /\ nblocks(reqs, k) * k \in Nat
                            /\ StackAt(reqs, k) = base[k] - nblocks(reqs, k) * PointerSize
         /\ PointerSize \in Nat \ {0} /\ FreelistSize \in Nat
<1>1. List = Listed(reqs) /\ reqs \in Requirements
  BY DEF Laid, List
<1>2. IsFiniteSet(List)
  <2>1. \A k \in List : k <= max_block_size(reqs)
    BY <1>1, Lists, Largest
  <2> QED
    BY <1>1, <2>1, Lists, Largest, FS_BoundedSetOfNaturals
<1>3. PointerSize \in Nat \ {0} /\ FreelistSize \in Nat
  BY AllocatorAssumption
<1>4. List \in SUBSET (Nat \ {0}) /\ List # {}
  BY <1>1, Lists
<1>5. ASSUME NEW k \in List
      PROVE  /\ nblocks(reqs, k) \in Nat \ {0} /\ base[k] = BaseAt(reqs, k)
             /\ base[k] \in Nat /\ nblocks(reqs, k) * PointerSize \in Nat
             /\ nblocks(reqs, k) * PointerSize <= base[k]
             /\ nblocks(reqs, k) * k \in Nat
             /\ StackAt(reqs, k) = base[k] - nblocks(reqs, k) * PointerSize
  <2>1. base[k] = BaseAt(reqs, k) /\ nblocks(reqs, k) \in Nat \ {0}
    BY <1>1, Lists DEF Laid
  <2>2. /\ ObjectAt(reqs, k) \in Nat /\ BaseAt(reqs, k) \in Nat
        /\ nblocks(reqs, k) * PointerSize \in Nat /\ nblocks(reqs, k) * k \in Nat
        /\ StackAt(reqs, k) = ObjectAt(reqs, k) + FreelistSize
        /\ BaseAt(reqs, k) = ObjectAt(reqs, k) + FreelistSize + nblocks(reqs, k) * PointerSize
    BY <1>1, Regions
  <2> QED
    BY <1>3, <2>1, <2>2
<1> QED
  BY <1>1, <1>2, <1>3, <1>4, <1>5

\* The blocks of a size.
LEMMA BlockPlaces ==
  ASSUME Laid, NEW k \in List
  PROVE  /\ \A a \in BlocksOf(k) : /\ a \in Nat /\ base[k] <= a
                                   /\ a + k <= base[k] + nblocks(reqs, k) * k
         /\ \A a, b \in BlocksOf(k) : a < b => a + k <= b
         /\ IsFiniteSet(BlocksOf(k)) /\ Cardinality(BlocksOf(k)) = nblocks(reqs, k)
<1> DEFINE n == nblocks(reqs, k)
           I == 0..(n - 1)
           at == [i \in I |-> base[k] + i * k]
<1>1. n \in Nat \ {0} /\ k \in Nat \ {0} /\ base[k] \in Nat
  BY Plan
<1> HIDE DEF n
<1>2. \A i \in I : i * k \in Nat /\ i * k + k <= n * k
  BY <1>1, Products
<1>3. \A i, j \in I : i < j => i * k + k <= j * k
  BY <1>1, Products
<1>4. BlocksOf(k) = {base[k] + i * k : i \in I}
  BY DEF BlocksOf, n
<1>5. \A a \in BlocksOf(k) : /\ a \in Nat /\ base[k] <= a
                             /\ a + k <= base[k] + n * k
  <2>1. n * k \in Nat
    BY <1>1, Products
  <2> HIDE DEF I
  <2> QED
    BY <1>1, <1>2, <1>4, <2>1
<1>6. ASSUME NEW i \in I, NEW j \in I, base[k] + i * k < base[k] + j * k
      PROVE  base[k] + i * k + k <= base[k] + j * k
  <2>1. i \in Nat /\ j \in Nat /\ i * k \in Nat /\ j * k \in Nat
    BY <1>2
  <2>2. i * k < j * k
    BY <1>1, <1>6, <2>1
  <2>3. j <= i => j * k <= i * k
    BY <1>1, <2>1, Products
  <2>4. i < j
    BY <2>1, <2>2, <2>3
  <2> QED
    BY <1>1, <1>3, <2>1, <2>4
<1>7. \A a, b \in BlocksOf(k) : a < b => a + k <= b
  BY <1>4, <1>6
<1>8. at \in Bijection(I, BlocksOf(k))
  <2>1. at \in [I -> BlocksOf(k)] /\ \A a \in BlocksOf(k) : \E i \in I : at[i] = a
    BY <1>4
  <2>2. ASSUME NEW i \in I, NEW j \in I, at[i] = at[j]
        PROVE  i = j
    <3>1. i \in Nat /\ j \in Nat /\ i * k \in Nat /\ j * k \in Nat
      BY <1>2
    <3>2. i * k = j * k
      BY <1>1, <2>2, <3>1
    <3>3. ~(i < j) /\ ~(j < i)
      BY <1>1, <1>3, <3>1, <3>2
    <3> QED
      BY <3>1, <3>3
  <2> HIDE DEF at
  <2>3. at \in Injection(I, BlocksOf(k))
    BY <2>1, <2>2 DEF Injection, IsInjective
  <2>4. at \in Surjection(I, BlocksOf(k))
    BY <2>1 DEF Surjection
  <2> QED
    BY <2>3, <2>4 DEF Bijection
<1>9. IsFiniteSet(I) /\ Cardinality(I) = n
  <2>1. 0 \in Int /\ n - 1 \in Int /\ ~(0 > n - 1) /\ (n - 1) - 0 + 1 = n
    BY <1>1
  <2> QED
    BY <2>1, FS_Interval
<1>10. IsFiniteSet(BlocksOf(k)) /\ Cardinality(BlocksOf(k)) = n
  <2>1. ExistsBijection(I, BlocksOf(k))
    BY <1>8 DEF ExistsBijection
  <2> HIDE DEF I
  <2> QED
    BY <1>9, <2>1, FS_Bijection
<1> QED
  BY <1>5, <1>7, <1>10 DEF n

\* The slots of a stack: a word up from one is the next, or past the stack.
LEMMA SlotPlaces ==
  ASSUME Laid, NEW k \in List
  PROVE  /\ \A a \in Slots(k) : /\ a \in Nat /\ StackAt(reqs, k) <= a
                                /\ a + PointerSize <= base[k]
                                /\ a + PointerSize \in Slots(k) \cup {base[k]}
         /\ StackAt(reqs, k) \in Slots(k)
         /\ \A a, b \in Slots(k) : a < b => a + PointerSize <= b
         /\ \A a \in Slots(k) \cup {base[k]} :
               a # StackAt(reqs, k) => a - PointerSize \in Slots(k)
         /\ IsFiniteSet(Slots(k)) /\ Cardinality(Slots(k)) = nblocks(reqs, k)
<1> DEFINE n == nblocks(reqs, k)
           P == PointerSize
           b == base[k]
           I == 1..n
           at == [i \in I |-> b - i * P]
<1>1. /\ n \in Nat \ {0} /\ P \in Nat \ {0} /\ b \in Nat /\ n * P \in Nat /\ n * P <= b
      /\ StackAt(reqs, k) = b - n * P
  BY Plan
<1>2. Slots(k) = {b - i * P : i \in I}
  BY DEF Slots
<1> HIDE DEF n, P, b
<1>3. \A i \in I : i * P \in Nat /\ P <= i * P /\ i * P <= n * P /\ i \in Nat /\ (i - 1) * P = i * P - P
  <2> SUFFICES ASSUME NEW i \in I
               PROVE  i * P \in Nat /\ P <= i * P /\ i * P <= n * P /\ i \in Nat /\ (i - 1) * P = i * P - P
    OBVIOUS
  <2>1. i \in Nat /\ i <= n /\ i - 1 \in Nat /\ (i - 1) + 1 = i
    BY <1>1
  <2>2. i * P \in Nat /\ i * P <= n * P /\ (i - 1) * P \in Nat /\ i * P = (i - 1) * P + P
    BY <1>1, <2>1, Products
  <2> QED
    BY <1>1, <2>1, <2>2
<1>4. \A i, j \in I : i < j => i * P + P <= j * P
  BY <1>1, Products
<1>5. ASSUME NEW i \in I
      PROVE  /\ b - i * P \in Nat /\ b - n * P <= b - i * P
             /\ (b - i * P) + P <= b
             /\ (b - i * P) + P = b - (i - 1) * P
             /\ i # 1 => i - 1 \in I
             /\ i = 1 => (b - i * P) + P = b
             /\ i # n => i + 1 \in I /\ (b - i * P) - P = b - (i + 1) * P
  <2>1. /\ i * P \in Nat /\ P <= i * P /\ i * P <= n * P /\ i \in Nat
        /\ (i - 1) * P = i * P - P /\ (i + 1) * P = i * P + P /\ 1 * P = P
    BY <1>1, <1>3, Products
  <2>2. i # 1 => i - 1 \in I
    BY <1>1
  <2>3. i # n => i + 1 \in I
    BY <1>1
  <2>4. i = 1 => i * P = P
    BY <2>1
  <2> HIDE DEF I
  <2> QED
    BY <1>1, <2>1, <2>2, <2>3, <2>4
<1>6. \A a \in Slots(k) : /\ a \in Nat /\ b - n * P <= a
                          /\ a + P <= b
                          /\ a + P \in Slots(k) \cup {b}
  <2> SUFFICES ASSUME NEW i \in I
               PROVE  /\ b - i * P \in Nat /\ b - n * P <= b - i * P
                      /\ (b - i * P) + P <= b
                      /\ (b - i * P) + P \in Slots(k) \cup {b}
    BY <1>2
  <2>1. i # 1 => b - (i - 1) * P \in Slots(k)
    BY <1>2, <1>5
  <2> QED
    BY <1>5, <2>1
<1>7. b - n * P \in Slots(k)
  <2>1. n \in I
    BY <1>1
  <2> QED
    BY <1>2, <2>1
<1>8. ASSUME NEW i \in I, NEW j \in I, b - i * P < b - j * P
      PROVE  (b - i * P) + P <= b - j * P
  <2>1. /\ i \in Nat /\ j \in Nat /\ i * P \in Nat /\ j * P \in Nat
        /\ i * P <= n * P /\ j * P <= n * P
    BY <1>3
  <2>2. j * P < i * P
    BY <1>1, <1>8, <2>1
  <2>3. i <= j => i * P <= j * P
    BY <1>1, <2>1, Products
  <2>4. j < i
    BY <2>1, <2>2, <2>3
  <2> QED
    BY <1>1, <1>4, <2>1, <2>4
<1>9. \A a, c \in Slots(k) : a < c => a + P <= c
  BY <1>2, <1>8
<1>10. ASSUME NEW a \in Slots(k) \cup {b}, a # b - n * P
       PROVE  a - P \in Slots(k)
  <2>1. CASE a = b
    <3>1. 1 \in I /\ 1 * P = P
      BY <1>1
    <3> QED
      BY <1>2, <2>1, <3>1
  <2>2. ASSUME NEW i \in I, a = b - i * P
        PROVE  a - P \in Slots(k)
    <3>1. i # n
      BY <1>10, <2>2
    <3>2. i + 1 \in I /\ a - P = b - (i + 1) * P
      BY <1>5, <2>2, <3>1
    <3> QED
      BY <1>2, <3>2
  <2> QED
    BY <1>2, <2>1, <2>2
<1>11. at \in Bijection(I, Slots(k))
  <2>1. at \in [I -> Slots(k)] /\ \A a \in Slots(k) : \E i \in I : at[i] = a
    BY <1>2
  <2>2. ASSUME NEW i \in I, NEW j \in I, at[i] = at[j]
        PROVE  i = j
    <3>1. i \in Nat /\ j \in Nat /\ i * P \in Nat /\ j * P \in Nat /\ i * P <= n * P /\ j * P <= n * P
      BY <1>3
    <3>2. i * P = j * P
      BY <1>1, <2>2, <3>1
    <3>3. ~(i < j) /\ ~(j < i)
      BY <1>1, <1>4, <3>1, <3>2
    <3> QED
      BY <3>1, <3>3
  <2> HIDE DEF at
  <2>3. at \in Injection(I, Slots(k))
    BY <2>1, <2>2 DEF Injection, IsInjective
  <2>4. at \in Surjection(I, Slots(k))
    BY <2>1 DEF Surjection
  <2> QED
    BY <2>3, <2>4 DEF Bijection
<1>12. IsFiniteSet(I) /\ Cardinality(I) = n
  <2>1. 1 \in Int /\ n \in Int /\ ~(1 > n) /\ n - 1 + 1 = n
    BY <1>1
  <2> QED
    BY <2>1, FS_Interval
<1>13. IsFiniteSet(Slots(k)) /\ Cardinality(Slots(k)) = n
  <2>1. ExistsBijection(I, Slots(k))
    BY <1>11 DEF ExistsBijection
  <2> HIDE DEF I
  <2> QED
    BY <1>12, <2>1, FS_Bijection
<1> QED
  BY <1>1, <1>6, <1>7, <1>9, <1>10, <1>13 DEF n, P, b

\* Different sizes have different slots and blocks.
LEMMA Apart ==
  ASSUME Laid, NEW j \in List, NEW k \in List, j # k
  PROVE  /\ Slots(j) \cap Slots(k) = {}
         /\ \A a \in BlocksOf(j), c \in BlocksOf(k) : a + j <= c \/ c + k <= a
<1>1. ASSUME NEW x \in List, NEW y \in List, x < y
      PROVE  /\ \A a \in Slots(x), c \in Slots(y) : a # c
             /\ \A a \in BlocksOf(x), c \in BlocksOf(y) : c + y <= a
  <2>1. /\ \A a \in Slots(x) : a \in Nat /\ StackAt(reqs, x) <= a
        /\ \A c \in Slots(y) : c \in Nat /\ c + PointerSize <= base[y]
    BY SlotPlaces
  <2>2. /\ \A a \in BlocksOf(x) : a \in Nat /\ base[x] <= a
        /\ \A c \in BlocksOf(y) : c \in Nat /\ c + y <= base[y] + nblocks(reqs, y) * y
    BY BlockPlaces
  <2>3. base[y] + nblocks(reqs, y) * y <= ObjectAt(reqs, x)
    <3>1. reqs \in Requirements /\ x \in Listed(reqs) /\ y \in Listed(reqs) /\ base[y] = BaseAt(reqs, y)
      BY Plan DEF Laid
    <3> QED
      BY <1>1, <3>1, Regions
  <2>4. /\ ObjectAt(reqs, x) \in Nat /\ StackAt(reqs, x) = ObjectAt(reqs, x) + FreelistSize
        /\ base[x] = ObjectAt(reqs, x) + FreelistSize + nblocks(reqs, x) * PointerSize
        /\ nblocks(reqs, x) * PointerSize \in Nat
    <3>1. reqs \in Requirements /\ x \in Listed(reqs) /\ base[x] = BaseAt(reqs, x)
      BY Plan DEF Laid
    <3> QED
      BY <3>1, Regions
  <2>5. /\ PointerSize \in Nat \ {0} /\ FreelistSize \in Nat /\ base[y] \in Nat
        /\ nblocks(reqs, y) * y \in Nat /\ y \in Nat
    BY Plan
  <2> QED
    BY <2>1, <2>2, <2>3, <2>4, <2>5
<1>2. j \in Nat /\ k \in Nat
  BY Plan
<1>3. j < k \/ k < j
  BY <1>2
<1> QED
  BY <1>1, <1>3

\* A block is in the arena and apart from all that manages it.
LEMMA Clear ==
  ASSUME Laid, NEW k \in List, NEW a \in BlocksOf(k)
  PROVE  a + k <= arena_size(reqs) /\ Extent(a, k) \cap Managed = {}
<1>1. reqs \in Requirements /\ \A j \in List : j \in Listed(reqs) /\ base[j] = BaseAt(reqs, j)
  BY Plan DEF Laid
<1>2. /\ a \in Nat /\ base[k] <= a /\ a + k <= base[k] + nblocks(reqs, k) * k
      /\ k \in Nat \ {0} /\ base[k] \in Nat /\ nblocks(reqs, k) * k \in Nat
      /\ PointerSize \in Nat /\ FreelistSize \in Nat
  BY BlockPlaces, Plan
<1>3. a + k <= arena_size(reqs)
  <2>1. base[k] + nblocks(reqs, k) * k <= arena_pointer(reqs)[0] /\ arena_pointer(reqs)[0] \in Nat
    BY <1>1, Regions
  <2> QED
    BY <1>1, <1>2, <2>1, Filled
<1> DEFINE n(j) == FreelistSize + nblocks(reqs, j) * PointerSize
<1>4. \A j \in List : /\ n(j) \in Nat /\ base[j] \in Nat /\ ObjectAt(reqs, j) = base[j] - n(j)
                      /\ ObjectAt(reqs, j) \in Nat
  <2> SUFFICES ASSUME NEW j \in List
               PROVE  /\ n(j) \in Nat /\ base[j] \in Nat /\ ObjectAt(reqs, j) = base[j] - n(j)
                      /\ ObjectAt(reqs, j) \in Nat
    OBVIOUS
  <2>1. /\ ObjectAt(reqs, j) \in Nat /\ nblocks(reqs, j) * PointerSize \in Nat
        /\ BaseAt(reqs, j) = ObjectAt(reqs, j) + FreelistSize + nblocks(reqs, j) * PointerSize
    BY <1>1, Regions
  <2> QED
    BY <1>1, <1>2, <2>1
<1>5. \A x \in Extent(a, k) : x \in Nat /\ a <= x /\ x < a + k
  BY <1>2 DEF Extent
<1>6. \A x \in Extent(0, (max_block_size(reqs) + 1) * PointerSize) : x < base[k]
  <2>1. /\ (max_block_size(reqs) + 1) * PointerSize \in Nat
        /\ (max_block_size(reqs) + 1) * PointerSize <= ObjectAt(reqs, k)
    BY <1>1, Regions
  <2> QED
    BY <1>2, <1>4, <2>1 DEF Extent
<1>7. ASSUME NEW j \in List, NEW x \in ObjectAndStack(j)
      PROVE  x \notin Extent(a, k)
  <2>1. x \in Int /\ base[j] - n(j) <= x /\ x < base[j]
    <3>1. x \in Extent(base[j] - n(j), n(j))
      BY <1>7 DEF ObjectAndStack
    <3> HIDE DEF n
    <3> QED
      BY <1>4, <3>1 DEF Extent
  <2>2. CASE j = k
    BY <1>2, <1>5, <2>1, <2>2
  <2>3. CASE j < k
    <3>1. base[k] + nblocks(reqs, k) * k <= ObjectAt(reqs, j)
      BY <1>1, <2>3, Regions
    <3> HIDE DEF n
    <3> QED
      BY <1>2, <1>4, <1>5, <2>1, <3>1
  <2>4. CASE k < j
    <3>1. base[j] + nblocks(reqs, j) * j <= ObjectAt(reqs, k)
      BY <1>1, <2>4, Regions
    <3>2. nblocks(reqs, j) * j \in Nat
      BY Plan
    <3> HIDE DEF n
    <3> QED
      BY <1>2, <1>4, <1>5, <2>1, <3>1, <3>2
  <2>5. j \in Nat /\ k \in Nat
    BY Plan
  <2> QED
    BY <2>2, <2>3, <2>4, <2>5
<1>8. Extent(a, k) \cap Managed = {}
  <2>1. \A x \in Managed : x \notin Extent(a, k)
    BY <1>2, <1>5, <1>6, <1>7 DEF Managed
  <2> QED
    BY <2>1
<1> QED
  BY <1>3, <1>8

-----------------------------------------------------------------------------
(***************************************************************************)
(* The invariant                                                           *)
(***************************************************************************)
\* Of the free list of size k: the threads between lock and unlock, those that
\* have one of its blocks in hand, and those that are to store one on its top.
Within(k) ==
  {t \in Thread : /\ list[t] = k
                  /\ pc[t] \in {"load", "raise", "popped", "lower", "store", "pushed"}}
Carriers(k) == {t \in Thread : list[t] = k /\ pc[t] \in {"popped", "push", "lower", "store"}}
Storing(k) == \E t \in Thread : list[t] = k /\ pc[t] = "store"

\* Its slots that are in use, but for one lowered to and not yet written; what is
\* in them; what is carried; what is lent; and the calls in progress.
Filling(k) == {a \in Slots(k) : a >= top[k] /\ (Storing(k) => a # top[k])}
Stacked(k) == {memory[a] : a \in Filling(k)}
Carried(k) == {block[t] : t \in Carriers(k)}
Lent(k) == {h \in held : SizeFor(h.bytes) = k}
LentAt(k) == {h.at : h \in Lent(k)}
Busy(k) == {t \in Thread : pc[t] # "idle" /\ SizeFor(bytes[t]) = k}

Typed ==
  /\ memory = [a \in DOMAIN memory |-> memory[a]]
  /\ DOMAIN memory = UNION {Slots(k) : k \in List}
  /\ \A k \in List : \A a \in Slots(k) : memory[a] \in BlocksOf(k)
  /\ DOMAIN top = List /\ \A k \in List : top[k] \in Slots(k) \cup {base[k]}
  /\ lock \in [List -> BOOLEAN]
  /\ pc \in [Thread -> {"idle", "pop", "load", "raise", "popped", "push", "lower", "store", "pushed"}]
  /\ list \in [Thread -> List \cup {0}] /\ bytes \in [Thread -> Bytes \cup {0}]
  /\ block \in [Thread -> Nat]

\* Every call is of a size that was required, and is at work on the list for it.
Calls ==
  /\ \A t \in Thread : pc[t] # "idle" => /\ bytes[t] \in Bytes /\ bytes[t] <= max_block_size(reqs)
                                         /\ list[t] = SizeFor(bytes[t])
  /\ held \subseteq [at : Nat, bytes : Bytes] /\ IsFiniteSet(held)
  /\ \A h \in held : h.bytes <= max_block_size(reqs)

\* The lock admits one.
Locked ==
  \A k \in List : /\ \A t, u \in Within(k) : t = u
                  /\ Within(k) # {} => lock[k]

\* Each block is in one place: on the stack once, carried by one or lent to one.
OncePlaced(k) ==
  /\ \A a, b \in Filling(k) : memory[a] = memory[b] => a = b
  /\ \A t \in Carriers(k) : block[t] \in BlocksOf(k) \ Stacked(k)
  /\ \A t, u \in Carriers(k) : block[t] = block[u] => t = u
  /\ \A h \in Lent(k) : h.at \in BlocksOf(k) \ (Stacked(k) \cup Carried(k))
  /\ \A g, h \in Lent(k) : g.at = h.at => g = h
  /\ BlocksOf(k) \subseteq Stacked(k) \cup Carried(k) \cup LentAt(k)

\* The clients keep to what they required.
Granted(k) == InUse(k) <= nblocks(reqs, k)

\* Pop has read the top it is about to raise, and push writes within the stack.
Reading ==
  \A t \in Thread :
     /\ pc[t] = "raise" => top[list[t]] \in Slots(list[t]) /\ block[t] = memory[top[list[t]]]
     /\ pc[t] = "store" => top[list[t]] \in Slots(list[t])

AllocatorInv ==
  /\ Laid /\ Typed /\ Calls /\ Locked /\ Reading
  /\ \A k \in List : OncePlaced(k) /\ Granted(k)

\* What the constructor's pushes have left in the stacks.
LEMMA FirstMemory ==
  ASSUME Init, Laid, NEW k \in List, NEW i \in 1..nblocks(reqs, k)
  PROVE  /\ base[k] - i * PointerSize \in DOMAIN memory
         /\ memory[base[k] - i * PointerSize] = base[k] + (i - 1) * k
<1> DEFINE a == base[k] - i * PointerSize
<1>1. a \in Slots(k)
  BY DEF Slots
<1>2. (CHOOSE j \in List : a \in Slots(j)) = k
  <2>1. \A j \in List : a \in Slots(j) => j = k
    <3> HIDE DEF a
    <3> QED
      BY <1>1, Apart
  <2> HIDE DEF a
  <2> QED
    BY <1>1, <2>1
<1>3. /\ i \in Nat /\ base[k] \in Nat /\ PointerSize \in Nat \ {0} /\ k \in Nat
      /\ i * PointerSize \in Nat /\ i * PointerSize <= base[k]
  <2>1. /\ base[k] \in Nat /\ PointerSize \in Nat \ {0} /\ k \in Nat /\ nblocks(reqs, k) \in Nat
        /\ nblocks(reqs, k) * PointerSize \in Nat /\ nblocks(reqs, k) * PointerSize <= base[k]
    BY Plan
  <2>2. i \in Nat /\ i <= nblocks(reqs, k)
    BY <2>1
  <2>3. i * PointerSize \in Nat /\ i * PointerSize <= nblocks(reqs, k) * PointerSize
    BY <2>1, <2>2, Products
  <2> QED
    BY <2>1, <2>2, <2>3
<1>4. base[k] - a = i * PointerSize
  BY <1>3
<1>5. (base[k] - a) \div PointerSize = i
  BY <1>3, <1>4, Quotient
<1>6. DOMAIN memory = UNION {Slots(j) : j \in List}
  BY DEF Init
<1>7. a \in DOMAIN memory
  <2> HIDE DEF a
  <2> QED
    BY <1>1, <1>6
<1>8. memory[a] = base[k] + ((base[k] - a) \div PointerSize - 1) * k
  <2> HIDE DEF a
  <2>1. memory[a] = LET j == CHOOSE j \in List : a \in Slots(j)
                    IN  base[j] + ((base[j] - a) \div PointerSize - 1) * j
    BY <1>6, <1>7 DEF Init
  <2> QED
    BY <1>2, <2>1
<1> QED
  BY <1>5, <1>7, <1>8

LEMMA FirstStack ==
  ASSUME Init, Laid, NEW k \in List
  PROVE  /\ \A a \in Slots(k) : memory[a] \in BlocksOf(k)
         /\ \A a, b \in Slots(k) : memory[a] = memory[b] => a = b
         /\ \A c \in BlocksOf(k) : \E a \in Slots(k) : memory[a] = c
<1> DEFINE n == nblocks(reqs, k)
           slot(i) == base[k] - i * PointerSize
<1>1. Slots(k) = {slot(i) : i \in 1..n} /\ BlocksOf(k) = {base[k] + i * k : i \in 0..(n - 1)}
  BY DEF Slots, BlocksOf
<1>2. n \in Nat \ {0} /\ base[k] \in Nat /\ k \in Nat \ {0}
  BY Plan
<1>3. \A i \in 1..n : memory[slot(i)] = base[k] + (i - 1) * k /\ i - 1 \in 0..(n - 1)
  <2>1. \A i \in 1..n : memory[slot(i)] = base[k] + (i - 1) * k
    BY FirstMemory
  <2> HIDE DEF n
  <2> QED
    BY <1>2, <2>1
<1> HIDE DEF n, slot
<1>4. \A a \in Slots(k) : memory[a] \in BlocksOf(k)
  BY <1>1, <1>3
<1>5. ASSUME NEW i \in 1..n, NEW j \in 1..n, (i - 1) * k = (j - 1) * k
      PROVE  i = j
  <2>1. i - 1 \in Nat /\ j - 1 \in Nat /\ (i - 1) * k \in Nat /\ (j - 1) * k \in Nat
    BY <1>2, Products
  <2>2. i - 1 < j - 1 => (i - 1) * k + k <= (j - 1) * k
    BY <1>2, <2>1, Products
  <2>3. j - 1 < i - 1 => (j - 1) * k + k <= (i - 1) * k
    BY <1>2, <2>1, Products
  <2> QED
    BY <1>2, <1>5, <2>1, <2>2, <2>3
<1>6. ASSUME NEW i \in 1..n, NEW j \in 1..n, memory[slot(i)] = memory[slot(j)]
      PROVE  slot(i) = slot(j)
  <2>1. (i - 1) * k \in Nat /\ (j - 1) * k \in Nat
    BY <1>2, Products
  <2>2. (i - 1) * k = (j - 1) * k
    BY <1>2, <1>3, <1>6, <2>1
  <2> QED
    BY <1>5, <2>2
<1>7. \A a, b \in Slots(k) : memory[a] = memory[b] => a = b
  BY <1>1, <1>6
<1>8. ASSUME NEW i \in 0..(n - 1)
      PROVE  \E a \in Slots(k) : memory[a] = base[k] + i * k
  <2>1. i + 1 \in 1..n /\ (i + 1) - 1 = i
    BY <1>2
  <2>2. memory[slot(i + 1)] = base[k] + i * k
    BY <1>3, <2>1
  <2> QED
    BY <1>1, <2>1, <2>2
<1> QED
  BY <1>1, <1>4, <1>7, <1>8

LEMMA InvInit ==
  ASSUME Init
  PROVE  AllocatorInv
<1>1. Laid
  BY DEF Init, Laid
<1>2. /\ pc = [t \in Thread |-> "idle"] /\ list = [t \in Thread |-> 0]
      /\ bytes = [t \in Thread |-> 0] /\ block = [t \in Thread |-> 0] /\ held = {}
      /\ lock = [k \in List |-> FALSE]
      /\ DOMAIN memory = UNION {Slots(k) : k \in List}
  BY DEF Init
<1>3. DOMAIN top = List /\ \A k \in List : top[k] = StackAt(reqs, k)
  BY <1>1, Plan DEF Init, List
<1>4. Typed
  <2>1. \A k \in List : \A a \in Slots(k) : memory[a] \in BlocksOf(k)
    BY <1>1, FirstStack
  <2>2. \A k \in List : top[k] \in Slots(k)
    BY <1>1, <1>3, SlotPlaces
  <2>3. memory = [a \in DOMAIN memory |-> memory[a]]
    BY DEF Init
  <2> QED
    BY <1>2, <1>3, <2>1, <2>2, <2>3 DEF Typed
<1>5. Calls
  BY <1>2, FS_EmptySet DEF Calls
<1>6. Locked /\ Reading
  BY <1>2 DEF Locked, Reading, Within
<1>7. ASSUME NEW k \in List
      PROVE  OncePlaced(k) /\ Granted(k)
  <2>1. Carriers(k) = {} /\ Lent(k) = {} /\ Busy(k) = {} /\ ~Storing(k)
    BY <1>2 DEF Carriers, Lent, Busy, Storing
  <2>2. Filling(k) = Slots(k)
    BY <1>1, <1>3, <2>1, SlotPlaces DEF Filling
  <2>3. OncePlaced(k)
    BY <1>1, <2>1, <2>2, FirstStack DEF OncePlaced, Stacked
  <2>4. InUse(k) = 0
    <3>1. InUse(k) = Cardinality(Lent(k)) + Cardinality(Busy(k))
      BY DEF InUse, Lent, Busy
    <3> QED
      BY <2>1, <3>1, FS_EmptySet
  <2>5. nblocks(reqs, k) \in Nat
    BY <1>1, Plan
  <2> QED
    BY <2>3, <2>4, <2>5 DEF Granted
<1> QED
  BY <1>1, <1>4, <1>5, <1>6, <1>7 DEF AllocatorInv

-----------------------------------------------------------------------------
(***************************************************************************)
(* The stacks are neither empty when popped nor full when pushed, by       *)
(* counting: what clients have and calls in progress are no more than were *)
(* required.                                                               *)
(***************************************************************************)

LEMMA ImageSize ==
  ASSUME NEW S, IsFiniteSet(S), NEW f
  PROVE  IsFiniteSet({f[x] : x \in S}) /\ Cardinality({f[x] : x \in S}) <= Cardinality(S)
<1> DEFINE T == {f[x] : x \in S}
           g == [x \in S |-> f[x]]
<1>1. g \in Surjection(S, T)
  BY DEF Surjection
<1> HIDE DEF T, g
<1>2. IsFiniteSet(T) /\ Cardinality(T) <= Cardinality(S)
  BY <1>1, FS_Surjection
<1> QED
  BY <1>2 DEF T

\* The table maps a request, rounded up, to the free list of the size for it.
LEMMA Sizes ==
  ASSUME Laid, NEW b \in Bytes, b <= max_block_size(reqs)
  PROVE  /\ SizeFor(b) \in List /\ b <= SizeFor(b) /\ b \in Nat \ {0}
         /\ freelist_pointers[calblocksize(b)] = SizeFor(b)
<1>1. b \in Nat \ {0} /\ reqs \in Requirements /\ List = Listed(reqs)
  BY AllocatorAssumption, Plan DEF Laid
<1>2. SizeFor(b) = LeastFor(reqs, b)
  BY <1>1 DEF SizeFor, LeastFor
<1> QED
  BY <1>1, <1>2, Finds DEF Laid

LEMMA AtWork ==
  ASSUME AllocatorInv, NEW t \in Thread, pc[t] # "idle"
  PROVE  list[t] \in List /\ list[t] = SizeFor(bytes[t]) /\ bytes[t] \in Bytes
         /\ bytes[t] <= max_block_size(reqs)
BY Sizes DEF AllocatorInv, Calls

LEMMA Counted ==
  ASSUME AllocatorInv, NEW k \in List
  PROVE  /\ IsFiniteSet(Lent(k)) /\ IsFiniteSet(Busy(k))
         /\ Cardinality(Lent(k)) \in Nat /\ Cardinality(Busy(k)) \in Nat
         /\ InUse(k) = Cardinality(Lent(k)) + Cardinality(Busy(k))
<1>1. IsFiniteSet(held) /\ IsFiniteSet(Thread)
  BY AllocatorAssumption DEF AllocatorInv, Calls
<1>2. IsFiniteSet(Lent(k)) /\ IsFiniteSet(Busy(k))
  BY <1>1, FS_Subset DEF Lent, Busy
<1> QED
  BY <1>2, FS_CardinalityType DEF InUse, Lent, Busy

\* Pop does not meet an empty stack: whoever has one of the blocks is a call in
\* progress or a loan, and this call has none yet.
LEMMA NotEmpty ==
  ASSUME AllocatorInv, NEW t \in Thread, pc[t] = "load"
  PROVE  top[list[t]] \in Slots(list[t])
<1> DEFINE k == list[t]
           n == nblocks(reqs, k)
<1>1. k \in List /\ k = SizeFor(bytes[t])
  BY AtWork
<1>2. Laid /\ Typed /\ OncePlaced(k) /\ Granted(k)
  BY <1>1 DEF AllocatorInv
<1> HIDE DEF k
<1>3. SUFFICES ASSUME top[k] = base[k]
               PROVE  FALSE
  BY <1>1, <1>2 DEF Typed, k
<1>4. Stacked(k) = {}
  <2>1. \A a \in Slots(k) : a \in Nat /\ a + PointerSize <= base[k]
    BY <1>1, <1>2, SlotPlaces
  <2>2. PointerSize \in Nat \ {0} /\ base[k] \in Nat
    BY <1>1, <1>2, Plan
  <2>3. Filling(k) = {}
    BY <1>3, <2>1, <2>2 DEF Filling
  <2> QED
    BY <2>3 DEF Stacked
<1>5. BlocksOf(k) \subseteq Carried(k) \cup LentAt(k)
  BY <1>2, <1>4 DEF OncePlaced
<1>6. /\ IsFiniteSet(Lent(k)) /\ IsFiniteSet(Busy(k))
      /\ Cardinality(Lent(k)) \in Nat /\ Cardinality(Busy(k)) \in Nat
      /\ Cardinality(Lent(k)) + Cardinality(Busy(k)) <= n
  BY <1>1, <1>2, Counted DEF Granted
<1>7. IsFiniteSet(Carriers(k)) /\ Cardinality(Carriers(k)) + 1 <= Cardinality(Busy(k))
      /\ Cardinality(Carriers(k)) \in Nat
  <2>1. t \in Busy(k)
    BY <1>1 DEF Busy
  <2>2. Carriers(k) \subseteq Busy(k) \ {t}
    BY <1>1, AtWork DEF Carriers, Busy, k
  <2>3. /\ IsFiniteSet(Busy(k) \ {t})
        /\ Cardinality(Busy(k) \ {t}) = Cardinality(Busy(k)) - 1
    BY <1>6, <2>1, FS_RemoveElement
  <2>4. /\ IsFiniteSet(Carriers(k))
        /\ Cardinality(Carriers(k)) <= Cardinality(Busy(k) \ {t})
    BY <2>2, <2>3, FS_Subset
  <2>5. Cardinality(Carriers(k)) \in Nat
    BY <2>4, FS_CardinalityType
  <2> QED
    BY <1>6, <2>3, <2>4, <2>5
<1>8. IsFiniteSet(Carried(k)) /\ Cardinality(Carried(k)) <= Cardinality(Carriers(k))
  BY <1>7, ImageSize DEF Carried
<1>9. IsFiniteSet(LentAt(k)) /\ Cardinality(LentAt(k)) <= Cardinality(Lent(k))
  <2> DEFINE f == [h \in Lent(k) |-> h.at]
  <2>1. LentAt(k) = {f[h] : h \in Lent(k)}
    BY DEF LentAt
  <2> HIDE DEF f
  <2> QED
    BY <1>6, <2>1, ImageSize
<1>10. /\ IsFiniteSet(Carried(k) \cup LentAt(k))
       /\ Cardinality(Carried(k) \cup LentAt(k)) <= Cardinality(Carried(k)) + Cardinality(LentAt(k))
  <2>1. Cardinality(Carried(k) \cap LentAt(k)) \in Nat /\ Cardinality(Carried(k)) \in Nat
        /\ Cardinality(LentAt(k)) \in Nat
    BY <1>8, <1>9, FS_Intersection, FS_CardinalityType
  <2>2. /\ IsFiniteSet(Carried(k) \cup LentAt(k))
        /\ Cardinality(Carried(k) \cup LentAt(k))
             = Cardinality(Carried(k)) + Cardinality(LentAt(k)) - Cardinality(Carried(k) \cap LentAt(k))
    BY <1>8, <1>9, FS_Union
  <2> QED
    BY <2>1, <2>2
<1>11. Cardinality(BlocksOf(k)) <= Cardinality(Carried(k) \cup LentAt(k))
  BY <1>5, <1>10, FS_Subset
<1>12. Cardinality(BlocksOf(k)) = n /\ n \in Nat
  BY <1>1, <1>2, BlockPlaces, Plan
<1>13. /\ Cardinality(Carried(k)) \in Nat /\ Cardinality(LentAt(k)) \in Nat
       /\ Cardinality(Carried(k) \cup LentAt(k)) \in Nat
  BY <1>8, <1>9, <1>10, FS_CardinalityType
<1> QED
  BY <1>6, <1>7, <1>8, <1>9, <1>10, <1>11, <1>12, <1>13

\* Push does not meet a full stack: it would hold every block, and the one that is
\* pushed is not on it.
LEMMA NotFull ==
  ASSUME AllocatorInv, NEW t \in Thread, pc[t] = "lower"
  PROVE  top[list[t]] # StackAt(reqs, list[t])
<1> DEFINE k == list[t]
<1>1. k \in List
  BY AtWork
<1>2. Laid /\ Typed /\ OncePlaced(k) /\ Locked
  BY <1>1 DEF AllocatorInv
<1>3. ~Storing(k)
  <2>1. t \in Within(k)
    BY DEF Within
  <2>2. \A u \in Thread : list[u] = k /\ pc[u] = "store" => u = t
    BY <1>1, <1>2, <2>1 DEF Locked, Within
  <2> QED
    BY <2>2 DEF Storing
<1>4. block[t] \in BlocksOf(k) \ Stacked(k)
  BY <1>2 DEF OncePlaced, Carriers
<1> HIDE DEF k
<1>5. SUFFICES ASSUME top[k] = StackAt(reqs, k)
               PROVE  FALSE
  BY DEF k
<1>6. Filling(k) = Slots(k)
  BY <1>1, <1>2, <1>3, <1>5, SlotPlaces DEF Filling
<1> DEFINE f == [a \in Slots(k) |-> memory[a]]
<1>7. f \in Injection(Slots(k), BlocksOf(k))
  <2>1. \A a \in Slots(k) : memory[a] \in BlocksOf(k)
    BY <1>1, <1>2 DEF Typed
  <2>2. \A a, b \in Slots(k) : memory[a] = memory[b] => a = b
    BY <1>2, <1>6 DEF OncePlaced
  <2> QED
    BY <2>1, <2>2 DEF Injection, IsInjective
<1>8. f \in Surjection(Slots(k), BlocksOf(k))
  <2>1. /\ IsFiniteSet(BlocksOf(k)) /\ Cardinality(Slots(k)) = Cardinality(BlocksOf(k))
    BY <1>1, <1>2, SlotPlaces, BlockPlaces
  <2> HIDE DEF f
  <2> QED
    BY <1>7, <2>1, FS_Injection
<1>9. \A b \in BlocksOf(k) : \E a \in Slots(k) : f[a] = b
  BY <1>8 DEF Surjection
<1> QED
  BY <1>4, <1>6, <1>9 DEF Stacked

-----------------------------------------------------------------------------
(***************************************************************************)
(* The steps                                                               *)
(***************************************************************************)
LEMMA LayoutFixed ==
  ASSUME UNCHANGED layoutVars
  PROVE  /\ List' = List
         /\ \A k : Slots(k)' = Slots(k) /\ BlocksOf(k)' = BlocksOf(k)
         /\ \A b : SizeFor(b)' = SizeFor(b)
         /\ \A k : nblocks(reqs, k)' = nblocks(reqs, k)
         /\ max_block_size(reqs)' = max_block_size(reqs)
BY DEF layoutVars, List, Slots, BlocksOf, SizeFor

LEMMA LaidKept ==
  ASSUME AllocatorInv, UNCHANGED layoutVars
  PROVE  Laid'
BY DEF AllocatorInv, Laid, layoutVars

\* What a step leaves where it was.
StackKept(k) ==
  /\ Filling(k)' = Filling(k)
  /\ \A a \in Filling(k) : memory'[a] = memory[a]
CarriersKept(k) ==
  /\ Carriers(k)' = Carriers(k)
  /\ \A t \in Carriers(k) : block'[t] = block[t]

\* What a step leaves alone stays in its one place.
LEMMA PlacesKept ==
  ASSUME UNCHANGED layoutVars, NEW k \in List, OncePlaced(k),
         StackKept(k), CarriersKept(k), Lent(k)' = Lent(k)
  PROVE  OncePlaced(k)'
<1>1. BlocksOf(k)' = BlocksOf(k)
  BY LayoutFixed
<1>2. Stacked(k)' = Stacked(k)
  BY DEF StackKept, Stacked
<1>3. Carried(k)' = Carried(k)
  BY DEF CarriersKept, Carried
<1>4. LentAt(k)' = LentAt(k)
  BY DEF LentAt
<1>5. \A a, b \in Filling(k)' : memory'[a] = memory'[b] => a = b
  BY DEF OncePlaced, StackKept
<1>6. /\ \A t \in Carriers(k)' : block'[t] \in BlocksOf(k) \ Stacked(k)
      /\ \A t, u \in Carriers(k)' : block'[t] = block'[u] => t = u
  BY DEF OncePlaced, CarriersKept
<1> QED
  BY <1>1, <1>2, <1>3, <1>4, <1>5, <1>6 DEF OncePlaced

LEMMA GrantKept ==
  ASSUME UNCHANGED layoutVars, NEW k, Granted(k), Lent(k)' = Lent(k), Busy(k)' = Busy(k)
  PROVE  Granted(k)'
<1>1. InUse(k) = Cardinality(Lent(k)) + Cardinality(Busy(k))
  BY DEF InUse, Lent, Busy
<1>2. InUse(k)' = Cardinality(Lent(k)') + Cardinality(Busy(k)')
  BY DEF InUse, Lent, Busy
<1> QED
  BY <1>1, <1>2, LayoutFixed DEF Granted

\* A step of t that changes nothing else of the calls than where t is.
LEMMA CallsKept ==
  ASSUME AllocatorInv, UNCHANGED <<layoutVars, list, bytes, held>>, NEW t \in Thread,
         pc[t] # "idle", NEW to, to # "idle", pc' = [pc EXCEPT ![t] = to]
  PROVE  /\ Calls'
         /\ \A k : Lent(k)' = Lent(k) /\ Busy(k)' = Busy(k)
         /\ \A k \in List : Granted(k)'
<1>1. pc \in [Thread -> {"idle", "pop", "load", "raise", "popped", "push", "lower", "store", "pushed"}]
  BY DEF AllocatorInv, Typed
<1>2. \A u \in Thread : pc'[u] # "idle" <=> pc[u] # "idle"
  BY <1>1
<1>3. /\ list' = list /\ bytes' = bytes /\ held' = held
      /\ \A b : SizeFor(b)' = SizeFor(b)
      /\ max_block_size(reqs)' = max_block_size(reqs)
  BY LayoutFixed
<1>4. Calls'
  BY <1>2, <1>3 DEF AllocatorInv, Calls
<1>5. \A k : Lent(k)' = Lent(k) /\ Busy(k)' = Busy(k)
  BY <1>2, <1>3 DEF Lent, Busy
<1>6. \A k \in List : Granted(k)'
  BY <1>5, GrantKept DEF AllocatorInv
<1> QED
  BY <1>4, <1>5, <1>6

\* A step of t within the lock.
LEMMA LockKept ==
  ASSUME AllocatorInv, UNCHANGED <<layoutVars, list, lock>>, NEW t \in Thread,
         pc[t] \in {"load", "raise", "popped", "lower", "store", "pushed"},
         NEW to \in {"load", "raise", "popped", "lower", "store", "pushed"},
         pc' = [pc EXCEPT ![t] = to]
  PROVE  Locked' /\ \A u \in Thread : u # t /\ list[u] = list[t] => u \notin Within(list[t])
<1>1. pc \in [Thread -> {"idle", "pop", "load", "raise", "popped", "push", "lower", "store", "pushed"}]
  BY DEF AllocatorInv, Typed
<1>2. \A k : Within(k)' = Within(k)
  BY <1>1 DEF Within
<1>3. List' = List /\ lock' = lock /\ Locked
  <2>1. Locked
    BY DEF AllocatorInv
  <2> QED
    BY <2>1, LayoutFixed
<1>4. Locked'
  BY <1>2, <1>3 DEF Locked
<1>5. list[t] \in List /\ t \in Within(list[t])
  BY AtWork DEF Within
<1> QED
  BY <1>3, <1>4, <1>5 DEF Locked

\* The steps that touch no stack, and leave no thread about to raise or to store.
LEMMA StacksKept ==
  ASSUME UNCHANGED <<layoutVars, memory, top>>, NEW k,
         \A u \in Thread : list'[u] = k /\ pc'[u] = "store" <=> list[u] = k /\ pc[u] = "store"
  PROVE  StackKept(k)
<1>1. Storing(k)' <=> Storing(k)
  BY DEF Storing
<1>2. Slots(k)' = Slots(k)
  BY LayoutFixed
<1> QED
  BY <1>1, <1>2 DEF StackKept, Filling

LEMMA AcquireInv ==
  ASSUME AllocatorInv, NEW t \in Thread, NEW from, NEW to, Acquire(t, from, to),
         <<from, to>> \in {<<"pop", "load">>, <<"push", "lower">>}
  PROVE  AllocatorInv'
<1>1. /\ pc \in [Thread -> {"idle", "pop", "load", "raise", "popped", "push", "lower", "store", "pushed"}]
      /\ lock \in [List -> BOOLEAN]
  BY DEF AllocatorInv, Typed
<1>2. /\ pc[t] = from /\ pc' = [pc EXCEPT ![t] = to]
      /\ ~lock[list[t]] /\ lock' = [lock EXCEPT ![list[t]] = TRUE]
      /\ UNCHANGED <<layoutVars, memory, top, list, bytes, block, held>>
  BY DEF Acquire, Go, callVars
<1>3. pc[t] # "idle" /\ to # "idle" /\ list[t] \in List
  BY <1>2, AtWork
<1>4. Laid' /\ List' = List /\ \A k : Slots(k)' = Slots(k) /\ BlocksOf(k)' = BlocksOf(k)
  <2>1. Laid'
    BY <1>2, LaidKept
  <2> QED
    BY <1>2, <2>1, LayoutFixed
<1>5. \A u \in Thread : u # t => pc'[u] = pc[u]
  BY <1>1, <1>2
<1>6. pc'[t] = to
  BY <1>1, <1>2
<1>7. Typed'
  <2>1. pc' \in [Thread -> {"idle", "pop", "load", "raise", "popped", "push", "lower", "store", "pushed"}]
    BY <1>1, <1>2
  <2>2. lock' \in [List -> BOOLEAN]
    BY <1>1, <1>2
  <2> QED
    BY <1>2, <1>4, <2>1, <2>2 DEF AllocatorInv, Typed, layoutVars
<1>8. Calls' /\ (\A k : Lent(k)' = Lent(k)) /\ \A k \in List : Granted(k)'
  BY <1>2, <1>3, CallsKept
<1>9. Locked'
  <2>1. Within(list[t]) = {}
    BY <1>2, <1>3 DEF AllocatorInv, Locked
  <2>2. \A k : k # list[t] => Within(k)' = Within(k)
    BY <1>2, <1>5 DEF Within
  <2>3. \A k : k = list[t] => Within(k)' \subseteq {t}
    BY <1>2, <1>5, <2>1 DEF Within
  <2>4. lock'[list[t]] /\ \A k \in List : lock[k] => lock'[k]
    BY <1>1, <1>2, <1>3
  <2>5. Locked
    BY DEF AllocatorInv
  <2>6. ASSUME NEW k \in List
        PROVE  /\ \A u, v \in Within(k)' : u = v
               /\ Within(k)' # {} => lock'[k]
    <3>1. CASE k = list[t]
      BY <2>3, <2>4, <3>1
    <3>2. CASE k # list[t]
      BY <2>2, <2>4, <2>5, <3>2 DEF Locked
    <3> QED
      BY <3>1, <3>2
  <2> QED
    BY <1>4, <2>6 DEF Locked
<1>10. Reading'
  <2>1. \A u \in Thread : pc'[u] \in {"raise", "store"} => u # t
    BY <1>6
  <2> QED
    BY <1>2, <1>4, <1>5, <2>1 DEF AllocatorInv, Reading
<1>11. ASSUME NEW k \in List
       PROVE  OncePlaced(k)'
  <2>1. \A u \in Thread : pc'[u] = "store" <=> pc[u] = "store"
    BY <1>2, <1>5, <1>6
  <2>2. StackKept(k)
    BY <1>2, <2>1, StacksKept
  <2>3. Carriers(k)' = Carriers(k)
    BY <1>2, <1>5, <1>6 DEF Carriers
  <2>4. CarriersKept(k)
    BY <1>2, <2>3 DEF CarriersKept
  <2> QED
    BY <1>2, <1>8, <2>2, <2>4, PlacesKept DEF AllocatorInv
<1> QED
  BY <1>4, <1>7, <1>8, <1>9, <1>10, <1>11 DEF AllocatorInv

LEMMA LoadInv ==
  ASSUME AllocatorInv, NEW t \in Thread, Load(t)
  PROVE  AllocatorInv'
<1>1. /\ pc \in [Thread -> {"idle", "pop", "load", "raise", "popped", "push", "lower", "store", "pushed"}]
      /\ block \in [Thread -> Nat] /\ DOMAIN memory = UNION {Slots(k) : k \in List}
  BY DEF AllocatorInv, Typed
<1>2. /\ pc[t] = "load" /\ pc' = [pc EXCEPT ![t] = "raise"]
      /\ UNCHANGED <<layoutVars, memory, top, lock, list, bytes, held>>
  BY DEF Load, Go
<1>3. list[t] \in List /\ top[list[t]] \in Slots(list[t])
  BY <1>2, AtWork, NotEmpty
<1>4. block' = [block EXCEPT ![t] = memory[top[list[t]]]]
  BY <1>1, <1>3 DEF Load
<1>5. Laid' /\ List' = List /\ \A k : Slots(k)' = Slots(k) /\ BlocksOf(k)' = BlocksOf(k)
  <2>1. Laid'
    BY <1>2, LaidKept
  <2> QED
    BY <1>2, <2>1, LayoutFixed
<1>6. \A u \in Thread : u # t => pc'[u] = pc[u] /\ block'[u] = block[u]
  BY <1>1, <1>2, <1>4
<1>7. pc'[t] = "raise" /\ block'[t] = memory[top[list[t]]]
  BY <1>1, <1>2, <1>4
<1>8. Typed'
  <2>1. pc' \in [Thread -> {"idle", "pop", "load", "raise", "popped", "push", "lower", "store", "pushed"}]
    BY <1>1, <1>2
  <2>2. memory[top[list[t]]] \in BlocksOf(list[t])
    BY <1>3 DEF AllocatorInv, Typed
  <2>3. memory[top[list[t]]] \in Nat
    BY <1>3, <2>2, BlockPlaces DEF AllocatorInv
  <2>4. block' \in [Thread -> Nat]
    BY <1>1, <1>4, <2>3
  <2> QED
    BY <1>2, <1>5, <2>1, <2>4 DEF AllocatorInv, Typed, layoutVars
<1>9. Calls' /\ (\A k : Lent(k)' = Lent(k)) /\ \A k \in List : Granted(k)'
  BY <1>2, CallsKept
<1>10. Locked'
  BY <1>2, LockKept
<1>11. Reading'
  BY <1>2, <1>3, <1>5, <1>6, <1>7 DEF AllocatorInv, Reading
<1>12. ASSUME NEW k \in List
       PROVE  OncePlaced(k)'
  <2>1. \A u \in Thread : pc'[u] = "store" <=> pc[u] = "store"
    BY <1>2, <1>6, <1>7
  <2>2. StackKept(k)
    BY <1>2, <2>1, StacksKept
  <2>3. Carriers(k)' = Carriers(k) /\ t \notin Carriers(k)
    BY <1>2, <1>6, <1>7 DEF Carriers
  <2>4. CarriersKept(k)
    BY <1>6, <2>3 DEF CarriersKept, Carriers
  <2> QED
    BY <1>2, <1>9, <2>2, <2>4, PlacesKept DEF AllocatorInv
<1> QED
  BY <1>5, <1>8, <1>9, <1>10, <1>11, <1>12 DEF AllocatorInv

\* While t is within, it alone is, and another is not about to store.
LEMMA Alone ==
  ASSUME AllocatorInv, NEW t \in Thread,
         pc[t] \in {"load", "raise", "popped", "lower", "store", "pushed"}
  PROVE  /\ list[t] \in List
         /\ \A u \in Thread : u # t /\ list[u] = list[t] =>
               pc[u] \notin {"load", "raise", "popped", "lower", "store", "pushed"}
<1>1. list[t] \in List /\ t \in Within(list[t])
  BY AtWork DEF Within
<1>2. Locked
  BY DEF AllocatorInv
<1> QED
  BY <1>1, <1>2 DEF Locked, Within

LEMMA RaiseInv ==
  ASSUME AllocatorInv, NEW t \in Thread, Raise(t)
  PROVE  AllocatorInv'
<1>1. /\ pc \in [Thread -> {"idle", "pop", "load", "raise", "popped", "push", "lower", "store", "pushed"}]
      /\ DOMAIN top = List
  BY DEF AllocatorInv, Typed
<1>2. /\ pc[t] = "raise" /\ pc' = [pc EXCEPT ![t] = "popped"]
      /\ top' = [top EXCEPT ![list[t]] = top[list[t]] + PointerSize]
      /\ UNCHANGED <<layoutVars, memory, lock, list, bytes, block, held>>
  BY DEF Raise, Go, callVars
<1>3. /\ list[t] \in List /\ top[list[t]] \in Slots(list[t])
      /\ block[t] = memory[top[list[t]]]
  BY <1>2, AtWork DEF AllocatorInv, Reading
<1>4. \A u \in Thread : u # t /\ list[u] = list[t] =>
         pc[u] \notin {"load", "raise", "popped", "lower", "store", "pushed"}
  BY <1>2, Alone
<1>5. Laid' /\ List' = List /\ \A k : Slots(k)' = Slots(k) /\ BlocksOf(k)' = BlocksOf(k)
  <2>1. Laid'
    BY <1>2, LaidKept
  <2> QED
    BY <1>2, <2>1, LayoutFixed
<1>6. pc'[t] = "popped" /\ \A u \in Thread : u # t => pc'[u] = pc[u]
  BY <1>1, <1>2
<1>7. \A k \in List : top'[k] = IF k = list[t] THEN top[k] + PointerSize ELSE top[k]
  BY <1>1, <1>2
<1>8. Laid
  BY DEF AllocatorInv
<1>9. Typed'
  <2>1. pc' \in [Thread -> {"idle", "pop", "load", "raise", "popped", "push", "lower", "store", "pushed"}]
    BY <1>1, <1>2
  <2>2. DOMAIN top' = List
    BY <1>1, <1>2
  <2>3. \A k \in List : top'[k] \in Slots(k) \cup {base[k]}
    BY <1>3, <1>7, <1>8, SlotPlaces DEF AllocatorInv, Typed
  <2> QED
    BY <1>2, <1>5, <2>1, <2>2, <2>3 DEF AllocatorInv, Typed, layoutVars
<1>10. Calls' /\ (\A k : Lent(k)' = Lent(k)) /\ \A k \in List : Granted(k)'
  BY <1>2, CallsKept
<1>11. Locked'
  BY <1>2, LockKept
<1>12. Reading'
  <2>1. ASSUME NEW u \in Thread, pc'[u] \in {"raise", "store"}
        PROVE  u # t /\ pc[u] = pc'[u] /\ list[u] \in List /\ list[u] # list[t] /\ top'[list[u]] = top[list[u]]
    <3>1. u # t /\ pc[u] = pc'[u]
      BY <1>6, <2>1
    <3>2. list[u] # list[t]
      BY <1>4, <2>1, <3>1
    <3>3. list[u] \in List
      BY <2>1, <3>1, AtWork
    <3> QED
      BY <1>7, <3>1, <3>2, <3>3
  <2> QED
    BY <1>2, <1>5, <2>1 DEF AllocatorInv, Reading
<1>13. ASSUME NEW k \in List
       PROVE  OncePlaced(k)'
  <2>1. \A u \in Thread : pc'[u] = "store" <=> pc[u] = "store"
    BY <1>2, <1>6
  <2>2. Storing(k)' <=> Storing(k)
    BY <1>2, <2>1 DEF Storing
  <2>3. OncePlaced(k)
    BY DEF AllocatorInv
  <2>4. CASE k # list[t]
    <3>1. StackKept(k)
      BY <1>2, <1>5, <1>7, <2>2, <2>4 DEF StackKept, Filling
    <3>2. CarriersKept(k)
      BY <1>2, <1>6, <2>4 DEF CarriersKept, Carriers
    <3> QED
      BY <1>2, <1>10, <2>3, <3>1, <3>2, PlacesKept
  <2>5. CASE k = list[t]
    <3>1. ~Storing(k)
      BY <1>2, <1>4, <2>5 DEF Storing
    <3>2. top[k] \in Slots(k) /\ block[t] = memory[top[k]] /\ top'[k] = top[k] + PointerSize
      BY <1>3, <1>7, <2>5
    <3>3. \A a \in Slots(k) : a >= top[k] + PointerSize <=> a >= top[k] /\ a # top[k]
      <4>1. \A a \in Slots(k) : a \in Nat /\ (top[k] < a => top[k] + PointerSize <= a)
        BY <1>8, <3>2, SlotPlaces
      <4>2. PointerSize \in Nat \ {0}
        BY <1>8, Plan
      <4> QED
        BY <3>2, <4>1, <4>2
    <3>4. Filling(k)' = Filling(k) \ {top[k]} /\ top[k] \in Filling(k)
      <4>1. top[k] \in Nat
        BY <1>8, <3>2, SlotPlaces
      <4>2. Filling(k) = {a \in Slots(k) : a >= top[k]}
        BY <3>1 DEF Filling
      <4>3. Filling(k)' = {a \in Slots(k) : a >= top[k] + PointerSize}
        BY <1>5, <2>2, <3>1, <3>2 DEF Filling
      <4> QED
        BY <3>2, <3>3, <4>1, <4>2, <4>3
    <3>5. Carriers(k)' = Carriers(k) \cup {t}
      BY <1>2, <1>6, <2>5 DEF Carriers
    <3>6. memory' = memory /\ block' = block /\ LentAt(k)' = LentAt(k)
      BY <1>2, <1>10 DEF LentAt
    <3>7. Stacked(k)' \cup {block[t]} = Stacked(k) /\ block[t] \notin Stacked(k)'
      BY <2>3, <3>2, <3>4, <3>6 DEF Stacked, OncePlaced
    <3>8. Carried(k)' = Carried(k) \cup {block[t]}
      BY <3>5, <3>6 DEF Carried
    <3>9. block[t] \in BlocksOf(k)
      BY <3>2 DEF AllocatorInv, Typed
    <3>10. \A a, b \in Filling(k)' : memory'[a] = memory'[b] => a = b
      BY <2>3, <3>4, <3>6 DEF OncePlaced
    <3>11. \A u \in Carriers(k)' : block'[u] \in BlocksOf(k) \ Stacked(k)'
      BY <2>3, <3>5, <3>6, <3>7, <3>9 DEF OncePlaced
    <3>12. \A u, v \in Carriers(k)' : block'[u] = block'[v] => u = v
      BY <2>3, <3>5, <3>6, <3>7 DEF OncePlaced
    <3>13. \A h \in Lent(k)' : h.at \in BlocksOf(k) \ (Stacked(k)' \cup Carried(k)')
      BY <1>10, <2>3, <3>7, <3>8 DEF OncePlaced
    <3>14. \A g, h \in Lent(k)' : g.at = h.at => g = h
      BY <1>10, <2>3 DEF OncePlaced
    <3>15. BlocksOf(k) \subseteq Stacked(k)' \cup Carried(k)' \cup LentAt(k)'
      BY <2>3, <3>6, <3>7, <3>8 DEF OncePlaced
    <3> QED
      BY <1>5, <3>10, <3>11, <3>12, <3>13, <3>14, <3>15 DEF OncePlaced
  <2> QED
    BY <2>4, <2>5
<1> QED
  BY <1>5, <1>9, <1>10, <1>11, <1>12, <1>13 DEF AllocatorInv

LEMMA LowerInv ==
  ASSUME AllocatorInv, NEW t \in Thread, Lower(t)
  PROVE  AllocatorInv'
<1>1. /\ pc \in [Thread -> {"idle", "pop", "load", "raise", "popped", "push", "lower", "store", "pushed"}]
      /\ DOMAIN top = List
  BY DEF AllocatorInv, Typed
<1>2. /\ pc[t] = "lower" /\ pc' = [pc EXCEPT ![t] = "store"]
      /\ top' = [top EXCEPT ![list[t]] = top[list[t]] - PointerSize]
      /\ UNCHANGED <<layoutVars, memory, lock, list, bytes, block, held>>
  BY DEF Lower, Go, callVars
<1>3. Laid
  BY DEF AllocatorInv
<1>4. /\ list[t] \in List /\ top[list[t]] - PointerSize \in Slots(list[t])
  <2>1. list[t] \in List /\ top[list[t]] # StackAt(reqs, list[t])
    BY <1>2, AtWork, NotFull
  <2>2. top[list[t]] \in Slots(list[t]) \cup {base[list[t]]}
    BY <2>1 DEF AllocatorInv, Typed
  <2> QED
    BY <1>3, <2>1, <2>2, SlotPlaces
<1>5. \A u \in Thread : u # t /\ list[u] = list[t] =>
         pc[u] \notin {"load", "raise", "popped", "lower", "store", "pushed"}
  BY <1>2, Alone
<1>6. Laid' /\ List' = List /\ \A k : Slots(k)' = Slots(k) /\ BlocksOf(k)' = BlocksOf(k)
  <2>1. Laid'
    BY <1>2, LaidKept
  <2> QED
    BY <1>2, <2>1, LayoutFixed
<1>7. pc'[t] = "store" /\ \A u \in Thread : u # t => pc'[u] = pc[u]
  BY <1>1, <1>2
<1>8. \A k \in List : top'[k] = IF k = list[t] THEN top[k] - PointerSize ELSE top[k]
  BY <1>1, <1>2
<1>9. Typed'
  <2>1. pc' \in [Thread -> {"idle", "pop", "load", "raise", "popped", "push", "lower", "store", "pushed"}]
    BY <1>1, <1>2
  <2>2. DOMAIN top' = List
    BY <1>1, <1>2
  <2>3. \A k \in List : top'[k] \in Slots(k) \cup {base[k]}
    BY <1>4, <1>8 DEF AllocatorInv, Typed
  <2> QED
    BY <1>2, <1>6, <2>1, <2>2, <2>3 DEF AllocatorInv, Typed, layoutVars
<1>10. Calls' /\ (\A k : Lent(k)' = Lent(k)) /\ \A k \in List : Granted(k)'
  BY <1>2, CallsKept
<1>11. Locked'
  BY <1>2, LockKept
<1>12. Reading'
  <2>1. ASSUME NEW u \in Thread, u # t, pc'[u] \in {"raise", "store"}
        PROVE  pc[u] = pc'[u] /\ list[u] \in List /\ list[u] # list[t] /\ top'[list[u]] = top[list[u]]
    <3>1. pc[u] = pc'[u]
      BY <1>7, <2>1
    <3>2. list[u] # list[t]
      BY <1>5, <2>1, <3>1
    <3>3. list[u] \in List
      BY <2>1, <3>1, AtWork
    <3> QED
      BY <1>8, <3>1, <3>2, <3>3
  <2>2. top'[list[t]] \in Slots(list[t])
    BY <1>4, <1>8
  <2>3. \A u \in Thread : pc'[u] = "raise" =>
           /\ top'[list'[u]] \in Slots(list[u])'
           /\ block'[u] = memory'[top'[list'[u]]]
    BY <1>2, <1>6, <1>7, <2>1 DEF AllocatorInv, Reading
  <2>4. \A u \in Thread : pc'[u] = "store" => top'[list'[u]] \in Slots(list[u])'
    BY <1>2, <1>6, <2>1, <2>2 DEF AllocatorInv, Reading
  <2> QED
    BY <2>3, <2>4 DEF Reading
<1>13. ASSUME NEW k \in List
       PROVE  OncePlaced(k)'
  <2>1. OncePlaced(k)
    BY DEF AllocatorInv
  <2>2. Carriers(k)' = Carriers(k)
    BY <1>2, <1>7 DEF Carriers
  <2>3. CarriersKept(k)
    BY <1>2, <2>2 DEF CarriersKept
  <2>4. CASE k # list[t]
    <3>1. Storing(k)' <=> Storing(k)
      BY <1>2, <1>7, <2>4 DEF Storing
    <3>2. StackKept(k)
      BY <1>2, <1>6, <1>8, <2>4, <3>1 DEF StackKept, Filling
    <3> QED
      BY <1>2, <1>10, <2>1, <2>3, <3>2, PlacesKept
  <2>5. CASE k = list[t]
    <3>1. ~Storing(k)
      BY <1>2, <1>5, <2>5 DEF Storing
    <3>2. Storing(k)'
      BY <1>2, <1>7, <2>5 DEF Storing
    <3>3. top[k] - PointerSize \in Slots(k) /\ top'[k] = top[k] - PointerSize
      BY <1>4, <1>8, <2>5
    <3>4. \A a \in Slots(k) : a >= top[k] <=> a >= top[k] - PointerSize /\ a # top[k] - PointerSize
      <4>1. \A a \in Slots(k) : a \in Nat /\ (top[k] - PointerSize < a => (top[k] - PointerSize) + PointerSize <= a)
        BY <1>3, <3>3, SlotPlaces
      <4>2. PointerSize \in Nat \ {0} /\ base[k] \in Nat
        BY <1>3, Plan
      <4>3. top[k] \in Nat
        BY <1>3, <4>1, <4>2 DEF AllocatorInv, Typed
      <4> QED
        BY <4>1, <4>2, <4>3
    <3>5. Filling(k)' = Filling(k)
      <4>1. Filling(k) = {a \in Slots(k) : a >= top[k]}
        BY <3>1 DEF Filling
      <4>2. Filling(k)' = {a \in Slots(k) : a >= top[k] - PointerSize /\ a # top[k] - PointerSize}
        BY <1>6, <3>2, <3>3 DEF Filling
      <4> QED
        BY <3>4, <4>1, <4>2
    <3>6. StackKept(k)
      BY <1>2, <3>5 DEF StackKept
    <3> QED
      BY <1>2, <1>10, <2>1, <2>3, <3>6, PlacesKept
  <2> QED
    BY <2>4, <2>5
<1> QED
  BY <1>6, <1>9, <1>10, <1>11, <1>12, <1>13 DEF AllocatorInv

LEMMA StoreInv ==
  ASSUME AllocatorInv, NEW t \in Thread, Store(t)
  PROVE  AllocatorInv'
<1>1. /\ pc \in [Thread -> {"idle", "pop", "load", "raise", "popped", "push", "lower", "store", "pushed"}]
      /\ DOMAIN memory = UNION {Slots(k) : k \in List}
  BY DEF AllocatorInv, Typed
<1>2. /\ pc[t] = "store" /\ pc' = [pc EXCEPT ![t] = "pushed"]
      /\ memory' = [memory EXCEPT ![top[list[t]]] = block[t]]
      /\ UNCHANGED <<layoutVars, top, lock, list, bytes, block, held>>
  BY DEF Store, Go, callVars
<1>3. Laid
  BY DEF AllocatorInv
<1>4. list[t] \in List /\ top[list[t]] \in Slots(list[t])
  BY <1>2, AtWork DEF AllocatorInv, Reading
<1>5. \A u \in Thread : u # t /\ list[u] = list[t] =>
         pc[u] \notin {"load", "raise", "popped", "lower", "store", "pushed"}
  BY <1>2, Alone
<1>6. Laid' /\ List' = List /\ \A k : Slots(k)' = Slots(k) /\ BlocksOf(k)' = BlocksOf(k)
  <2>1. Laid'
    BY <1>2, LaidKept
  <2> QED
    BY <1>2, <2>1, LayoutFixed
<1>7. pc'[t] = "pushed" /\ \A u \in Thread : u # t => pc'[u] = pc[u]
  BY <1>1, <1>2
<1>8. /\ \A k \in List : \A a \in Slots(k) : k # list[t] => memory'[a] = memory[a]
      /\ \A a \in Slots(list[t]) : memory'[a] = IF a = top[list[t]] THEN block[t] ELSE memory[a]
  <2>1. \A k \in List : \A a \in Slots(k) : a \in DOMAIN memory
    BY <1>1
  <2>2. \A k \in List : k # list[t] => top[list[t]] \notin Slots(k)
    BY <1>3, <1>4, Apart
  <2> QED
    BY <1>2, <1>4, <2>1, <2>2
<1>9. block[t] \in BlocksOf(list[t])
  <2>1. t \in Carriers(list[t]) /\ OncePlaced(list[t])
    BY <1>2, <1>4 DEF Carriers, AllocatorInv
  <2> QED
    BY <2>1 DEF OncePlaced
<1>10. Typed'
  <2>1. pc' \in [Thread -> {"idle", "pop", "load", "raise", "popped", "push", "lower", "store", "pushed"}]
    BY <1>1, <1>2
  <2>2. DOMAIN memory' = UNION {Slots(k) : k \in List}
    BY <1>1, <1>2
  <2>3. \A k \in List : \A a \in Slots(k) : memory'[a] \in BlocksOf(k)
    BY <1>8, <1>9 DEF AllocatorInv, Typed
  <2>4. memory' = [a \in DOMAIN memory' |-> memory'[a]]
    BY <1>2
  <2> QED
    BY <1>2, <1>6, <2>1, <2>2, <2>3, <2>4 DEF AllocatorInv, Typed, layoutVars
<1>11. Calls' /\ (\A k : Lent(k)' = Lent(k)) /\ \A k \in List : Granted(k)'
  BY <1>2, CallsKept
<1>12. Locked'
  BY <1>2, LockKept
<1>13. Reading'
  <2>1. ASSUME NEW u \in Thread, pc'[u] \in {"raise", "store"}
        PROVE  u # t /\ pc[u] = pc'[u] /\ list[u] \in List /\ list[u] # list[t]
    <3>1. u # t /\ pc[u] = pc'[u]
      BY <1>7, <2>1
    <3>2. list[u] # list[t]
      BY <1>5, <2>1, <3>1
    <3>3. list[u] \in List
      BY <2>1, <3>1, AtWork
    <3> QED
      BY <3>1, <3>2, <3>3
  <2> QED
    BY <1>2, <1>6, <1>8, <2>1 DEF AllocatorInv, Reading
<1>14. ASSUME NEW k \in List
       PROVE  OncePlaced(k)'
  <2>1. OncePlaced(k)
    BY DEF AllocatorInv
  <2>2. CASE k # list[t]
    <3>1. Storing(k)' <=> Storing(k)
      BY <1>2, <1>7, <2>2 DEF Storing
    <3>2. StackKept(k)
      BY <1>2, <1>6, <1>8, <2>2, <3>1 DEF StackKept, Filling
    <3>3. CarriersKept(k)
      BY <1>2, <1>7, <2>2 DEF CarriersKept, Carriers
    <3> QED
      BY <1>2, <1>11, <2>1, <3>2, <3>3, PlacesKept
  <2>3. CASE k = list[t]
    <3>1. Storing(k)
      BY <1>2, <2>3 DEF Storing
    <3>2. ~Storing(k)'
      BY <1>2, <1>5, <1>7, <2>3 DEF Storing
    <3>3. top[k] \in Slots(k)
      BY <1>4, <2>3
    <3>4. \A a \in Slots(k) : memory'[a] = IF a = top[k] THEN block[t] ELSE memory[a]
      BY <1>8, <2>3
    <3>5. Filling(k)' = Filling(k) \cup {top[k]} /\ top[k] \notin Filling(k)
          /\ Filling(k) \subseteq Slots(k)
      <4>1. top[k] \in Nat
        BY <1>3, <3>3, SlotPlaces
      <4>2. Filling(k) = {a \in Slots(k) : a >= top[k] /\ a # top[k]}
        BY <3>1 DEF Filling
      <4>3. Filling(k)' = {a \in Slots(k) : a >= top[k]}
        BY <1>2, <1>6, <3>2 DEF Filling
      <4> QED
        BY <3>3, <4>1, <4>2, <4>3
    <3>6. Carriers(k)' = Carriers(k) \ {t} /\ t \in Carriers(k)
      BY <1>2, <1>7, <2>3 DEF Carriers
    <3>7. block' = block /\ LentAt(k)' = LentAt(k)
      BY <1>2, <1>11 DEF LentAt
    <3>8. Stacked(k)' = Stacked(k) \cup {block[t]} /\ block[t] \notin Stacked(k)
      BY <2>1, <3>3, <3>4, <3>5, <3>6 DEF Stacked, OncePlaced
    <3>9. Carried(k)' \cup {block[t]} = Carried(k) /\ block[t] \notin Carried(k)'
      BY <2>1, <3>6, <3>7 DEF Carried, OncePlaced
    <3>10. \A a, b \in Filling(k)' : memory'[a] = memory'[b] => a = b
      <4>1. \A a \in Filling(k) : memory'[a] = memory[a] /\ memory[a] \in Stacked(k)
        BY <3>4, <3>5 DEF Stacked
      <4>2. memory'[top[k]] = block[t]
        BY <3>3, <3>4
      <4> QED
        BY <2>1, <3>5, <3>8, <4>1, <4>2 DEF OncePlaced
    <3>11. \A u \in Carriers(k)' : block'[u] \in BlocksOf(k) \ Stacked(k)'
      BY <2>1, <3>6, <3>7, <3>8 DEF OncePlaced
    <3>12. \A u, v \in Carriers(k)' : block'[u] = block'[v] => u = v
      BY <2>1, <3>6, <3>7 DEF OncePlaced
    <3>13. \A h \in Lent(k)' : h.at \in BlocksOf(k) \ (Stacked(k)' \cup Carried(k)')
      BY <1>11, <2>1, <3>8, <3>9 DEF OncePlaced
    <3>14. \A g, h \in Lent(k)' : g.at = h.at => g = h
      BY <1>11, <2>1 DEF OncePlaced
    <3>15. BlocksOf(k) \subseteq Stacked(k)' \cup Carried(k)' \cup LentAt(k)'
      BY <2>1, <3>7, <3>8, <3>9 DEF OncePlaced
    <3> QED
      BY <1>6, <3>10, <3>11, <3>12, <3>13, <3>14, <3>15 DEF OncePlaced
  <2> QED
    BY <2>2, <2>3
<1> QED
  BY <1>6, <1>10, <1>11, <1>12, <1>13, <1>14 DEF AllocatorInv

\* What the unlock of a call that is through does to all but the clients.
LEMMA Unlocked ==
  ASSUME AllocatorInv, NEW t \in Thread, NEW from \in {"popped", "pushed"},
         Go(t, from, "idle"), Unlock(t)
  PROVE  /\ Laid' /\ Typed' /\ Locked' /\ Reading' /\ List' = List
         /\ \A u \in Thread : u # t => pc'[u] = pc[u] /\ list'[u] = list[u]
                                       /\ bytes'[u] = bytes[u] /\ block'[u] = block[u]
         /\ pc[t] = from /\ pc'[t] = "idle"
         /\ \A k \in List : /\ StackKept(k)
                            /\ Carriers(k)' = Carriers(k) \ {t}
                            /\ Busy(k)' = Busy(k) \ {t}
<1>1. /\ pc \in [Thread -> {"idle", "pop", "load", "raise", "popped", "push", "lower", "store", "pushed"}]
      /\ lock \in [List -> BOOLEAN]
      /\ list \in [Thread -> List \cup {0}] /\ bytes \in [Thread -> Bytes \cup {0}]
      /\ block \in [Thread -> Nat]
  BY DEF AllocatorInv, Typed
<1>2. /\ pc[t] = from /\ pc' = [pc EXCEPT ![t] = "idle"]
      /\ lock' = [lock EXCEPT ![list[t]] = FALSE]
      /\ list' = [list EXCEPT ![t] = 0] /\ bytes' = [bytes EXCEPT ![t] = 0]
      /\ block' = [block EXCEPT ![t] = 0]
      /\ UNCHANGED <<layoutVars, memory, top>>
  BY DEF Go, Unlock
<1>3. /\ Laid' /\ List' = List /\ (\A k : Slots(k)' = Slots(k) /\ BlocksOf(k)' = BlocksOf(k))
      /\ \A b : SizeFor(b)' = SizeFor(b)
  <2>1. Laid'
    BY <1>2, LaidKept
  <2> QED
    BY <1>2, <2>1, LayoutFixed
<1>4. \A u \in Thread : u # t => pc'[u] = pc[u] /\ list'[u] = list[u]
                                 /\ bytes'[u] = bytes[u] /\ block'[u] = block[u]
  BY <1>1, <1>2
<1>5. pc'[t] = "idle" /\ list'[t] = 0
  BY <1>1, <1>2
<1>6. \A u \in Thread : u # t /\ list[u] = list[t] =>
         pc[u] \notin {"load", "raise", "popped", "lower", "store", "pushed"}
  BY <1>2, Alone
<1>7. list[t] \in List
  BY <1>2, AtWork
<1>8. Typed'
  <2>1. pc' \in [Thread -> {"idle", "pop", "load", "raise", "popped", "push", "lower", "store", "pushed"}]
    BY <1>1, <1>2
  <2>2. lock' \in [List -> BOOLEAN]
    BY <1>1, <1>2
  <2>3. /\ list' \in [Thread -> List \cup {0}] /\ bytes' \in [Thread -> Bytes \cup {0}]
        /\ block' \in [Thread -> Nat]
    BY <1>1, <1>2
  <2> QED
    BY <1>2, <1>3, <2>1, <2>2, <2>3 DEF AllocatorInv, Typed, layoutVars
<1>9. Locked'
  <2>1. ASSUME NEW k \in List
        PROVE  /\ \A u, v \in Within(k)' : u = v
               /\ Within(k)' # {} => lock'[k]
    <3>1. Within(k)' \subseteq Within(k) \ {t}
      BY <1>4, <1>5 DEF Within
    <3>2. /\ \A u, v \in Within(k) : u = v
          /\ Within(k) # {} => lock[k]
      BY DEF AllocatorInv, Locked
    <3>3. k = list[t] => Within(k)' = {}
      BY <1>6, <3>1 DEF Within
    <3>4. k # list[t] => lock'[k] = lock[k]
      BY <1>1, <1>2
    <3> QED
      BY <3>1, <3>2, <3>3, <3>4
  <2> QED
    BY <1>3, <2>1 DEF Locked
<1>10. Reading'
  <2>1. \A u \in Thread : pc'[u] \in {"raise", "store"} => u # t
    BY <1>5
  <2> QED
    BY <1>2, <1>3, <1>4, <2>1 DEF AllocatorInv, Reading
<1>11. ASSUME NEW k \in List
       PROVE  /\ StackKept(k)
              /\ Carriers(k)' = Carriers(k) \ {t}
              /\ Busy(k)' = Busy(k) \ {t}
  <2>1. \A u \in Thread : list'[u] = k /\ pc'[u] = "store" <=> list[u] = k /\ pc[u] = "store"
    BY <1>2, <1>4, <1>5
  <2>2. StackKept(k)
    BY <1>2, <2>1, StacksKept
  <2>3. Carriers(k)' = Carriers(k) \ {t}
    BY <1>4, <1>5 DEF Carriers
  <2>4. Busy(k)' = Busy(k) \ {t}
    BY <1>3, <1>4, <1>5 DEF Busy
  <2> QED
    BY <2>2, <2>3, <2>4
<1> QED
  BY <1>2, <1>3, <1>4, <1>5, <1>8, <1>9, <1>10, <1>11

LEMMA ReturnNothingInv ==
  ASSUME AllocatorInv, NEW t \in Thread, ReturnNothing(t)
  PROVE  AllocatorInv'
<1>1. Go(t, "pushed", "idle") /\ Unlock(t) /\ held' = held /\ UNCHANGED layoutVars
  BY DEF ReturnNothing, Unlock
<1>2. /\ Laid' /\ Typed' /\ Locked' /\ Reading' /\ List' = List
      /\ \A u \in Thread : u # t => pc'[u] = pc[u] /\ list'[u] = list[u]
                                    /\ bytes'[u] = bytes[u] /\ block'[u] = block[u]
      /\ pc[t] = "pushed" /\ pc'[t] = "idle"
      /\ \A k \in List : /\ StackKept(k)
                         /\ Carriers(k)' = Carriers(k) \ {t}
                         /\ Busy(k)' = Busy(k) \ {t}
  BY <1>1, Unlocked
<1>3. \A b : SizeFor(b)' = SizeFor(b)
  BY <1>1, LayoutFixed
<1>4. max_block_size(reqs)' = max_block_size(reqs)
  BY <1>1, LayoutFixed
<1>5. Calls'
  BY <1>1, <1>2, <1>3, <1>4 DEF AllocatorInv, Calls
<1>6. ASSUME NEW k \in List
      PROVE  OncePlaced(k)' /\ Granted(k)'
  <2>1. Lent(k)' = Lent(k)
    BY <1>1, <1>3 DEF Lent
  <2>2. CarriersKept(k)
    BY <1>2 DEF CarriersKept, Carriers
  <2>3. OncePlaced(k)'
    BY <1>1, <1>2, <2>1, <2>2, PlacesKept DEF AllocatorInv
  <2>4. /\ InUse(k) = Cardinality(Lent(k)) + Cardinality(Busy(k)) /\ IsFiniteSet(Busy(k))
        /\ Cardinality(Lent(k)) \in Nat /\ Cardinality(Busy(k)) \in Nat
    BY Counted
  <2>5. InUse(k)' = Cardinality(Lent(k)) + Cardinality(Busy(k) \ {t})
    <3>1. InUse(k)' = Cardinality(Lent(k)') + Cardinality(Busy(k)')
      BY DEF InUse, Lent, Busy
    <3> QED
      BY <1>2, <2>1, <3>1
  <2>6. Cardinality(Busy(k) \ {t}) \in Nat /\ Cardinality(Busy(k) \ {t}) <= Cardinality(Busy(k))
    BY <2>4, FS_Subset, FS_CardinalityType
  <2>7. nblocks(reqs, k)' = nblocks(reqs, k) /\ nblocks(reqs, k) \in Nat
    BY <1>1, LayoutFixed, Plan DEF AllocatorInv
  <2>8. InUse(k) <= nblocks(reqs, k)
    BY DEF AllocatorInv, Granted
  <2> QED
    BY <2>3, <2>4, <2>5, <2>6, <2>7, <2>8 DEF Granted
<1> QED
  BY <1>2, <1>5, <1>6 DEF AllocatorInv

LEMMA ReturnBlockInv ==
  ASSUME AllocatorInv, NEW t \in Thread, ReturnBlock(t)
  PROVE  AllocatorInv'
<1> DEFINE loan == [at |-> block[t], bytes |-> bytes[t]]
<1>1. /\ Go(t, "popped", "idle") /\ Unlock(t) /\ UNCHANGED layoutVars
      /\ held' = held \cup {loan}
  BY DEF ReturnBlock, Unlock
<1>2. /\ Laid' /\ Typed' /\ Locked' /\ Reading' /\ List' = List
      /\ \A u \in Thread : u # t => pc'[u] = pc[u] /\ list'[u] = list[u]
                                    /\ bytes'[u] = bytes[u] /\ block'[u] = block[u]
      /\ pc[t] = "popped" /\ pc'[t] = "idle"
      /\ \A k \in List : /\ StackKept(k)
                         /\ Carriers(k)' = Carriers(k) \ {t}
                         /\ Busy(k)' = Busy(k) \ {t}
  BY <1>1, Unlocked
<1>3. /\ list[t] \in List /\ list[t] = SizeFor(bytes[t]) /\ bytes[t] \in Bytes
      /\ bytes[t] <= max_block_size(reqs) /\ block[t] \in Nat
  BY <1>2, AtWork DEF AllocatorInv, Typed
<1>4. /\ \A b : SizeFor(b)' = SizeFor(b)
      /\ max_block_size(reqs)' = max_block_size(reqs)
  BY <1>1, LayoutFixed
<1>5. Calls'
  <2>1. loan \in [at : Nat, bytes : Bytes] /\ loan.bytes <= max_block_size(reqs)
    BY <1>3
  <2>2. IsFiniteSet(held')
    BY <1>1, FS_AddElement DEF AllocatorInv, Calls
  <2> HIDE DEF loan
  <2>3. /\ held' \subseteq [at : Nat, bytes : Bytes]
        /\ \A h \in held' : h.bytes <= max_block_size(reqs)
    BY <1>1, <2>1 DEF AllocatorInv, Calls
  <2>4. \A u \in Thread : pc'[u] # "idle" => /\ bytes'[u] \in Bytes /\ bytes'[u] <= max_block_size(reqs)
                                             /\ list'[u] = SizeFor(bytes'[u])
    BY <1>2 DEF AllocatorInv, Calls
  <2>5. \A u \in Thread : SizeFor(bytes[u])' = SizeFor(bytes'[u])
    BY <1>1 DEF SizeFor, List, layoutVars
  <2> QED
    BY <1>4, <2>2, <2>3, <2>4, <2>5 DEF Calls
<1>6. ASSUME NEW k \in List
      PROVE  OncePlaced(k)' /\ Granted(k)'
  <2>1. OncePlaced(k) /\ InUse(k) <= nblocks(reqs, k)
    BY DEF AllocatorInv, Granted
  <2>2. /\ InUse(k) = Cardinality(Lent(k)) + Cardinality(Busy(k))
        /\ IsFiniteSet(Busy(k)) /\ IsFiniteSet(Lent(k))
        /\ Cardinality(Lent(k)) \in Nat /\ Cardinality(Busy(k)) \in Nat
    BY Counted
  <2>3. InUse(k)' = Cardinality(Lent(k)') + Cardinality(Busy(k)')
    BY DEF InUse, Lent, Busy
  <2>4. nblocks(reqs, k)' = nblocks(reqs, k)
    BY <1>1, LayoutFixed
  <2>5. CASE k # list[t]
    <3>1. Lent(k)' = Lent(k)
      BY <1>1, <1>3, <1>4, <2>5 DEF Lent
    <3>2. Busy(k)' = Busy(k)
      BY <1>2, <1>3, <2>5 DEF Busy
    <3>3. CarriersKept(k)
      BY <1>2, <2>5 DEF CarriersKept, Carriers
    <3> QED
      BY <1>1, <1>2, <2>1, <3>1, <3>2, <3>3, PlacesKept, GrantKept DEF Granted
  <2>6. CASE k = list[t]
    <3>1. Lent(k)' = Lent(k) \cup {loan}
      BY <1>1, <1>3, <1>4, <2>6 DEF Lent
    <3>2. t \in Carriers(k) /\ t \in Busy(k)
      BY <1>2, <1>3, <2>6 DEF Carriers, Busy
    <3>3. loan.at = block[t]
      OBVIOUS
    <3> HIDE DEF loan
    <3>4. /\ Carriers(k)' = Carriers(k) \ {t}
          /\ \A u \in Carriers(k)' : block'[u] = block[u]
      BY <1>2 DEF Carriers
    <3>5. Stacked(k)' = Stacked(k) /\ BlocksOf(k)' = BlocksOf(k)
      BY <1>1, <1>2, LayoutFixed DEF StackKept, Stacked
    <3>6. Carried(k)' \cup {block[t]} = Carried(k) /\ block[t] \notin Carried(k)'
      BY <2>1, <3>2, <3>4 DEF Carried, OncePlaced
    <3>7. LentAt(k)' = LentAt(k) \cup {block[t]}
      BY <3>1, <3>3 DEF LentAt
    <3>8. block[t] \notin LentAt(k) /\ block[t] \in BlocksOf(k) \ Stacked(k)
      BY <2>1, <3>2, <3>6 DEF LentAt, OncePlaced
    <3>9. \A a, b \in Filling(k)' : memory'[a] = memory'[b] => a = b
      BY <1>2, <2>1 DEF OncePlaced, StackKept
    <3>10. /\ \A u \in Carriers(k)' : block'[u] \in BlocksOf(k) \ Stacked(k)
           /\ \A u, v \in Carriers(k)' : block'[u] = block'[v] => u = v
      BY <2>1, <3>4 DEF OncePlaced
    <3>11. \A h \in Lent(k)' : h.at \in BlocksOf(k) \ (Stacked(k) \cup Carried(k)')
      BY <2>1, <3>1, <3>3, <3>6, <3>8 DEF OncePlaced
    <3>12. \A g, h \in Lent(k)' : g.at = h.at => g = h
      BY <2>1, <3>1, <3>3, <3>8 DEF OncePlaced, LentAt
    <3>13. BlocksOf(k) \subseteq Stacked(k) \cup Carried(k)' \cup LentAt(k)'
      BY <2>1, <3>6, <3>7 DEF OncePlaced
    <3>14. OncePlaced(k)'
      BY <3>5, <3>9, <3>10, <3>11, <3>12, <3>13 DEF OncePlaced
    <3>15. loan \notin Lent(k)
      BY <3>3, <3>8 DEF LentAt
    <3>16. Cardinality(Lent(k)') = Cardinality(Lent(k)) + 1
      BY <2>2, <3>1, <3>15, FS_AddElement
    <3>17. Cardinality(Busy(k)') = Cardinality(Busy(k)) - 1
      BY <1>2, <2>2, <3>2, FS_RemoveElement
    <3>18. Granted(k)'
      BY <2>1, <2>2, <2>3, <2>4, <3>16, <3>17 DEF Granted
    <3> QED
      BY <3>14, <3>18
  <2> QED
    BY <2>5, <2>6
<1> QED
  BY <1>2, <1>5, <1>6 DEF AllocatorInv

\* What a call that starts changes of all but the clients: thread t goes from idle
\* to the first step of pop or of push, at the list for its request.
Start(t, to, b, c) ==
  /\ pc[t] = "idle" /\ pc' = [pc EXCEPT ![t] = to]
  /\ list' = [list EXCEPT ![t] = freelist_pointers[calblocksize(b)]]
  /\ bytes' = [bytes EXCEPT ![t] = b] /\ block' = [block EXCEPT ![t] = c]
  /\ UNCHANGED <<layoutVars, memory, top, lock>>

LEMMA Started ==
  ASSUME AllocatorInv, NEW t \in Thread, NEW to \in {"pop", "push"}, NEW b \in Bytes,
         b <= max_block_size(reqs), NEW c \in Nat, Start(t, to, b, c)
  PROVE  /\ Laid' /\ Typed' /\ Locked' /\ Reading' /\ List' = List
         /\ \A u \in Thread : u # t => pc'[u] = pc[u] /\ list'[u] = list[u]
                                       /\ bytes'[u] = bytes[u] /\ block'[u] = block[u]
         /\ pc'[t] = to /\ list'[t] = SizeFor(b) /\ bytes'[t] = b /\ block'[t] = c
         /\ SizeFor(b) \in List /\ b <= SizeFor(b)
         /\ \A k \in List : /\ StackKept(k)
                            /\ k # SizeFor(b) => Busy(k)' = Busy(k)
                            /\ k = SizeFor(b) => Busy(k)' = Busy(k) \cup {t}
                            /\ t \notin Busy(k) /\ t \notin Carriers(k)
<1> USE DEF Start
<1>1. /\ pc \in [Thread -> {"idle", "pop", "load", "raise", "popped", "push", "lower", "store", "pushed"}]
      /\ list \in [Thread -> List \cup {0}] /\ bytes \in [Thread -> Bytes \cup {0}]
      /\ block \in [Thread -> Nat]
  BY DEF AllocatorInv, Typed
<1>2. /\ SizeFor(b) \in List /\ b <= SizeFor(b)
      /\ freelist_pointers[calblocksize(b)] = SizeFor(b)
  BY Sizes DEF AllocatorInv
<1>3. /\ Laid' /\ List' = List /\ (\A k : Slots(k)' = Slots(k) /\ BlocksOf(k)' = BlocksOf(k))
      /\ \A n : SizeFor(n)' = SizeFor(n)
  <2>1. Laid'
    BY LaidKept
  <2> QED
    BY <2>1, LayoutFixed
<1>4. \A u \in Thread : u # t => pc'[u] = pc[u] /\ list'[u] = list[u]
                                 /\ bytes'[u] = bytes[u] /\ block'[u] = block[u]
  BY <1>1
<1>5. pc'[t] = to /\ list'[t] = SizeFor(b) /\ bytes'[t] = b /\ block'[t] = c
  BY <1>1, <1>2
<1>6. Typed'
  <2>1. pc' \in [Thread -> {"idle", "pop", "load", "raise", "popped", "push", "lower", "store", "pushed"}]
    BY <1>1
  <2>2. /\ list' \in [Thread -> List \cup {0}] /\ bytes' \in [Thread -> Bytes \cup {0}]
        /\ block' \in [Thread -> Nat]
    BY <1>1, <1>2
  <2> QED
    BY <1>3, <2>1, <2>2 DEF AllocatorInv, Typed, layoutVars
<1>7. Locked'
  <2>1. \A k : Within(k)' = Within(k)
    BY <1>4, <1>5 DEF Within
  <2> QED
    BY <1>3, <2>1 DEF AllocatorInv, Locked
<1>8. Reading'
  <2>1. \A u \in Thread : pc'[u] \in {"raise", "store"} => u # t
    BY <1>5
  <2> QED
    BY <1>3, <1>4, <2>1 DEF AllocatorInv, Reading
<1>9. ASSUME NEW k \in List
      PROVE  /\ StackKept(k)
             /\ k # SizeFor(b) => Busy(k)' = Busy(k)
             /\ k = SizeFor(b) => Busy(k)' = Busy(k) \cup {t}
             /\ t \notin Busy(k) /\ t \notin Carriers(k)
  <2>1. \A u \in Thread : list'[u] = k /\ pc'[u] = "store" <=> list[u] = k /\ pc[u] = "store"
    BY <1>4, <1>5
  <2>2. StackKept(k)
    BY <2>1, StacksKept
  <2>3. t \notin Busy(k) /\ t \notin Carriers(k)
    BY DEF Busy, Carriers
  <2>4. Busy(k)' = {u \in Thread : pc'[u] # "idle" /\ SizeFor(bytes'[u]) = k}
    BY DEF Busy, SizeFor, List, layoutVars
  <2> QED
    BY <1>4, <1>5, <2>2, <2>3, <2>4 DEF Busy
<1> QED
  BY <1>2, <1>3, <1>4, <1>5, <1>6, <1>7, <1>8, <1>9

LEMMA StartedCalls ==
  ASSUME AllocatorInv, NEW t \in Thread, NEW b \in Bytes, b <= max_block_size(reqs),
         UNCHANGED layoutVars,
         \A u \in Thread : u # t => pc'[u] = pc[u] /\ list'[u] = list[u] /\ bytes'[u] = bytes[u],
         list'[t] = SizeFor(b), bytes'[t] = b, held' \subseteq held
  PROVE  Calls'
<1>1. max_block_size(reqs)' = max_block_size(reqs)
  BY LayoutFixed
<1>2. \A u \in Thread : SizeFor(bytes[u])' = SizeFor(bytes'[u])
  BY DEF SizeFor, List, layoutVars
<1>3. \A u \in Thread : pc'[u] # "idle" => /\ bytes'[u] \in Bytes /\ bytes'[u] <= max_block_size(reqs)
                                           /\ list'[u] = SizeFor(bytes'[u])
  BY DEF AllocatorInv, Calls
<1>4. IsFiniteSet(held')
  BY FS_Subset DEF AllocatorInv, Calls
<1>5. /\ held' \subseteq [at : Nat, bytes : Bytes]
      /\ \A h \in held' : h.bytes <= max_block_size(reqs)
  BY DEF AllocatorInv, Calls
<1> QED
  BY <1>1, <1>2, <1>3, <1>4, <1>5 DEF Calls

LEMMA AllocateInv ==
  ASSUME AllocatorInv, NEW t \in Thread, NEW b \in Bytes, Allocate(t, b)
  PROVE  AllocatorInv'
<1>1. /\ pc[t] = "idle" /\ b <= max_block_size(reqs)
      /\ InUse(SizeFor(b)) < nblocks(reqs, SizeFor(b))
      /\ list' = [list EXCEPT ![t] = freelist_pointers[calblocksize(b)]]
      /\ bytes' = [bytes EXCEPT ![t] = b]
      /\ pc' = [pc EXCEPT ![t] = "pop"]
      /\ UNCHANGED <<layoutVars, memory, top, lock, block, held>>
  BY DEF Allocate
<1>2. PICK c \in Nat : Start(t, "pop", b, c)
  BY <1>1 DEF AllocatorInv, Typed, Start
<1>3. /\ Laid' /\ Typed' /\ Locked' /\ Reading' /\ List' = List
      /\ \A u \in Thread : u # t => pc'[u] = pc[u] /\ list'[u] = list[u]
                                    /\ bytes'[u] = bytes[u] /\ block'[u] = block[u]
      /\ pc'[t] = "pop" /\ list'[t] = SizeFor(b) /\ bytes'[t] = b
      /\ SizeFor(b) \in List /\ b <= SizeFor(b)
      /\ \A k \in List : /\ StackKept(k)
                         /\ k # SizeFor(b) => Busy(k)' = Busy(k)
                         /\ k = SizeFor(b) => Busy(k)' = Busy(k) \cup {t}
                         /\ t \notin Busy(k) /\ t \notin Carriers(k)
  BY <1>1, <1>2, Started
<1>4. Calls'
  BY <1>1, <1>3, StartedCalls
<1>5. ASSUME NEW k \in List
      PROVE  OncePlaced(k)' /\ Granted(k)'
  <2>1. OncePlaced(k) /\ InUse(k) <= nblocks(reqs, k)
    BY DEF AllocatorInv, Granted
  <2>2. Lent(k)' = Lent(k)
    BY <1>1, LayoutFixed DEF Lent
  <2>3. Carriers(k)' = Carriers(k)
    BY <1>3 DEF Carriers
  <2>4. CarriersKept(k)
    BY <1>1, <2>3 DEF CarriersKept
  <2>5. OncePlaced(k)'
    BY <1>1, <1>3, <2>1, <2>2, <2>4, PlacesKept
  <2>6. CASE k # SizeFor(b)
    BY <1>1, <1>3, <2>1, <2>2, <2>5, <2>6, GrantKept DEF Granted
  <2>7. CASE k = SizeFor(b)
    <3>1. /\ InUse(k) = Cardinality(Lent(k)) + Cardinality(Busy(k))
          /\ IsFiniteSet(Busy(k)) /\ IsFiniteSet(Lent(k))
          /\ Cardinality(Lent(k)) \in Nat /\ Cardinality(Busy(k)) \in Nat
      BY Counted
    <3>2. InUse(k)' = Cardinality(Lent(k)') + Cardinality(Busy(k)')
      BY DEF InUse, Lent, Busy
    <3>3. nblocks(reqs, k)' = nblocks(reqs, k) /\ nblocks(reqs, k) \in Nat
      BY <1>1, LayoutFixed, Plan DEF AllocatorInv
    <3>4. Cardinality(Busy(k) \cup {t}) = Cardinality(Busy(k)) + 1
      BY <1>3, <3>1, FS_AddElement
    <3>5. InUse(k) < nblocks(reqs, k)
      BY <1>1, <2>7
    <3>6. Busy(k)' = Busy(k) \cup {t}
      BY <1>3, <2>7
    <3>7. InUse(k)' = InUse(k) + 1
      BY <2>2, <3>1, <3>2, <3>4, <3>6
    <3>8. InUse(k)' <= nblocks(reqs, k)
      BY <3>1, <3>3, <3>5, <3>7
    <3> QED
      BY <2>5, <3>3, <3>8 DEF Granted
  <2> QED
    BY <2>6, <2>7
<1> QED
  BY <1>3, <1>4, <1>5 DEF AllocatorInv

LEMMA DeallocateInv ==
  ASSUME AllocatorInv, NEW t \in Thread, NEW h \in held, Deallocate(t, h)
  PROVE  AllocatorInv'
<1>1. /\ pc[t] = "idle"
      /\ list' = [list EXCEPT ![t] = freelist_pointers[calblocksize(h.bytes)]]
      /\ bytes' = [bytes EXCEPT ![t] = h.bytes]
      /\ block' = [block EXCEPT ![t] = h.at]
      /\ held' = held \ {h}
      /\ pc' = [pc EXCEPT ![t] = "push"]
      /\ UNCHANGED <<layoutVars, memory, top, lock>>
  BY DEF Deallocate
<1>2. /\ h.bytes \in Bytes /\ h.bytes <= max_block_size(reqs) /\ h.at \in Nat
      /\ Start(t, "push", h.bytes, h.at)
  BY <1>1 DEF AllocatorInv, Calls, Start
<1>3. /\ Laid' /\ Typed' /\ Locked' /\ Reading' /\ List' = List
      /\ \A u \in Thread : u # t => pc'[u] = pc[u] /\ list'[u] = list[u]
                                    /\ bytes'[u] = bytes[u] /\ block'[u] = block[u]
      /\ pc'[t] = "push" /\ list'[t] = SizeFor(h.bytes) /\ bytes'[t] = h.bytes /\ block'[t] = h.at
      /\ SizeFor(h.bytes) \in List
      /\ \A k \in List : /\ StackKept(k)
                         /\ k # SizeFor(h.bytes) => Busy(k)' = Busy(k)
                         /\ k = SizeFor(h.bytes) => Busy(k)' = Busy(k) \cup {t}
                         /\ t \notin Busy(k) /\ t \notin Carriers(k)
  BY <1>1, <1>2, Started
<1>4. Calls'
  BY <1>1, <1>2, <1>3, StartedCalls
<1>5. ASSUME NEW k \in List
      PROVE  OncePlaced(k)' /\ Granted(k)'
  <2>1. OncePlaced(k) /\ InUse(k) <= nblocks(reqs, k)
    BY DEF AllocatorInv, Granted
  <2>2. \A n : SizeFor(n)' = SizeFor(n)
    BY <1>1, LayoutFixed
  <2>3. CASE k # SizeFor(h.bytes)
    <3>1. Lent(k)' = Lent(k)
      BY <1>1, <2>2, <2>3 DEF Lent
    <3>2. Carriers(k)' = Carriers(k)
      BY <1>3, <2>3 DEF Carriers
    <3>3. CarriersKept(k)
      BY <1>3, <3>2 DEF CarriersKept, Carriers
    <3> QED
      BY <1>1, <1>3, <2>1, <2>3, <3>1, <3>3, PlacesKept, GrantKept DEF Granted
  <2>4. CASE k = SizeFor(h.bytes)
    <3>1. Lent(k)' = Lent(k) \ {h} /\ h \in Lent(k)
      BY <1>1, <2>2, <2>4 DEF Lent
    <3>2. /\ Carriers(k)' = Carriers(k) \cup {t} /\ t \notin Carriers(k)
          /\ block'[t] = h.at /\ \A u \in Carriers(k) : block'[u] = block[u]
      BY <1>3, <2>4 DEF Carriers
    <3>3. Stacked(k)' = Stacked(k) /\ BlocksOf(k)' = BlocksOf(k)
      BY <1>1, <1>3, LayoutFixed DEF StackKept, Stacked
    <3>4. LentAt(k)' \cup {h.at} = LentAt(k) /\ h.at \notin LentAt(k)'
      BY <2>1, <3>1 DEF LentAt, OncePlaced
    <3>5. Carried(k)' = Carried(k) \cup {h.at}
      BY <3>2 DEF Carried
    <3>6. h.at \in BlocksOf(k) \ (Stacked(k) \cup Carried(k))
      BY <2>1, <3>1 DEF OncePlaced
    <3>7. \A a, b \in Filling(k)' : memory'[a] = memory'[b] => a = b
      BY <1>3, <2>1 DEF OncePlaced, StackKept
    <3>8. \A u \in Carriers(k)' : block'[u] \in BlocksOf(k) \ Stacked(k)
      BY <2>1, <3>2, <3>6 DEF OncePlaced
    <3>9. \A u, v \in Carriers(k)' : block'[u] = block'[v] => u = v
      BY <2>1, <3>2, <3>6 DEF OncePlaced, Carried
    <3>10. \A g \in Lent(k)' : g.at \in BlocksOf(k) \ (Stacked(k) \cup Carried(k)')
      BY <2>1, <3>1, <3>4, <3>5 DEF OncePlaced, LentAt
    <3>11. \A f, g \in Lent(k)' : f.at = g.at => f = g
      BY <2>1, <3>1 DEF OncePlaced
    <3>12. BlocksOf(k) \subseteq Stacked(k) \cup Carried(k)' \cup LentAt(k)'
      BY <2>1, <3>4, <3>5 DEF OncePlaced
    <3>13. OncePlaced(k)'
      BY <3>3, <3>7, <3>8, <3>9, <3>10, <3>11, <3>12 DEF OncePlaced
    <3>14. /\ InUse(k) = Cardinality(Lent(k)) + Cardinality(Busy(k))
           /\ IsFiniteSet(Busy(k)) /\ IsFiniteSet(Lent(k))
           /\ Cardinality(Lent(k)) \in Nat /\ Cardinality(Busy(k)) \in Nat
      BY Counted
    <3>15. InUse(k)' = Cardinality(Lent(k)') + Cardinality(Busy(k)')
      BY DEF InUse, Lent, Busy
    <3>16. Cardinality(Lent(k)') = Cardinality(Lent(k)) - 1
      BY <3>1, <3>14, FS_RemoveElement
    <3>17. Cardinality(Busy(k)') = Cardinality(Busy(k)) + 1
      BY <1>3, <2>4, <3>14, FS_AddElement
    <3>18. nblocks(reqs, k)' = nblocks(reqs, k)
      BY <1>1, LayoutFixed
    <3>19. Granted(k)'
      BY <2>1, <3>14, <3>15, <3>16, <3>17, <3>18 DEF Granted
    <3> QED
      BY <3>13, <3>19
  <2> QED
    BY <2>3, <2>4
<1> QED
  BY <1>3, <1>4, <1>5 DEF AllocatorInv

LEMMA InvStutter ==
  ASSUME AllocatorInv, UNCHANGED vars
  PROVE  AllocatorInv'
<1>1. /\ UNCHANGED layoutVars
      /\ memory' = memory /\ top' = top /\ lock' = lock /\ pc' = pc /\ list' = list
      /\ bytes' = bytes /\ block' = block /\ held' = held
  BY DEF vars, callVars
<1>2. /\ List' = List /\ (\A k : Slots(k)' = Slots(k) /\ BlocksOf(k)' = BlocksOf(k))
      /\ (\A b : SizeFor(b)' = SizeFor(b))
      /\ max_block_size(reqs)' = max_block_size(reqs)
  BY <1>1, LayoutFixed
<1>3. Laid'
  BY <1>1, LaidKept
<1>4. Typed'
  BY <1>1, <1>2 DEF AllocatorInv, Typed, layoutVars
<1>5. Calls'
  BY <1>1, <1>2 DEF AllocatorInv, Calls
<1>6. Locked' /\ Reading'
  BY <1>1, <1>2 DEF AllocatorInv, Locked, Reading, Within
<1>7. ASSUME NEW k \in List
      PROVE  OncePlaced(k)' /\ Granted(k)'
  <2>1. Lent(k)' = Lent(k) /\ Busy(k)' = Busy(k)
    BY <1>1, <1>2 DEF Lent, Busy
  <2>2. StackKept(k) /\ CarriersKept(k)
    BY <1>1, <1>2 DEF StackKept, CarriersKept, Carriers, Filling, Storing
  <2> QED
    BY <1>1, <2>1, <2>2, PlacesKept, GrantKept DEF AllocatorInv
<1> QED
  BY <1>2, <1>3, <1>4, <1>5, <1>6, <1>7 DEF AllocatorInv

LEMMA InvNext ==
  ASSUME AllocatorInv, [Next]_vars
  PROVE  AllocatorInv'
<1>1. ASSUME NEW t \in Thread, NEW b \in Bytes, Allocate(t, b)
      PROVE  AllocatorInv'
  BY <1>1, AllocateInv
<1>2. ASSUME NEW t \in Thread, NEW h \in held, Deallocate(t, h)
      PROVE  AllocatorInv'
  BY <1>2, DeallocateInv
<1>3. ASSUME NEW t \in Thread, Pop(t)
      PROVE  AllocatorInv'
  <2>1. ASSUME Acquire(t, "pop", "load")
        PROVE  AllocatorInv'
    BY <2>1, AcquireInv
  <2> QED
    BY <1>3, <2>1, LoadInv, RaiseInv, ReturnBlockInv DEF Pop
<1>4. ASSUME NEW t \in Thread, Push(t)
      PROVE  AllocatorInv'
  <2>1. ASSUME Acquire(t, "push", "lower")
        PROVE  AllocatorInv'
    BY <2>1, AcquireInv
  <2> QED
    BY <1>4, <2>1, LowerInv, StoreInv, ReturnNothingInv DEF Push
<1> QED
  BY <1>1, <1>2, <1>3, <1>4, InvStutter DEF Next

LEMMA InvHolds == Spec => []AllocatorInv
BY InvInit, InvNext, PTL DEF Spec

\* The tops of the stacks stay within them, and the rest is of its type: push and
\* pop of freelist_t neither underrun nor overrun, whatever the threads do.
THEOREM AllocatorTypes == Spec => []TypeOK
<1>1. ASSUME AllocatorInv
      PROVE  TypeOK
  <2>1. Laid /\ Typed /\ Calls
    BY <1>1 DEF AllocatorInv
  <2>2. freelist_pointers \in [1..max_block_size(reqs) -> List]
    BY <2>1, Plan, NextIs DEF Laid
  <2>3. memory \in [UNION {Slots(k) : k \in List} -> UNION {BlocksOf(k) : k \in List}]
    BY <2>1 DEF Typed
  <2> QED
    BY <2>1, <2>2, <2>3 DEF TypeOK, Typed, Calls, Laid
<1> QED
  BY <1>1, InvHolds, PTL

\* A loan is of one of the blocks of the size for it.
LEMMA LoanPlace ==
  ASSUME AllocatorInv, NEW h \in held
  PROVE  /\ SizeFor(h.bytes) \in List /\ h \in Lent(SizeFor(h.bytes))
         /\ h.at \in BlocksOf(SizeFor(h.bytes)) /\ h.at \in Nat
         /\ h.bytes \in Nat \ {0} /\ h.bytes <= SizeFor(h.bytes)
<1>1. h.bytes \in Bytes /\ h.bytes <= max_block_size(reqs) /\ h.at \in Nat
  BY DEF AllocatorInv, Calls
<1>2. SizeFor(h.bytes) \in List /\ h.bytes <= SizeFor(h.bytes) /\ h.bytes \in Nat \ {0}
  BY <1>1, Sizes DEF AllocatorInv
<1>3. h \in Lent(SizeFor(h.bytes))
  BY DEF Lent
<1> QED
  BY <1>1, <1>2, <1>3 DEF AllocatorInv, OncePlaced

LEMMA DifferentBlocks ==
  ASSUME Laid, NEW j \in List, NEW k \in List, j # k
  PROVE  BlocksOf(j) \cap BlocksOf(k) = {}
<1>1. /\ j \in Nat \ {0} /\ k \in Nat \ {0}
      /\ \A a \in BlocksOf(j) : a \in Nat
  BY Plan, BlockPlaces
<1>2. \A a \in BlocksOf(j), c \in BlocksOf(k) : a + j <= c \/ c + k <= a
  BY Apart
<1> QED
  BY <1>1, <1>2

\* The arena is filled to its last byte, and no two clients of the allocator have a
\* byte in common, nor one with what manages the arena, for every list of requirements.
THEOREM BlocksStayApart == Spec => []BlocksApart
<1>1. ASSUME AllocatorInv
      PROVE  BlocksApart
  <2>1. Laid /\ reqs \in Requirements
    BY <1>1 DEF AllocatorInv, Laid
  <2>2. ArenaFilled
    BY <2>1, Filled DEF ArenaFilled
  <2>3. ASSUME NEW h \in held
        PROVE  /\ Extent(h.at, h.bytes) \cap Managed = {}
               /\ h.at + h.bytes <= arena_size(reqs)
    <3>1. PICK k \in List : /\ h.at \in BlocksOf(k) /\ h.at \in Nat
                            /\ h.bytes \in Nat \ {0} /\ h.bytes <= k
      BY <1>1, LoanPlace
    <3>2. h.at + k <= arena_size(reqs) /\ Extent(h.at, k) \cap Managed = {}
      BY <2>1, <3>1, Clear
    <3>3. k \in Nat
      BY <2>1, Plan
    <3>4. Extent(h.at, h.bytes) \subseteq Extent(h.at, k)
      BY <3>1, <3>3 DEF Extent
    <3>5. arena_size(reqs) \in Nat
      BY <2>1, <3>1, Filled, Plan, Regions
    <3> QED
      BY <3>1, <3>2, <3>3, <3>4, <3>5
  <2>4. ASSUME NEW g \in held, NEW h \in held, g # h
        PROVE  Extent(g.at, g.bytes) \cap Extent(h.at, h.bytes) = {}
    <3>1. PICK j \in List : /\ g.at \in BlocksOf(j) /\ g.at \in Nat /\ g \in Lent(j)
                            /\ g.bytes \in Nat \ {0} /\ g.bytes <= j
      BY <1>1, LoanPlace
    <3>2. PICK k \in List : /\ h.at \in BlocksOf(k) /\ h.at \in Nat /\ h \in Lent(k)
                            /\ h.bytes \in Nat \ {0} /\ h.bytes <= k
      BY <1>1, LoanPlace
    <3>3. j \in Nat /\ k \in Nat
      BY <2>1, Plan
    <3>4. g.at + j <= h.at \/ h.at + k <= g.at
      <4>1. CASE j # k
        BY <2>1, <3>1, <3>2, <4>1, Apart
      <4>2. CASE j = k
        <5>1. g.at # h.at
          BY <1>1, <2>4, <3>1, <3>2, <4>2 DEF AllocatorInv, OncePlaced
        <5> QED
          BY <2>1, <3>1, <3>2, <4>2, <5>1, BlockPlaces
      <4> QED
        BY <4>1, <4>2
    <3> QED
      BY <3>1, <3>2, <3>3, <3>4 DEF Extent
  <2> QED
    BY <2>2, <2>3, <2>4 DEF BlocksApart
<1> QED
  BY <1>1, InvHolds, PTL

\* Whenever a free list is unlocked, each of its blocks is on its stack, once, or
\* with a client, or on the way back in push.
THEOREM NoBlockIsLost == Spec => []NothingLost
<1>1. ASSUME AllocatorInv, NEW k \in List, ~lock[k]
      PROVE  /\ Free(k) \cap Taken(k) = {}
             /\ Cardinality(Free(k)) = Cardinality(OnStack(k))
             /\ BlocksOf(k) \subseteq Free(k) \cup Taken(k)
  <2>1. Laid /\ OncePlaced(k) /\ Within(k) = {}
    BY <1>1 DEF AllocatorInv, Locked
  <2>2. Carriers(k) = {t \in Thread : pc[t] = "push" /\ list[t] = k} /\ ~Storing(k)
    BY <2>1 DEF Carriers, Storing, Within
  <2>3. Filling(k) = OnStack(k)
    BY <2>2 DEF Filling, OnStack
  <2>4. Free(k) = Stacked(k)
    BY <2>3 DEF Free, Stacked
  <2>5. Taken(k) = {h.at : h \in held} \cup Carried(k)
    BY <2>2 DEF Taken, Carried
  <2>6. \A h \in held : h.at \notin Stacked(k)
    <3> SUFFICES ASSUME NEW h \in held
                 PROVE  h.at \notin Stacked(k)
      OBVIOUS
    <3>1. PICK j \in List : h.at \in BlocksOf(j) /\ h \in Lent(j)
      BY <1>1, LoanPlace
    <3>2. CASE j = k
      BY <2>1, <3>1, <3>2 DEF OncePlaced
    <3>3. CASE j # k
      <4>1. Stacked(k) \subseteq BlocksOf(k)
        BY <1>1 DEF AllocatorInv, Typed, Stacked, Filling
      <4>2. BlocksOf(j) \cap BlocksOf(k) = {}
        BY <2>1, <3>3, DifferentBlocks
      <4> QED
        BY <3>1, <4>1, <4>2
    <3> QED
      BY <3>2, <3>3
  <2>7. Free(k) \cap Taken(k) = {}
    BY <2>1, <2>4, <2>5, <2>6 DEF OncePlaced, Carried
  <2>8. LentAt(k) \subseteq Taken(k) /\ Carried(k) \subseteq Taken(k)
    BY <2>5 DEF LentAt, Lent
  <2>9. BlocksOf(k) \subseteq Free(k) \cup Taken(k)
    BY <2>1, <2>4, <2>8 DEF OncePlaced
  <2>10. Cardinality(Free(k)) = Cardinality(OnStack(k))
    <3> DEFINE f == [a \in OnStack(k) |-> memory[a]]
    <3>1. IsFiniteSet(OnStack(k))
      BY <2>1, SlotPlaces, FS_Subset DEF OnStack
    <3>2. f \in Injection(OnStack(k), Free(k)) /\ f \in Surjection(OnStack(k), Free(k))
      BY <2>1, <2>3 DEF Injection, IsInjective, Surjection, Free, OncePlaced
    <3> HIDE DEF f
    <3> QED
      BY <3>1, <3>2, FS_Surjection
  <2> QED
    BY <2>7, <2>9, <2>10
<1>2. AllocatorInv => NothingLost
  BY <1>1 DEF NothingLost
<1> QED
  BY <1>2, InvHolds, PTL

-----------------------------------------------------------------------------
(***************************************************************************)
(* The blocks the clients are given are as BlockStore has it: the return   *)
(* of a block grants the request, the call to return it takes it back, and *)
(* all other steps are not seen.                                           *)
(***************************************************************************)
LEMMA StoreKept ==
  ASSUME UNCHANGED layoutVars, held' = held
  PROVE  UNCHANGED Promise!vars
BY LayoutFixed DEF Promise!vars

LEMMA StoreAllocates ==
  ASSUME AllocatorInv, NEW t \in Thread, ReturnBlock(t)
  PROVE  Promise!Next
<1>1. /\ pc[t] = "popped" /\ held' = held \cup {[at |-> block[t], bytes |-> bytes[t]]}
      /\ UNCHANGED layoutVars
  BY DEF ReturnBlock, Go, Unlock
<1>2. /\ list[t] \in List /\ list[t] = SizeFor(bytes[t]) /\ bytes[t] \in Bytes
      /\ bytes[t] <= max_block_size(reqs)
  BY <1>1, AtWork
<1>3. PICK b \in Bytes, a \in {block[t]} : b = bytes[t] /\ SizeFor(b) = list[t] /\ b <= SizeFor(b)
  BY <1>2, Sizes DEF AllocatorInv
<1>4. OncePlaced(SizeFor(b)) /\ t \in Carriers(SizeFor(b)) /\ SizeFor(b) \in List
  BY <1>1, <1>2, <1>3 DEF AllocatorInv, Carriers
<1>5. a \in BlocksOf(SizeFor(b))
  BY <1>3, <1>4 DEF OncePlaced
<1>6. \A h \in held : h.at # a
  <2> SUFFICES ASSUME NEW h \in held
               PROVE  h.at # a
    OBVIOUS
  <2>1. PICK j \in List : h.at \in BlocksOf(j) /\ h \in Lent(j)
    BY LoanPlace
  <2>2. CASE j = SizeFor(b)
    BY <1>3, <1>4, <2>1, <2>2 DEF OncePlaced, Carried
  <2>3. CASE j # SizeFor(b)
    <3>1. BlocksOf(j) \cap BlocksOf(SizeFor(b)) = {}
      BY <1>4, <2>3, DifferentBlocks DEF AllocatorInv
    <3> QED
      BY <1>5, <2>1, <3>1
  <2> QED
    BY <2>2, <2>3
<1>7. Promise!SizeFor(b) = SizeFor(b) /\ SizeFor(b) \in Promise!Fits(b)
  <2>1. Promise!Fits(b) = {k \in List : b <= k}
    BY DEF Promise!Fits
  <2>2. Promise!SizeFor(b) = SizeFor(b)
    BY <2>1 DEF Promise!SizeFor, SizeFor, Promise!Min, Min
  <2> QED
    BY <1>3, <1>4, <2>1, <2>2
<1>8. held' = held \cup {[at |-> a, bytes |-> b]}
  BY <1>1, <1>3
<1>9. [k \in List |-> BlocksOf(k)]' = [k \in List |-> BlocksOf(k)]
  BY <1>1, LayoutFixed
<1>10. Promise!Allocate(b)
  BY <1>4, <1>5, <1>6, <1>7, <1>8, <1>9 DEF Promise!Allocate
<1> QED
  BY <1>10 DEF Promise!Next

LEMMA StoreDeallocates ==
  ASSUME NEW t \in Thread, NEW h \in held, Deallocate(t, h)
  PROVE  Promise!Next
<1>1. held' = held \ {h} /\ UNCHANGED layoutVars
  BY DEF Deallocate
<1>2. [k \in List |-> BlocksOf(k)]' = [k \in List |-> BlocksOf(k)]
  BY <1>1, LayoutFixed
<1> QED
  BY <1>1, <1>2 DEF Promise!Next, Promise!Deallocate

LEMMA StoreSteps ==
  ASSUME AllocatorInv, [Next]_vars
  PROVE  [Promise!Next]_(Promise!vars)
<1>1. ASSUME NEW t \in Thread, NEW b \in Bytes, Allocate(t, b)
      PROVE  UNCHANGED Promise!vars
  BY <1>1, StoreKept DEF Allocate
<1>2. ASSUME NEW t \in Thread, Pop(t)
      PROVE  [Promise!Next]_(Promise!vars)
  <2>1. ASSUME Acquire(t, "pop", "load") \/ Load(t) \/ Raise(t)
        PROVE  UNCHANGED Promise!vars
    BY <2>1, StoreKept DEF Acquire, Load, Raise
  <2> QED
    BY <1>2, <2>1, StoreAllocates DEF Pop
<1>3. ASSUME NEW t \in Thread, Push(t)
      PROVE  UNCHANGED Promise!vars
  BY <1>3, StoreKept DEF Push, Acquire, Lower, Store, ReturnNothing, Unlock
<1>4. ASSUME UNCHANGED vars
      PROVE  UNCHANGED Promise!vars
  BY <1>4, StoreKept DEF vars
<1> QED
  BY <1>1, <1>2, <1>3, <1>4, StoreDeallocates DEF Next

\* allocate and deallocate of any number of threads are those of BlockStore: a
\* request is given a block that nobody has, of the size for it.
THEOREM AllocatorKeepsPromise == Spec => ImplementsStore
<1>1. Init => Promise!Init
  BY DEF Init, Promise!Init
<1> QED
  BY <1>1, InvHolds, StoreSteps, PTL DEF Spec, ImplementsStore, Promise!Spec
=============================================================================
