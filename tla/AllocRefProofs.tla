---------------------------- MODULE AllocRefProofs ----------------------------
(***************************************************************************)
(* Theorems about AllocRef, for any number of threads, variables and       *)
(* allocators.                                                             *)
(***************************************************************************)
EXTENDS AllocRef, StackLemmas, FiniteSetTheorems

-----------------------------------------------------------------------------
(***************************************************************************)
(* Counting                                                                *)
(***************************************************************************)

Same(x, y) == IF x = y THEN 1 ELSE 0

\* How often f, a function or a sequence, has the value x.
Times(f, x) == Cardinality({i \in DOMAIN f : f[i] = x})

\* A set that is mapped one to one has as many elements as its image.
LEMMA SameSize ==
  ASSUME NEW S, NEW T, IsFiniteSet(S), NEW f \in [S -> T],
         \A i, j \in S : f[i] = f[j] => i = j,
         \A y \in T : \E i \in S : f[i] = y
  PROVE  IsFiniteSet(T) /\ Cardinality(T) = Cardinality(S)
<1>1. f \in Surjection(S, T)
  BY DEF Surjection
<1>2. f \in Injection(S, T)
  BY DEF Injection, IsInjective
<1> QED
  BY <1>1, <1>2, FS_Surjection

\* Sets that differ at most in x differ in size by whether each holds x.
LEMMA PointSize ==
  ASSUME NEW S, NEW T, NEW x, IsFiniteSet(S), S \ {x} = T \ {x}
  PROVE  /\ IsFiniteSet(T)
         /\ Cardinality(S) \in Nat /\ Cardinality(T) \in Nat
         /\ Cardinality(T) = Cardinality(S) - (IF x \in S THEN 1 ELSE 0) + (IF x \in T THEN 1 ELSE 0)
<1> DEFINE R == S \ {x}
<1>1. /\ IsFiniteSet(R)
      /\ Cardinality(R) = IF x \in S THEN Cardinality(S) - 1 ELSE Cardinality(S)
  BY FS_RemoveElement
<1>2. Cardinality(S) \in Nat /\ Cardinality(R) \in Nat
  BY <1>1, FS_CardinalityType
<1>3. /\ IsFiniteSet(R \cup {x})
      /\ Cardinality(R \cup {x}) = Cardinality(R) + 1
  BY <1>1, FS_AddElement
<1>4. CASE x \in T
  <2>1. T = R \cup {x}
    BY <1>4
  <2> QED
    BY <1>1, <1>2, <1>3, <1>4, <2>1 DEF Same
<1>5. CASE x \notin T
  <2>1. T = R
    BY <1>5
  <2> QED
    BY <1>1, <1>2, <1>5, <2>1 DEF Same
<1> QED
  BY <1>4, <1>5

\* One value of a function changes.
LEMMA TimesExcept ==
  ASSUME NEW D, IsFiniteSet(D), NEW f, NEW g, DOMAIN f = D, DOMAIN g = D,
         NEW i \in D, \A j \in D \ {i} : g[j] = f[j], NEW x
  PROVE  /\ Times(f, x) \in Nat /\ Times(g, x) \in Nat
         /\ Times(g, x) = Times(f, x) - Same(f[i], x) + Same(g[i], x)
<1> DEFINE S == {j \in DOMAIN f : f[j] = x}
           T == {j \in DOMAIN g : g[j] = x}
<1>1. S \in SUBSET D /\ S \ {i} = T \ {i}
  OBVIOUS
<1>2. IsFiniteSet(S)
  BY <1>1, FS_Subset
<1>3. (i \in S <=> f[i] = x) /\ (i \in T <=> g[i] = x)
  OBVIOUS
<1>4. Times(f, x) = Cardinality(S) /\ Times(g, x) = Cardinality(T)
  BY DEF Times
<1> HIDE DEF S, T
<1>5. /\ Cardinality(S) \in Nat /\ Cardinality(T) \in Nat
      /\ Cardinality(T) = Cardinality(S) - (IF i \in S THEN 1 ELSE 0) + (IF i \in T THEN 1 ELSE 0)
  BY <1>1, <1>2, PointSize
<1> QED
  BY <1>3, <1>4, <1>5 DEF Same

\* A sequence has finitely many places.
LEMMA TimesInSeq ==
  ASSUME NEW S, NEW s \in Seq(S), NEW x
  PROVE  /\ IsFiniteSet({i \in DOMAIN s : s[i] = x})
         /\ Times(s, x) \in Nat
<1>1. DOMAIN s = 1..Len(s) /\ Len(s) \in Nat
  OBVIOUS
<1>2. IsFiniteSet(1..Len(s))
  BY <1>1, FS_Interval
<1>3. {i \in DOMAIN s : s[i] = x} \in SUBSET (1..Len(s))
  BY <1>1
<1>4. IsFiniteSet({i \in DOMAIN s : s[i] = x})
  BY <1>2, <1>3, FS_Subset
<1> QED
  BY <1>4, FS_CardinalityType DEF Times

LEMMA TimesEmpty ==
  ASSUME NEW x
  PROVE  Times(<< >>, x) = 0
<1>1. {i \in DOMAIN << >> : << >>[i] = x} = {}
  OBVIOUS
<1> QED
  BY <1>1, FS_EmptySet DEF Times

LEMMA TimesPush ==
  ASSUME NEW S, NEW s \in Seq(S), NEW y \in S, NEW x
  PROVE  /\ <<y>> \o s \in Seq(S)
         /\ Times(s, x) \in Nat
         /\ Times(<<y>> \o s, x) = Times(s, x) + Same(y, x)
<1> DEFINE p == <<y>> \o s
           A == {i \in DOMAIN s : s[i] = x}
           B == {i \in DOMAIN p : p[i] = x}
           f == [i \in A |-> i + 1]
<1>1. /\ p \in Seq(S) /\ DOMAIN p = 1..(Len(s) + 1) /\ p[1] = y
      /\ \A i \in DOMAIN s : p[i + 1] = s[i]
      /\ \A i \in DOMAIN p : i = 1 \/ (i - 1 \in DOMAIN s /\ p[i] = s[i - 1])
  BY PushIndices
<1>2. DOMAIN s = 1..Len(s) /\ Len(s) \in Nat
  OBVIOUS
<1> HIDE DEF p
<1>3. IsFiniteSet(A) /\ Times(s, x) = Cardinality(A) /\ Cardinality(A) \in Nat
  BY TimesInSeq DEF Times
<1>4. f \in [A -> B \ {1}]
  BY <1>1, <1>2
<1>5. \A i, j \in A : f[i] = f[j] => i = j
  BY <1>2
<1>6. \A j \in B \ {1} : \E i \in A : f[i] = j
  <2> SUFFICES ASSUME NEW j \in B \ {1} PROVE \E i \in A : f[i] = j
    OBVIOUS
  <2>1. j - 1 \in DOMAIN s /\ s[j - 1] = x
    BY <1>1
  <2>2. j - 1 \in A /\ f[j - 1] = (j - 1) + 1 /\ j \in Int
    BY <1>1, <2>1
  <2> QED
    BY <2>2
<1> HIDE DEF f
<1>7. IsFiniteSet(B \ {1}) /\ Cardinality(B \ {1}) = Cardinality(A)
  BY <1>3, <1>4, <1>5, <1>6, SameSize
<1>8. /\ Cardinality(B) \in Nat
      /\ Cardinality(B) = Cardinality(B \ {1}) + (IF 1 \in B THEN 1 ELSE 0)
  <2>1. \A C, D : IsFiniteSet(C) /\ C \ {1} = D \ {1} =>
          /\ Cardinality(D) \in Nat
          /\ Cardinality(D) = Cardinality(C) - (IF 1 \in C THEN 1 ELSE 0) + (IF 1 \in D THEN 1 ELSE 0)
    BY PointSize
  <2>2. (B \ {1}) \ {1} = B \ {1}
    OBVIOUS
  <2> HIDE DEF A, B
  <2> QED
    BY <1>7, <2>1, <2>2
<1>9. 1 \in B <=> y = x
  BY <1>1, <1>2
<1>10. Times(p, x) = Cardinality(B)
  BY DEF Times
<1> HIDE DEF A, B
<1>11. Times(p, x) = Times(s, x) + Same(y, x)
  BY <1>3, <1>7, <1>8, <1>9, <1>10 DEF Same
<1> QED
  BY <1>1, <1>3, <1>11 DEF p

LEMMA TimesPop ==
  ASSUME NEW S, NEW s \in Seq(S), s # << >>, NEW x
  PROVE  /\ Tail(s) \in Seq(S)
         /\ Times(s, x) \in Nat /\ Times(Tail(s), x) \in Nat
         /\ Times(s, x) = Times(Tail(s), x) + Same(Head(s), x)
<1>1. Tail(s) \in Seq(S) /\ Head(s) \in S
  BY PopElements
<1>2. s = <<Head(s)>> \o Tail(s)
  <2>1. /\ <<Head(s)>> \o Tail(s) \in Seq(S)
        /\ Len(<<Head(s)>> \o Tail(s)) = Len(Tail(s)) + 1
        /\ (<<Head(s)>> \o Tail(s))[1] = Head(s)
        /\ \A i \in DOMAIN Tail(s) : (<<Head(s)>> \o Tail(s))[i + 1] = Tail(s)[i]
    BY <1>1, PushIndices
  <2>2. /\ Head(s) = s[1] /\ Len(s) = Len(Tail(s)) + 1
        /\ \A i \in DOMAIN s : i = 1 \/ (i - 1 \in DOMAIN Tail(s) /\ Tail(s)[i - 1] = s[i])
    BY PopIndices
  <2>3. DOMAIN s = 1..Len(s) /\ Len(s) \in Nat
    OBVIOUS
  <2> DEFINE p == <<Head(s)>> \o Tail(s)
             u == Tail(s)
  <2>4. \A i \in DOMAIN s : p[i] = s[i]
    <3> SUFFICES ASSUME NEW i \in DOMAIN s PROVE p[i] = s[i]
      OBVIOUS
    <3>1. CASE i = 1
      BY <2>1, <2>2, <3>1
    <3>2. CASE i # 1
      <4>1. i - 1 \in DOMAIN u /\ u[i - 1] = s[i]
        BY <2>2, <3>2
      <4>2. p[(i - 1) + 1] = u[i - 1]
        BY <2>1, <4>1
      <4>3. (i - 1) + 1 = i
        BY <2>3
      <4> QED
        BY <4>1, <4>2, <4>3
    <3> QED
      BY <3>1, <3>2
  <2> HIDE DEF p, u
  <2>5. p \in Seq(S) /\ Len(p) = Len(s)
    BY <2>1, <2>2 DEF p
  <2>6. p = s
    BY <2>3, <2>4, <2>5, SeqEqual
  <2> QED
    BY <2>6 DEF p
<1>3. Times(<<Head(s)>> \o Tail(s), x) = Times(Tail(s), x) + Same(Head(s), x)
  <2>1. \A u \in Seq(S), h \in S : Times(<<h>> \o u, x) = Times(u, x) + Same(h, x)
    BY TimesPush
  <2> QED
    BY <1>1, <2>1
<1>4. Times(s, x) \in Nat /\ Times(Tail(s), x) \in Nat
  BY <1>1, TimesInSeq
<1> QED
  BY <1>1, <1>2, <1>3, <1>4

-----------------------------------------------------------------------------
(***************************************************************************)
(* Tasks, and handles                                                      *)
(***************************************************************************)

TasksOf(s, t, x) == {<<t, i>> : i \in {j \in DOMAIN s : s[j] = x}}
TasksIn(f, x) == UNION {TasksOf(f[t], t, x) : t \in Thread}

LEMMA TasksOfThread ==
  ASSUME NEW S, NEW s \in Seq(S), NEW t, NEW x
  PROVE  IsFiniteSet(TasksOf(s, t, x)) /\ Cardinality(TasksOf(s, t, x)) = Times(s, x)
<1> DEFINE A == {j \in DOMAIN s : s[j] = x}
           B == {<<t, i>> : i \in A}
           f == [i \in A |-> <<t, i>>]
<1>1. IsFiniteSet(A) /\ Cardinality(A) = Times(s, x)
  BY TimesInSeq DEF Times
<1> HIDE DEF A
<1>2. f \in [A -> B] /\ (\A i, j \in A : f[i] = f[j] => i = j)
  OBVIOUS
<1>3. \A y \in B : \E i \in A : f[i] = y
  OBVIOUS
<1> HIDE DEF B, f
<1>4. IsFiniteSet(B) /\ Cardinality(B) = Cardinality(A)
  BY <1>1, <1>2, <1>3, SameSize
<1> QED
  BY <1>1, <1>4 DEF A, B, TasksOf

\* What threads have left to do.
Lists == [Thread -> Seq(Task)]

\* The list of one thread changes.
LEMMA TaskMoves ==
  ASSUME NEW f \in Lists, NEW g \in Lists,
         NEW t \in Thread, \A u \in Thread \ {t} : g[u] = f[u],
         NEW x, IsFiniteSet(TasksIn(f, x))
  PROVE  /\ IsFiniteSet(TasksIn(g, x))
         /\ Times(f[t], x) \in Nat /\ Times(g[t], x) \in Nat
         /\ Cardinality(TasksIn(f, x)) \in Nat /\ Cardinality(TasksIn(g, x)) \in Nat
         /\ Times(f[t], x) <= Cardinality(TasksIn(f, x))
         /\ Cardinality(TasksIn(g, x)) =
              Cardinality(TasksIn(f, x)) - Times(f[t], x) + Times(g[t], x)
<1> DEFINE At(h, u) == TasksOf(h[u], u, x)
           R == UNION {At(f, u) : u \in Thread \ {t}}
           A == At(f, t)
           B == At(g, t)
<1>1. /\ IsFiniteSet(A) /\ Cardinality(A) = Times(f[t], x)
      /\ IsFiniteSet(B) /\ Cardinality(B) = Times(g[t], x)
  <2>1. f[t] \in Seq(Task) /\ g[t] \in Seq(Task)
    BY DEF Lists
  <2> QED
    BY <2>1, TasksOfThread
<1>2. TasksIn(f, x) = R \cup A
  BY DEF TasksIn
<1>3. TasksIn(g, x) = R \cup B
  <2>1. \A u \in Thread \ {t} : At(g, u) = At(f, u)
    OBVIOUS
  <2>2. \A h, z : z \in TasksIn(h, x) <=> \E u \in Thread : z \in At(h, u)
    BY DEF TasksIn
  <2>3. \A z : z \in R <=> \E u \in Thread \ {t} : z \in At(f, u)
    OBVIOUS
  <2> HIDE DEF At, R
  <2>4. \A z : z \in TasksIn(g, x) <=> z \in R \/ z \in At(g, t)
    BY <2>1, <2>2, <2>3
  <2> QED
    BY <2>4
<1>4. R \cap A = {} /\ R \cap B = {}
  BY DEF TasksOf
<1> HIDE DEF R, A, B
<1>5. IsFiniteSet(R)
  BY <1>2, FS_Subset
<1>6. /\ Cardinality(R \cup A) = Cardinality(R) + Cardinality(A) - Cardinality(R \cap A)
      /\ Cardinality(R \cup B) = Cardinality(R) + Cardinality(B) - Cardinality(R \cap B)
      /\ IsFiniteSet(R \cup B)
  BY <1>1, <1>5, FS_Union
<1>7. /\ Cardinality(R) \in Nat /\ Cardinality(A) \in Nat /\ Cardinality(B) \in Nat
  BY <1>1, <1>5, FS_CardinalityType
<1>8. Cardinality(R \cap A) = 0 /\ Cardinality(R \cap B) = 0
  BY <1>4, FS_EmptySet
<1> QED
  BY <1>1, <1>2, <1>3, <1>6, <1>7, <1>8

\* A field of the allocators that exist.
LiveOf(st, field) == [a \in Allocator |-> IF st[a] = "live" THEN field[a] ELSE None]

\* The tasks that are handles.
DropTask(a) == <<"drop", a>>
DecrementTask(a) == <<"decrement", a>>
Drops(to, a) == Cardinality(TasksIn(to, DropTask(a)))
Decrements(to, a) == Cardinality(TasksIn(to, DecrementTask(a)))

FiniteTasks(to) == \A a \in Allocator :
  IsFiniteSet(TasksIn(to, DropTask(a))) /\ IsFiniteSet(TasksIn(to, DecrementTask(a)))

\* Handles, as a sum over functions.
Sum(st, pa, de, ha, to, x) ==
  Times(ha, x) + Times(LiveOf(st, pa), x) + Times(LiveOf(st, de), x)
  + Drops(to, x) + Decrements(to, x)

LEMMA HandlesSum ==
  ASSUME NEW st, NEW pa, NEW de, NEW ha \in [Slot -> Allocator \cup {None}],
         NEW to \in Lists, FiniteTasks(to), NEW a \in Allocator
  PROVE  /\ Cardinality({s \in Slot : ha[s] = a})
            + Cardinality({b \in Allocator : st[b] = "live" /\ pa[b] = a})
            + Cardinality({b \in Allocator : st[b] = "live" /\ de[b] = a})
            + Drops(to, a)
            + Decrements(to, a)
            = Sum(st, pa, de, ha, to, a)
         /\ Times(ha, a) \in Nat
         /\ Times(LiveOf(st, pa), a) \in Nat /\ Times(LiveOf(st, de), a) \in Nat
         /\ Drops(to, a) \in Nat
         /\ Decrements(to, a) \in Nat
<1>1. a # None
  BY AllocRefAssumption
<1> DEFINE H == {s \in Slot : ha[s] = a}
           P == {b \in Allocator : st[b] = "live" /\ pa[b] = a}
           D == {b \in Allocator : st[b] = "live" /\ de[b] = a}
<1>2. H = {s \in DOMAIN ha : ha[s] = a}
  OBVIOUS
<1>3. P = {b \in DOMAIN LiveOf(st, pa) : LiveOf(st, pa)[b] = a}
  BY <1>1 DEF LiveOf
<1>4. D = {b \in DOMAIN LiveOf(st, de) : LiveOf(st, de)[b] = a}
  BY <1>1 DEF LiveOf
<1>5. IsFiniteSet(H) /\ IsFiniteSet(P) /\ IsFiniteSet(D)
  <2>1. H \in SUBSET Slot /\ P \in SUBSET Allocator /\ D \in SUBSET Allocator
    OBVIOUS
  <2> HIDE DEF H, P, D
  <2> QED
    BY <2>1, FS_Subset, AllocRefAssumption
<1>6. /\ IsFiniteSet(TasksIn(to, DropTask(a)))
      /\ IsFiniteSet(TasksIn(to, DecrementTask(a)))
  BY DEF FiniteTasks
<1>7. /\ Times(ha, a) = Cardinality(H)
      /\ Times(LiveOf(st, pa), a) = Cardinality(P)
      /\ Times(LiveOf(st, de), a) = Cardinality(D)
  BY <1>2, <1>3, <1>4 DEF Times
<1>8. Cardinality(H) \in Nat /\ Cardinality(P) \in Nat /\ Cardinality(D) \in Nat
  <2> HIDE DEF H, P, D
  <2> QED
    BY <1>5, FS_CardinalityType
<1>9. /\ Drops(to, a) \in Nat
      /\ Decrements(to, a) \in Nat
  BY <1>6, FS_CardinalityType DEF Drops, Decrements
<1> QED
  BY <1>7, <1>8, <1>9 DEF Sum

\* The destructor of a handle is pushed, unless it is null.
LEMMA DropsOfTimes ==
  ASSUME NEW h \in Allocator \cup {None}, NEW s \in Seq(Task)
  PROVE  /\ DropsOf(h) \in Seq(Task) /\ DropsOf(h) \o s \in Seq(Task)
         /\ h = None => DropsOf(h) \o s = s
         /\ h # None => <<"drop", h>> \in Task /\ DropsOf(h) \o s = <<<<"drop", h>>>> \o s
         /\ \A a \in Allocator :
              /\ Times(s, DropTask(a)) \in Nat /\ Times(s, DecrementTask(a)) \in Nat
              /\ Times(DropsOf(h) \o s, DropTask(a)) = Times(s, DropTask(a)) + Same(h, a)
              /\ Times(DropsOf(h) \o s, DecrementTask(a)) = Times(s, DecrementTask(a))
<1>1. \A a \in Allocator : Times(s, DropTask(a)) \in Nat /\ Times(s, DecrementTask(a)) \in Nat
  BY TimesInSeq
<1>2. CASE h = None
  <2>1. DropsOf(h) = << >> /\ << >> \in Seq(Task)
    BY <1>2 DEF DropsOf
  <2>2. << >> \o s = s
    BY ConcatEmptySeq
  <2>3. \A a \in Allocator : Same(h, a) = 0
    BY <1>2, AllocRefAssumption DEF Same
  <2> DEFINE d == DropsOf(h) \o s
  <2>4. d = s /\ d \in Seq(Task)
    BY <2>1, <2>2
  <2> HIDE DEF d
  <2>5. \A a \in Allocator :
          /\ Times(d, DropTask(a)) = Times(s, DropTask(a)) + Same(h, a)
          /\ Times(d, DecrementTask(a)) = Times(s, DecrementTask(a))
    <3> SUFFICES ASSUME NEW a \in Allocator
                 PROVE  /\ Times(d, DropTask(a)) = Times(s, DropTask(a)) + Same(h, a)
                        /\ Times(d, DecrementTask(a)) = Times(s, DecrementTask(a))
      OBVIOUS
    <3> DEFINE x == DropTask(a)
               y == DecrementTask(a)
    <3>1. Times(s, x) \in Nat /\ Same(h, a) = 0
      BY <1>1, <2>3
    <3> HIDE DEF x, y
    <3>2. Times(d, x) = Times(s, x) + Same(h, a) /\ Times(d, y) = Times(s, y)
      BY <2>4, <3>1
    <3> QED
      BY <3>2 DEF x, y
  <2> QED
    BY <1>1, <1>2, <2>1, <2>4, <2>5 DEF d
<1>3. CASE h # None
  <2>1. <<"drop", h>> \in Task
    BY <1>3 DEF Task
  <2>2. DropsOf(h) = <<<<"drop", h>>>>
    BY <1>3 DEF DropsOf
  <2>3. DropsOf(h) \in Seq(Task)
    BY <2>1, <2>2
  <2>4. \A x : /\ <<<<"drop", h>>>> \o s \in Seq(Task)
               /\ Times(<<<<"drop", h>>>> \o s, x) = Times(s, x) + Same(<<"drop", h>>, x)
    BY <2>1, TimesPush
  <2>5. \A a \in Allocator : /\ Same(<<"drop", h>>, DropTask(a)) = Same(h, a)
                             /\ Same(<<"drop", h>>, DecrementTask(a)) = 0
    BY DEF Same, DropTask, DecrementTask
  <2> DEFINE d == DropsOf(h) \o s
  <2>6. d \in Seq(Task) /\ d = <<<<"drop", h>>>> \o s
    BY <2>2, <2>4
  <2>7. \A x : Times(d, x) = Times(s, x) + Same(<<"drop", h>>, x)
    BY <2>2, <2>4
  <2> HIDE DEF d
  <2>8. \A a \in Allocator :
          /\ Times(d, DropTask(a)) = Times(s, DropTask(a)) + Same(h, a)
          /\ Times(d, DecrementTask(a)) = Times(s, DecrementTask(a))
    <3> SUFFICES ASSUME NEW a \in Allocator
                 PROVE  /\ Times(d, DropTask(a)) = Times(s, DropTask(a)) + Same(h, a)
                        /\ Times(d, DecrementTask(a)) = Times(s, DecrementTask(a))
      OBVIOUS
    <3> DEFINE x == DropTask(a)
               y == DecrementTask(a)
    <3>1. /\ Times(s, x) \in Nat /\ Times(s, y) \in Nat
          /\ Same(<<"drop", h>>, x) = Same(h, a) /\ Same(<<"drop", h>>, y) = 0
      BY <1>1, <2>5
    <3> HIDE DEF x, y
    <3>2. Times(d, x) = Times(s, x) + Same(h, a) /\ Times(d, y) = Times(s, y)
      <4>1. /\ Times(d, x) = Times(s, x) + Same(<<"drop", h>>, x)
            /\ Times(d, y) = Times(s, y) + Same(<<"drop", h>>, y)
        BY <2>7
      <4> QED
        BY <3>1, <4>1
    <3> QED
      BY <3>2 DEF x, y
  <2> QED
    BY <1>1, <1>3, <2>1, <2>3, <2>6, <2>8 DEF d
<1> QED
  BY <1>2, <1>3

\* Which tasks are the same.
LEMMA TaskValues ==
  ASSUME NEW a, NEW x
  PROVE  /\ Same(<<"drop", a>>, DropTask(x)) = Same(a, x)
         /\ Same(<<"drop", a>>, DecrementTask(x)) = 0
         /\ Same(<<"decrement", a>>, DropTask(x)) = 0
         /\ Same(<<"decrement", a>>, DecrementTask(x)) = Same(a, x)
         /\ Same(<<"deallocate", a>>, DropTask(x)) = 0
         /\ Same(<<"deallocate", a>>, DecrementTask(x)) = 0
         /\ \A how \in {"copy", "move"}, s, r \in Slot :
              /\ Same(<<how, s, r>>, DropTask(x)) = 0
              /\ Same(<<how, s, r>>, DecrementTask(x)) = 0
BY DEF Same, DropTask, DecrementTask

-----------------------------------------------------------------------------
(***************************************************************************)
(* The order of tasks                                                      *)
(***************************************************************************)

\* An allocator whose memory is about to be given back is under destruction,
\* and its parent's handle is dropped next.
ParentNext(s, st, pa) ==
  \A i \in DOMAIN s, a \in Allocator : s[i] = <<"deallocate", a>> =>
    /\ st[a] \in {"dying", "freed"}
    /\ pa[a] # None => i + 1 \in DOMAIN s /\ s[i + 1] = <<"drop", pa[a]>>

\* An assignment is the last task, and its target is empty.
AssignsLast(u, s, ha) ==
  \A i \in DOMAIN s, how \in {"copy", "move"}, q, r \in Slot : s[i] = <<how, q, r>> =>
    i = Len(s) /\ q # r /\ Owner[r] = u /\ ha[r] = None

Ordered(u, s, st, pa, ha) == ParentNext(s, st, pa) /\ AssignsLast(u, s, ha)

LEMMA OrderedPush ==
  ASSUME NEW u, NEW s \in Seq(Task), NEW st, NEW pa, NEW ha, Ordered(u, s, st, pa, ha),
         NEW y \in {"drop", "decrement", "deallocate"} \X Allocator,
         \A a \in Allocator : y = <<"deallocate", a>> =>
           /\ st[a] \in {"dying", "freed"}
           /\ pa[a] # None => s # << >> /\ Head(s) = <<"drop", pa[a]>>
  PROVE  <<y>> \o s \in Seq(Task) /\ Ordered(u, <<y>> \o s, st, pa, ha)
<1> DEFINE p == <<y>> \o s
<1>1. y \in Task
  BY DEF Task
<1>2. /\ p \in Seq(Task) /\ Len(p) = Len(s) + 1 /\ DOMAIN p = 1..(Len(s) + 1) /\ p[1] = y
      /\ \A i \in DOMAIN s : p[i + 1] = s[i]
      /\ \A i \in DOMAIN p : i = 1 \/ (i - 1 \in DOMAIN s /\ p[i] = s[i - 1])
  BY <1>1, PushIndices
<1>3. DOMAIN s = 1..Len(s) /\ Len(s) \in Nat
  OBVIOUS
<1> HIDE DEF p
<1>4. ParentNext(p, st, pa)
  <2> SUFFICES ASSUME NEW i \in DOMAIN p, NEW a \in Allocator, p[i] = <<"deallocate", a>>
               PROVE  /\ st[a] \in {"dying", "freed"}
                      /\ pa[a] # None => i + 1 \in DOMAIN p /\ p[i + 1] = <<"drop", pa[a]>>
    BY DEF ParentNext
  <2>1. CASE i = 1
    <3>1. /\ st[a] \in {"dying", "freed"}
          /\ pa[a] # None => s # << >> /\ Head(s) = <<"drop", pa[a]>>
      BY <1>2, <2>1
    <3>2. s # << >> => 1 \in DOMAIN s /\ s[1] = Head(s)
      BY PopIndices
    <3>3. s # << >> => 1 + 1 \in DOMAIN p /\ p[1 + 1] = s[1]
      BY <1>2, <1>3, <3>2
    <3> QED
      BY <2>1, <3>1, <3>2, <3>3
  <2>2. CASE i # 1
    <3>1. i - 1 \in DOMAIN s /\ s[i - 1] = <<"deallocate", a>> /\ i \in Int
      BY <1>2, <2>2
    <3>2. /\ st[a] \in {"dying", "freed"}
          /\ pa[a] # None => (i - 1) + 1 \in DOMAIN s /\ s[(i - 1) + 1] = <<"drop", pa[a]>>
      BY <3>1 DEF Ordered, ParentNext
    <3>3. (i - 1) + 1 = i
      BY <3>1
    <3> QED
      BY <1>2, <1>3, <3>2, <3>3
  <2> QED
    BY <2>1, <2>2
<1>5. AssignsLast(u, p, ha)
  <2> SUFFICES ASSUME NEW i \in DOMAIN p, NEW how \in {"copy", "move"}, NEW q \in Slot, NEW r \in Slot,
                      p[i] = <<how, q, r>>
               PROVE  i = Len(p) /\ q # r /\ Owner[r] = u /\ ha[r] = None
    BY DEF AssignsLast
  <2>1. i # 1
    BY <1>2
  <2>2. i - 1 \in DOMAIN s /\ s[i - 1] = <<how, q, r>> /\ i \in Int
    BY <1>2, <2>1
  <2>3. i - 1 = Len(s) /\ q # r /\ Owner[r] = u /\ ha[r] = None
    BY <2>2 DEF Ordered, AssignsLast
  <2> QED
    BY <1>2, <1>3, <2>2, <2>3
<1> QED
  BY <1>2, <1>4, <1>5 DEF Ordered, p

LEMMA OrderedDrops ==
  ASSUME NEW u, NEW s \in Seq(Task), NEW st, NEW pa, NEW ha, Ordered(u, s, st, pa, ha),
         NEW h \in Allocator \cup {None}
  PROVE  DropsOf(h) \o s \in Seq(Task) /\ Ordered(u, DropsOf(h) \o s, st, pa, ha)
<1>1. CASE h = None
  BY <1>1, DropsOfTimes
<1>2. CASE h # None
  <2> DEFINE y == <<"drop", h>>
  <2>1. y \in {"drop", "decrement", "deallocate"} \X Allocator
    BY <1>2
  <2>2. \A a \in Allocator : y # <<"deallocate", a>>
    OBVIOUS
  <2>3. DropsOf(h) \o s = <<y>> \o s
    BY <1>2, DropsOfTimes
  <2> HIDE DEF y
  <2>4. <<y>> \o s \in Seq(Task) /\ Ordered(u, <<y>> \o s, st, pa, ha)
    BY <2>1, <2>2, OrderedPush
  <2> QED
    BY <2>3, <2>4
<1> QED
  BY <1>1, <1>2

\* The deletion of an allocator is followed by the drop of its parent's handle.
LEMMA OrderedDeallocate ==
  ASSUME NEW u, NEW s \in Seq(Task), NEW st, NEW pa, NEW ha, Ordered(u, s, st, pa, ha),
         NEW a \in Allocator, st[a] \in {"dying", "freed"}, pa[a] \in Allocator \cup {None}
  PROVE  /\ <<<<"deallocate", a>>>> \o (DropsOf(pa[a]) \o s) \in Seq(Task)
         /\ Ordered(u, <<<<"deallocate", a>>>> \o (DropsOf(pa[a]) \o s), st, pa, ha)
<1> DEFINE v == DropsOf(pa[a]) \o s
           y == <<"deallocate", a>>
<1>1. v \in Seq(Task) /\ Ordered(u, v, st, pa, ha)
  BY OrderedDrops
<1>2. ASSUME pa[a] # None PROVE v # << >> /\ Head(v) = <<"drop", pa[a]>>
  <2>1. <<"drop", pa[a]>> \in Task /\ v = <<<<"drop", pa[a]>>>> \o s
    BY <1>2, DropsOfTimes
  <2> HIDE DEF v
  <2> QED
    BY <2>1, PushElements
<1>3. y \in {"drop", "decrement", "deallocate"} \X Allocator
  OBVIOUS
<1>4. \A b \in Allocator : y = <<"deallocate", b>> => a = b
  OBVIOUS
<1> HIDE DEF v, y
<1>5. <<y>> \o v \in Seq(Task) /\ Ordered(u, <<y>> \o v, st, pa, ha)
  BY <1>1, <1>2, <1>3, <1>4, OrderedPush
<1> QED
  BY <1>5 DEF v, y

LEMMA OrderedPop ==
  ASSUME NEW u, NEW s \in Seq(Task), NEW st, NEW pa, NEW ha, Ordered(u, s, st, pa, ha),
         s # << >>
  PROVE  Ordered(u, Tail(s), st, pa, ha)
<1> DEFINE v == Tail(s)
<1>1. /\ v \in Seq(Task) /\ Len(s) = Len(v) + 1 /\ DOMAIN v = 1..(Len(s) - 1)
      /\ \A i \in DOMAIN v : i + 1 \in DOMAIN s /\ v[i] = s[i + 1]
      /\ \A i \in DOMAIN s : i = 1 \/ (i - 1 \in DOMAIN v /\ v[i - 1] = s[i])
  BY PopIndices
<1>2. DOMAIN s = 1..Len(s) /\ Len(s) \in Nat
  OBVIOUS
<1> HIDE DEF v
<1>3. ParentNext(v, st, pa)
  <2> SUFFICES ASSUME NEW i \in DOMAIN v, NEW a \in Allocator, v[i] = <<"deallocate", a>>
               PROVE  /\ st[a] \in {"dying", "freed"}
                      /\ pa[a] # None => i + 1 \in DOMAIN v /\ v[i + 1] = <<"drop", pa[a]>>
    BY DEF ParentNext
  <2>1. i + 1 \in DOMAIN s /\ s[i + 1] = <<"deallocate", a>> /\ i \in Nat
    BY <1>1, <1>2
  <2>2. /\ st[a] \in {"dying", "freed"}
        /\ pa[a] # None => (i + 1) + 1 \in DOMAIN s /\ s[(i + 1) + 1] = <<"drop", pa[a]>>
    BY <2>1 DEF Ordered, ParentNext
  <2>3. (i + 1) + 1 # 1 /\ ((i + 1) + 1) - 1 = i + 1
    BY <2>1
  <2> QED
    BY <1>1, <2>2, <2>3
<1>4. AssignsLast(u, v, ha)
  <2> SUFFICES ASSUME NEW i \in DOMAIN v, NEW how \in {"copy", "move"}, NEW q \in Slot, NEW r \in Slot,
                      v[i] = <<how, q, r>>
               PROVE  i = Len(v) /\ q # r /\ Owner[r] = u /\ ha[r] = None
    BY DEF AssignsLast
  <2>1. i + 1 \in DOMAIN s /\ s[i + 1] = <<how, q, r>> /\ i \in Nat
    BY <1>1, <1>2
  <2>2. i + 1 = Len(s) /\ q # r /\ Owner[r] = u /\ ha[r] = None
    BY <2>1 DEF Ordered, AssignsLast
  <2>3. Len(v) \in Nat
    BY <1>1
  <2> QED
    BY <1>1, <2>1, <2>2, <2>3
<1> QED
  BY <1>3, <1>4 DEF Ordered, v

LEMMA OrderedEmpty ==
  ASSUME NEW u, NEW st, NEW pa, NEW ha
  PROVE  Ordered(u, << >>, st, pa, ha)
BY DEF Ordered, ParentNext, AssignsLast

\* An assignment begins.
LEMMA OrderedAssign ==
  ASSUME NEW u, NEW st, NEW pa, NEW ha, NEW how \in {"copy", "move"},
         NEW q \in Slot, NEW r \in Slot, q # r, Owner[r] = u, ha[r] = None
  PROVE  /\ <<how, q, r>> \in Task /\ <<<<how, q, r>>>> \in Seq(Task)
         /\ Ordered(u, <<<<how, q, r>>>>, st, pa, ha)
<1> DEFINE y == <<how, q, r>>
<1>1. y \in Task
  BY DEF Task
<1>2. \A a \in Allocator : y # <<"deallocate", a>>
  OBVIOUS
<1>3. \A h \in {"copy", "move"}, m, n \in Slot : y = <<h, m, n>> => m = q /\ n = r
  OBVIOUS
<1> HIDE DEF y
<1>4. /\ <<y>> \in Seq(Task) /\ Len(<<y>>) = 1 /\ DOMAIN <<y>> = {1} /\ <<y>>[1] = y
  BY <1>1
<1>5. ParentNext(<<y>>, st, pa)
  BY <1>2, <1>4 DEF ParentNext
<1>6. AssignsLast(u, <<y>>, ha)
  BY <1>3, <1>4 DEF AssignsLast
<1> QED
  BY <1>1, <1>4, <1>5, <1>6 DEF Ordered, y

\* The fields change elsewhere.
LEMMA OrderedKeeps ==
  ASSUME NEW u, NEW s \in Seq(Task), NEW st, NEW pa, NEW ha, Ordered(u, s, st, pa, ha),
         NEW st2, NEW pa2, NEW ha2,
         \A a \in Allocator : st[a] \in {"dying", "freed"} =>
           st2[a] \in {"dying", "freed"} /\ pa2[a] = pa[a],
         \A r \in Slot : Owner[r] = u /\ ha[r] = None /\ s # << >> => ha2[r] = None
  PROVE  Ordered(u, s, st2, pa2, ha2)
<1>1. ParentNext(s, st2, pa2)
  BY DEF Ordered, ParentNext
<1>2. \A i \in DOMAIN s : s # << >>
  OBVIOUS
<1>3. AssignsLast(u, s, ha2)
  BY <1>2 DEF Ordered, AssignsLast
<1> QED
  BY <1>1, <1>3 DEF Ordered

-----------------------------------------------------------------------------
(***************************************************************************)
(* What a step does to the handles                                         *)
(***************************************************************************)

\* The list of t changes.
LEMMA NewList ==
  ASSUME NEW f \in Lists, FiniteTasks(f), NEW g \in Lists,
         NEW t \in Thread, \A u \in Thread \ {t} : g[u] = f[u], NEW a \in Allocator
  PROVE  /\ FiniteTasks(g)
         /\ Drops(f, a) \in Nat /\ Decrements(f, a) \in Nat
         /\ Times(f[t], DropTask(a)) \in Nat /\ Times(f[t], DecrementTask(a)) \in Nat
         /\ Times(g[t], DropTask(a)) \in Nat /\ Times(g[t], DecrementTask(a)) \in Nat
         /\ Times(f[t], DropTask(a)) <= Drops(f, a)
         /\ Times(f[t], DecrementTask(a)) <= Decrements(f, a)
         /\ Drops(g, a)
              = Drops(f, a) - Times(f[t], DropTask(a)) + Times(g[t], DropTask(a))
         /\ Decrements(g, a)
              = Decrements(f, a) - Times(f[t], DecrementTask(a)) + Times(g[t], DecrementTask(a))
<1>1. ASSUME NEW x, IsFiniteSet(TasksIn(f, x))
      PROVE  /\ IsFiniteSet(TasksIn(g, x))
             /\ Times(f[t], x) \in Nat /\ Times(g[t], x) \in Nat
             /\ Cardinality(TasksIn(f, x)) \in Nat
             /\ Times(f[t], x) <= Cardinality(TasksIn(f, x))
             /\ Cardinality(TasksIn(g, x))
                  = Cardinality(TasksIn(f, x)) - Times(f[t], x) + Times(g[t], x)
  BY <1>1, TaskMoves
<1>2. FiniteTasks(g)
  BY <1>1 DEF FiniteTasks
<1>3. IsFiniteSet(TasksIn(f, DropTask(a))) /\ IsFiniteSet(TasksIn(f, DecrementTask(a)))
  BY DEF FiniteTasks
<1> QED
  BY <1>1, <1>2, <1>3 DEF Drops, Decrements

LEMMA LessFirst ==
  ASSUME NEW m \in Int, NEW n \in Int, NEW p \in Int, NEW q \in Int, NEW r \in Int, NEW i \in Nat,
         n = m - p + r, p = i + q, p <= m
  PROVE  n = m - q - i + r /\ q <= m
OBVIOUS

\* Thread t had a first task.
LEMMA FirstReplaced ==
  ASSUME NEW f \in Lists, FiniteTasks(f), NEW g \in Lists,
         NEW t \in Thread, \A u \in Thread \ {t} : g[u] = f[u], NEW a \in Allocator,
         f[t] # << >>
  PROVE  /\ Drops(g, a) = Drops(f, a) - Same(Head(f[t]), DropTask(a))
              - Times(Tail(f[t]), DropTask(a)) + Times(g[t], DropTask(a))
         /\ Decrements(g, a) = Decrements(f, a) - Same(Head(f[t]), DecrementTask(a))
              - Times(Tail(f[t]), DecrementTask(a)) + Times(g[t], DecrementTask(a))
         /\ Times(Tail(f[t]), DropTask(a)) \in Nat
         /\ Times(Tail(f[t]), DecrementTask(a)) \in Nat
         /\ Same(Head(f[t]), DropTask(a)) <= Drops(f, a)
         /\ Same(Head(f[t]), DecrementTask(a)) <= Decrements(f, a)
<1> DEFINE s == f[t]
           d == DropTask(a)
           e == DecrementTask(a)
           y == Head(s)
           v == Tail(s)
<1>1. s \in Seq(Task) /\ s # << >>
  BY DEF Lists
<1>2. \A x : /\ Times(s, x) \in Nat /\ Times(v, x) \in Nat
             /\ Times(s, x) = Times(v, x) + Same(y, x)
             /\ Same(y, x) \in Nat
  <2>1. \A x : /\ Times(s, x) \in Nat /\ Times(v, x) \in Nat
               /\ Times(s, x) = Times(v, x) + Same(y, x)
    <3> HIDE DEF s
    <3> QED
      BY <1>1, TimesPop
  <2>2. \A x : Same(y, x) \in Nat
    BY DEF Same
  <2> QED
    BY <2>1, <2>2
<1>3. /\ Drops(f, a) \in Nat /\ Decrements(f, a) \in Nat
      /\ Times(g[t], d) \in Nat /\ Times(g[t], e) \in Nat
      /\ Times(s, d) <= Drops(f, a) /\ Times(s, e) <= Decrements(f, a)
      /\ Drops(g, a) = Drops(f, a) - Times(s, d) + Times(g[t], d)
      /\ Decrements(g, a) = Decrements(f, a) - Times(s, e) + Times(g[t], e)
  BY NewList
<1>4. /\ Times(s, d) \in Nat /\ Times(s, e) \in Nat
      /\ Times(s, d) = Times(v, d) + Same(y, d) /\ Times(v, d) \in Nat
      /\ Times(s, e) = Times(v, e) + Same(y, e) /\ Times(v, e) \in Nat
      /\ Same(y, d) \in Nat /\ Same(y, e) \in Nat
  BY <1>2
<1> HIDE DEF d, e, s, y, v
<1>5. /\ Drops(g, a) = Drops(f, a) - Same(y, d) - Times(v, d) + Times(g[t], d)
      /\ Same(y, d) <= Drops(f, a)
  <2> DEFINE m == Drops(f, a)
             n == Drops(g, a)
             p == Times(s, d)
             q == Same(y, d)
             r == Times(g[t], d)
             i == Times(v, d)
  <2>1. m \in Nat /\ r \in Nat /\ p <= m /\ n = m - p + r
    BY <1>3
  <2>2. p \in Nat /\ p = i + q /\ i \in Nat /\ q \in Nat
    BY <1>4
  <2> HIDE DEF m, n, p, q, r, i
  <2>3. n \in Int
    BY <2>1, <2>2
  <2>4. n = m - q - i + r /\ q <= m
    BY <2>1, <2>2, <2>3, LessFirst
  <2> QED
    BY <2>4 DEF m, n, p, q, r, i
<1>6. /\ Decrements(g, a) = Decrements(f, a) - Same(y, e) - Times(v, e) + Times(g[t], e)
      /\ Same(y, e) <= Decrements(f, a)
  <2> DEFINE m == Decrements(f, a)
             n == Decrements(g, a)
             p == Times(s, e)
             q == Same(y, e)
             r == Times(g[t], e)
             i == Times(v, e)
  <2>1. m \in Nat /\ r \in Nat /\ p <= m /\ n = m - p + r
    BY <1>3
  <2>2. p \in Nat /\ p = i + q /\ i \in Nat /\ q \in Nat
    BY <1>4
  <2> HIDE DEF m, n, p, q, r, i
  <2>3. n \in Int
    BY <2>1, <2>2
  <2>4. n = m - q - i + r /\ q <= m
    BY <2>1, <2>2, <2>3, LessFirst
  <2> QED
    BY <2>4 DEF m, n, p, q, r, i
<1> QED
  BY <1>4, <1>5, <1>6 DEF d, e, s, y, v

LEMMA SameNat ==
  ASSUME NEW a \in Allocator
  PROVE  Same(None, a) = 0 /\ \A h : Same(h, a) \in Nat
BY AllocRefAssumption DEF Same

\* What variables refer to.
Holdings == [Slot -> Allocator \cup {None}]

\* One variable changes.
LEMMA SlotChanges ==
  ASSUME NEW f \in Holdings, NEW g \in Holdings,
         NEW s \in Slot, \A r \in Slot \ {s} : g[r] = f[r], NEW a \in Allocator
  PROVE  /\ Times(f, a) \in Nat /\ Times(g, a) \in Nat
         /\ Times(g, a) = Times(f, a) - Same(f[s], a) + Same(g[s], a)
<1>1. IsFiniteSet(Slot) /\ DOMAIN f = Slot /\ DOMAIN g = Slot
  BY AllocRefAssumption DEF Holdings
<1> QED
  BY <1>1, TimesExcept

\* What s refers to is moved to r, which is empty.
LEMMA SlotMoves ==
  ASSUME NEW f \in Holdings, NEW s \in Slot, NEW r \in Slot,
         r # s, f[r] = None, NEW a \in Allocator
  PROVE  Times([f EXCEPT ![r] = f[s], ![s] = None], a) = Times(f, a)
<1> DEFINE g == [f EXCEPT ![r] = f[s]]
           h == [f EXCEPT ![r] = f[s], ![s] = None]
<1>1. g \in Holdings /\ g[r] = f[s] /\ \A q \in Slot \ {r} : g[q] = f[q]
  BY DEF Holdings
<1>2. h \in Holdings /\ h[s] = None /\ \A q \in Slot \ {s} : h[q] = g[q]
  BY DEF Holdings
<1> HIDE DEF g, h
<1>3. /\ Times(f, a) \in Nat /\ Times(g, a) \in Nat
      /\ Times(g, a) = Times(f, a) - Same(f[r], a) + Same(f[s], a)
  BY <1>1, SlotChanges
<1>4. /\ Times(h, a) \in Nat
      /\ Times(h, a) = Times(g, a) - Same(f[s], a) + Same(None, a)
  BY <1>1, <1>2, SlotChanges
<1>5. Same(f[r], a) = 0 /\ Same(None, a) = 0 /\ Same(f[s], a) \in Nat
  BY SameNat
<1>6. Times(h, a) = Times(f, a)
  BY <1>3, <1>4, <1>5
<1> QED
  BY <1>6 DEF h

Lives(st, b) == st[b] = "live"

\* An allocator is made.
LEMMA FieldMade ==
  ASSUME NEW st, NEW st2, NEW f, NEW f2, NEW b \in Allocator, ~Lives(st, b), Lives(st2, b),
         \A i \in Allocator \ {b} : st2[i] = st[i] /\ f2[i] = f[i], NEW a \in Allocator
  PROVE  Times(LiveOf(st2, f2), a) = Times(LiveOf(st, f), a) + Same(f2[b], a)
<1> DEFINE g == LiveOf(st, f)
           m == LiveOf(st2, f2)
<1>1. IsFiniteSet(Allocator)
  BY AllocRefAssumption
<1>2. DOMAIN g = Allocator /\ g[b] = None
  BY DEF LiveOf, Lives
<1>3. DOMAIN m = Allocator /\ m[b] = f2[b] /\ \A i \in Allocator \ {b} : m[i] = g[i]
  BY DEF LiveOf, Lives
<1> HIDE DEF g, m
<1>4. Times(g, a) \in Nat /\ Times(m, a) = Times(g, a) - Same(None, a) + Same(f2[b], a)
  BY <1>1, <1>2, <1>3, TimesExcept
<1>5. Same(None, a) = 0 /\ Same(f2[b], a) \in Nat
  BY SameNat
<1>6. Times(m, a) = Times(g, a) + Same(f2[b], a)
  BY <1>4, <1>5
<1> QED
  BY <1>6 DEF g, m

\* An allocator is no longer one that exists.
LEMMA FieldDies ==
  ASSUME NEW st, NEW st2, NEW f, NEW b \in Allocator, Lives(st, b), ~Lives(st2, b),
         \A i \in Allocator \ {b} : st2[i] = st[i], NEW a \in Allocator
  PROVE  Times(LiveOf(st2, f), a) = Times(LiveOf(st, f), a) - Same(f[b], a)
<1> DEFINE g == LiveOf(st, f)
           m == LiveOf(st2, f)
<1>1. IsFiniteSet(Allocator)
  BY AllocRefAssumption
<1>2. DOMAIN g = Allocator /\ g[b] = f[b]
  BY DEF LiveOf, Lives
<1>3. DOMAIN m = Allocator /\ m[b] = None /\ \A i \in Allocator \ {b} : m[i] = g[i]
  BY DEF LiveOf, Lives
<1> HIDE DEF g, m
<1>4. Times(g, a) \in Nat /\ Times(m, a) = Times(g, a) - Same(f[b], a) + Same(None, a)
  BY <1>1, <1>2, <1>3, TimesExcept
<1>5. Same(None, a) = 0 /\ Same(f[b], a) \in Nat
  BY SameNat
<1>6. Times(m, a) = Times(g, a) - Same(f[b], a)
  BY <1>4, <1>5
<1> QED
  BY <1>6 DEF g, m

-----------------------------------------------------------------------------
(***************************************************************************)
(* The invariant                                                           *)
(***************************************************************************)

HandleInv ==
  /\ TypeOK /\ FiniteTasks(todo)
  /\ CountExact
  /\ \A a \in Allocator : state[a] # "live" => Handles(a) = 0
  /\ \A u \in Thread : Ordered(u, todo[u], state, parent, handle)

LEMMA HandlesNow ==
  ASSUME TypeOK, FiniteTasks(todo), NEW a \in Allocator
  PROVE  /\ Handles(a) = Sum(state, parent, delegate, handle, todo, a)
         /\ Times(handle, a) \in Nat
         /\ Times(LiveOf(state, parent), a) \in Nat /\ Times(LiveOf(state, delegate), a) \in Nat
         /\ Drops(todo, a) \in Nat /\ Decrements(todo, a) \in Nat
         /\ Handles(a) \in Nat
<1>1. handle \in [Slot -> Allocator \cup {None}] /\ todo \in Lists
  BY DEF TypeOK, Lists
<1>2. /\ Tasks(<<"drop", a>>) = TasksIn(todo, DropTask(a))
      /\ Tasks(<<"decrement", a>>) = TasksIn(todo, DecrementTask(a))
  BY DEF Tasks, TasksIn, TasksOf, DropTask, DecrementTask
<1>3. /\ Handles(a) = Sum(state, parent, delegate, handle, todo, a)
      /\ Times(handle, a) \in Nat
      /\ Times(LiveOf(state, parent), a) \in Nat /\ Times(LiveOf(state, delegate), a) \in Nat
      /\ Drops(todo, a) \in Nat /\ Decrements(todo, a) \in Nat
  BY <1>1, <1>2, HandlesSum DEF Handles, Drops, Decrements, Lists
<1>4. Sum(state, parent, delegate, handle, todo, a) \in Nat
  BY <1>3 DEF Sum
<1> QED
  BY <1>3, <1>4

LEMMA HandlesThen ==
  ASSUME TypeOK', FiniteTasks(todo'), NEW a \in Allocator
  PROVE  /\ Handles(a)' = Sum(state', parent', delegate', handle', todo', a)
         /\ Handles(a)' \in Nat
<1>1. handle' \in [Slot -> Allocator \cup {None}] /\ todo' \in Lists
  BY DEF TypeOK, Lists
<1>2. /\ Tasks(<<"drop", a>>)' = TasksIn(todo', DropTask(a))
      /\ Tasks(<<"decrement", a>>)' = TasksIn(todo', DecrementTask(a))
  BY DEF Tasks, TasksIn, TasksOf, DropTask, DecrementTask
<1>3. /\ Handles(a)' = Sum(state', parent', delegate', handle', todo', a)
      /\ Times(handle', a) \in Nat
      /\ Times(LiveOf(state', parent'), a) \in Nat /\ Times(LiveOf(state', delegate'), a) \in Nat
      /\ Drops(todo', a) \in Nat /\ Decrements(todo', a) \in Nat
  BY <1>1, <1>2, HandlesSum DEF Handles, Drops, Decrements, Lists
<1>4. Sum(state', parent', delegate', handle', todo', a) \in Nat
  BY <1>3 DEF Sum
<1> QED
  BY <1>3, <1>4

\* Either no handle is made, or one of v, which has one.
LEMMA Balanced ==
  ASSUME HandleInv, TypeOK', FiniteTasks(todo'), state' = state,
         NEW v \in Allocator \cup {None}, v # None => Handles(v) > 0,
         \A a \in Allocator : /\ Handles(a)' = Handles(a) + Same(v, a)
                              /\ refcnt'[a] = refcnt[a] + Same(v, a),
         \A u \in Thread : Ordered(u, todo'[u], state', parent', handle')
  PROVE  HandleInv'
<1>1. CountExact'
  BY DEF HandleInv, CountExact
<1>2. ASSUME NEW a \in Allocator, state'[a] # "live" PROVE Handles(a)' = 0
  <2>1. Handles(a) = 0
    BY <1>2 DEF HandleInv
  <2>2. a # v
    BY <2>1, AllocRefAssumption
  <2>3. Same(v, a) = 0
    BY <2>2 DEF Same
  <2> QED
    BY <2>1, <2>3
<1> QED
  BY <1>1, <1>2 DEF HandleInv

\* No destructor in s is about to decrement a count.
NoDecrement(s) == \A a \in Allocator : Times(s, DecrementTask(a)) = 0

\* A thread that is idle destroys the variable s, and then has rest to do.
LEMMA LetGo ==
  ASSUME HandleInv, NEW t \in Thread, NEW s \in Slot, Idle(t), NEW rest \in Seq(Task),
         \A a \in Allocator : Times(rest, DropTask(a)) = 0 /\ Times(rest, DecrementTask(a)) = 0,
         Ordered(t, rest, state, parent, handle'),
         todo' \in Lists, todo'[t] = DropsOf(handle[s]) \o rest,
         \A u \in Thread \ {t} : todo'[u] = todo[u],
         handle' \in Holdings, handle'[s] = None, \A r \in Slot \ {s} : handle'[r] = handle[r],
         UNCHANGED <<running, state, parent, delegate, refcnt>>
  PROVE  /\ HandleInv' /\ \A a \in Allocator : Handles(a)' = Handles(a)
         /\ NoDecrement(todo'[t])
<1> DEFINE h == handle[s]
           w == DropsOf(h) \o rest
<1>1. /\ handle \in Holdings /\ h \in Allocator \cup {None}
      /\ todo \in Lists /\ TypeOK /\ FiniteTasks(todo)
  BY DEF HandleInv, TypeOK, Lists, Holdings
<1>2. /\ w \in Seq(Task) /\ Ordered(t, w, state, parent, handle')
      /\ \A a \in Allocator :
           /\ Times(rest, DropTask(a)) \in Nat /\ Times(rest, DecrementTask(a)) \in Nat
           /\ Times(w, DropTask(a)) = Times(rest, DropTask(a)) + Same(h, a)
           /\ Times(w, DecrementTask(a)) = Times(rest, DecrementTask(a))
  <2> HIDE DEF h
  <2> QED
    BY <1>1, OrderedDrops, DropsOfTimes
<1>3. todo'[t] = w
  OBVIOUS
<1> HIDE DEF w
<1>4. TypeOK'
  BY <1>1 DEF TypeOK, Lists, Holdings
<1>5. FiniteTasks(todo')
  <2>1. CASE Allocator = {}
    BY <2>1 DEF FiniteTasks
  <2>2. CASE Allocator # {}
    BY <1>1, <2>2, NewList
  <2> QED
    BY <2>1, <2>2
<1>6. ASSUME NEW a \in Allocator PROVE Handles(a)' = Handles(a)
  <2>1. Times(handle, a) \in Nat /\ Times(handle', a) = Times(handle, a) - Same(h, a)
    <3>1. /\ Times(handle, a) \in Nat
          /\ Times(handle', a) = Times(handle, a) - Same(h, a) + Same(None, a)
      BY <1>1, SlotChanges
    <3>2. Same(None, a) = 0 /\ Same(h, a) \in Nat
      BY SameNat
    <3> QED
      BY <3>1, <3>2
  <2>2. Times(todo[t], DropTask(a)) = 0 /\ Times(todo[t], DecrementTask(a)) = 0
    BY TimesEmpty DEF Idle
  <2>3. /\ Drops(todo, a) \in Nat /\ Decrements(todo, a) \in Nat
        /\ Drops(todo', a) = Drops(todo, a) - 0 + Times(w, DropTask(a))
        /\ Decrements(todo', a) = Decrements(todo, a) - 0 + Times(w, DecrementTask(a))
    <3>1. /\ Drops(todo, a) \in Nat /\ Decrements(todo, a) \in Nat
          /\ Drops(todo', a)
               = Drops(todo, a) - Times(todo[t], DropTask(a)) + Times(todo'[t], DropTask(a))
          /\ Decrements(todo', a)
               = Decrements(todo, a) - Times(todo[t], DecrementTask(a))
                 + Times(todo'[t], DecrementTask(a))
      BY <1>1, NewList
    <3> QED
      BY <1>3, <2>2, <3>1, Zenon
  <2>4. Times(w, DropTask(a)) = Same(h, a) /\ Times(w, DecrementTask(a)) = 0
    <3>1. /\ Times(w, DropTask(a)) = Times(rest, DropTask(a)) + Same(h, a)
          /\ Times(w, DecrementTask(a)) = Times(rest, DecrementTask(a))
          /\ Times(rest, DropTask(a)) = 0 /\ Times(rest, DecrementTask(a)) = 0
      BY <1>2
    <3>2. Same(h, a) \in Nat
      BY SameNat
    <3> QED
      BY <3>1, <3>2
  <2>5. Same(h, a) \in Nat
    BY SameNat
  <2>6. /\ Times(LiveOf(state, parent), a) \in Nat /\ Times(LiveOf(state, delegate), a) \in Nat
        /\ Handles(a) = Sum(state, parent, delegate, handle, todo, a)
    BY <1>1, HandlesNow
  <2>7. Handles(a)' = Sum(state, parent, delegate, handle', todo', a)
    BY <1>4, <1>5, HandlesThen
  <2> HIDE DEF h
  <2> QED
    BY <2>1, <2>3, <2>4, <2>5, <2>6, <2>7 DEF Sum
<1>7. ASSUME NEW u \in Thread PROVE Ordered(u, todo'[u], state', parent', handle')
  <2>1. CASE u = t
    BY <1>2, <1>3, <2>1
  <2>2. CASE u # t
    <3>1. todo[u] \in Seq(Task) /\ Ordered(u, todo[u], state, parent, handle)
      BY <1>1 DEF Lists, HandleInv
    <3>2. \A r \in Slot : handle[r] = None => handle'[r] = None
      OBVIOUS
    <3>3. Ordered(u, todo[u], state', parent', handle')
      BY <3>1, <3>2, OrderedKeeps
    <3> QED
      BY <2>2, <3>3
  <2> QED
    BY <2>1, <2>2
<1>8. \A a \in Allocator : /\ Handles(a)' = Handles(a) + Same(None, a)
                           /\ refcnt'[a] = refcnt[a] + Same(None, a)
  <2> SUFFICES ASSUME NEW a \in Allocator
               PROVE  /\ Handles(a)' = Handles(a) + Same(None, a)
                      /\ refcnt'[a] = refcnt[a] + Same(None, a)
    OBVIOUS
  <2>1. Same(None, a) = 0 /\ refcnt[a] \in Nat
    BY <1>1, SameNat DEF TypeOK
  <2>2. Handles(a) \in Nat
    BY <1>1, HandlesNow
  <2> QED
    BY <1>6, <2>1, <2>2
<1>9. HandleInv'
  BY <1>4, <1>5, <1>7, <1>8, Balanced
<1>10. NoDecrement(todo'[t])
  BY <1>2, <1>3 DEF NoDecrement
<1> QED
  BY <1>6, <1>9, <1>10

LEMMA DropsOfType ==
  ASSUME NEW h \in Allocator \cup {None}
  PROVE  /\ << >> \in Seq(Task) /\ DropsOf(h) \in Seq(Task)
         /\ DropsOf(h) \o << >> = DropsOf(h)
<1>1. << >> \in Seq(Task)
  OBVIOUS
<1>2. DropsOf(h) \in Seq(Task)
  BY <1>1, DropsOfTimes
<1> QED
  BY <1>1, <1>2, ConcatEmptySeq

LEMMA TimesOne ==
  ASSUME NEW y, NEW x
  PROVE  Times(<<y>>, x) = Same(y, x)
<1> DEFINE S == {i \in DOMAIN <<y>> : <<y>>[i] = x}
<1>1. S = IF y = x THEN {1} ELSE {}
  OBVIOUS
<1>2. Times(<<y>>, x) = Cardinality(S)
  BY DEF Times
<1> HIDE DEF S
<1> QED
  BY <1>1, <1>2, FS_EmptySet, FS_Singleton DEF Same

LEMMA DropKeeps ==
  ASSUME HandleInv, NEW t \in Thread, NEW s \in Slot, Drop(t, s), running' = running
  PROVE  /\ HandleInv' /\ \A a \in Allocator : Handles(a)' = Handles(a)
         /\ NoDecrement(todo'[t])
<1>1. /\ handle \in Holdings /\ todo \in Lists /\ handle[s] \in Allocator \cup {None}
      /\ Idle(t) /\ UNCHANGED <<state, parent, delegate, refcnt>>
  BY DEF HandleInv, TypeOK, Holdings, Lists, Drop
<1>2. handle' \in Holdings /\ handle'[s] = None /\ \A r \in Slot \ {s} : handle'[r] = handle[r]
  BY <1>1 DEF Drop, Holdings
<1>3. << >> \in Seq(Task) /\ DropsOf(handle[s]) \o << >> = DropsOf(handle[s])
  BY <1>1, DropsOfType
<1>4. /\ todo' \in Lists /\ todo'[t] = DropsOf(handle[s]) \o << >>
      /\ \A u \in Thread \ {t} : todo'[u] = todo[u]
  <2>1. DropsOf(handle[s]) \in Seq(Task)
    BY <1>1, DropsOfType
  <2>2. todo' = [todo EXCEPT ![t] = DropsOf(handle[s])]
    BY DEF Drop
  <2> QED
    BY <1>1, <1>3, <2>1, <2>2 DEF Lists
<1>5. \A a \in Allocator : Times(<< >>, DropTask(a)) = 0 /\ Times(<< >>, DecrementTask(a)) = 0
  BY TimesEmpty
<1>6. Ordered(t, << >>, state, parent, handle')
  BY OrderedEmpty
<1> QED
  BY <1>1, <1>2, <1>3, <1>4, <1>5, <1>6, LetGo

LEMMA AssignKeeps ==
  ASSUME HandleInv, NEW t \in Thread, NEW s \in Slot, NEW r \in Slot, Owner[r] = t,
         NEW how \in {"copy", "move"}, Assign(t, s, r, how), running' = running
  PROVE  /\ HandleInv' /\ \A a \in Allocator : Handles(a)' = Handles(a)
         /\ NoDecrement(todo'[t])
<1> DEFINE y == <<how, s, r>>
           rest == <<y>>
<1>1. /\ handle \in Holdings /\ todo \in Lists /\ handle[r] \in Allocator \cup {None}
      /\ Idle(t) /\ s # r /\ UNCHANGED <<state, parent, delegate, refcnt>>
  BY DEF HandleInv, TypeOK, Holdings, Lists, Assign
<1>2. handle' \in Holdings /\ handle'[r] = None /\ \A q \in Slot \ {r} : handle'[q] = handle[q]
  BY <1>1 DEF Assign, Holdings
<1>3. y \in Task /\ rest \in Seq(Task) /\ Ordered(t, rest, state, parent, handle')
  BY <1>1, <1>2, OrderedAssign
<1>4. /\ todo' \in Lists /\ todo'[t] = DropsOf(handle[r]) \o rest
      /\ \A u \in Thread \ {t} : todo'[u] = todo[u]
  <2>1. DropsOf(handle[r]) \o rest \in Seq(Task)
    <3> HIDE DEF rest
    <3> QED
      BY <1>1, <1>3, DropsOfTimes
  <2>2. todo' = [todo EXCEPT ![t] = DropsOf(handle[r]) \o rest]
    BY DEF Assign
  <2> HIDE DEF rest
  <2> QED
    BY <1>1, <2>1, <2>2 DEF Lists
<1>5. ASSUME NEW a \in Allocator
      PROVE  Times(rest, DropTask(a)) = 0 /\ Times(rest, DecrementTask(a)) = 0
  <2>1. Same(y, DropTask(a)) = 0 /\ Same(y, DecrementTask(a)) = 0
    BY TaskValues
  <2>2. \A x : Times(rest, x) = Same(y, x)
    BY TimesOne
  <2> QED
    BY <2>1, <2>2
<1> HIDE DEF rest
<1> QED
  BY <1>1, <1>2, <1>3, <1>4, <1>5, LetGo

LEMMA TimesPositive ==
  ASSUME NEW f, IsFiniteSet(DOMAIN f), NEW i \in DOMAIN f
  PROVE  Times(f, f[i]) \in Nat /\ Times(f, f[i]) >= 1
<1> DEFINE S == {j \in DOMAIN f : f[j] = f[i]}
<1>1. S \in SUBSET DOMAIN f /\ i \in S
  OBVIOUS
<1>2. Times(f, f[i]) = Cardinality(S)
  BY DEF Times
<1> HIDE DEF S
<1>3. IsFiniteSet(S)
  BY <1>1, FS_Subset
<1>4. Cardinality(S) \in Nat /\ Cardinality(S) # 0
  BY <1>1, <1>3, FS_CardinalityType, FS_EmptySet
<1> QED
  BY <1>2, <1>4

\* What a variable refers to has a handle, and so exists.
LEMMA Held ==
  ASSUME HandleInv, NEW s \in Slot, handle[s] # None
  PROVE  handle[s] \in Allocator /\ Handles(handle[s]) > 0 /\ state[handle[s]] = "live"
<1> DEFINE a == handle[s]
<1>1. a \in Allocator /\ TypeOK /\ FiniteTasks(todo)
  BY DEF HandleInv, TypeOK
<1>2. IsFiniteSet(DOMAIN handle) /\ s \in DOMAIN handle
  BY AllocRefAssumption DEF HandleInv, TypeOK
<1>3. Times(handle, a) \in Nat /\ Times(handle, a) >= 1
  BY <1>2, TimesPositive
<1> HIDE DEF a
<1>4. Handles(a) > 0
  <2>1. /\ Handles(a) = Sum(state, parent, delegate, handle, todo, a)
        /\ Times(LiveOf(state, parent), a) \in Nat /\ Times(LiveOf(state, delegate), a) \in Nat
        /\ Drops(todo, a) \in Nat /\ Decrements(todo, a) \in Nat
    BY <1>1, HandlesNow
  <2> QED
    BY <1>3, <2>1 DEF Sum
<1>5. state[a] = "live"
  <2>1. state[a] # "live" => Handles(a) = 0
    BY <1>1 DEF HandleInv
  <2> QED
    BY <1>4, <2>1
<1> QED
  BY <1>1, <1>4, <1>5 DEF a

LEMMA CountedOnce ==
  ASSUME TypeOK, NEW v, NEW a \in Allocator
  PROVE  Counted(<<v>>)[a] = refcnt[a] + Same(v, a)
<1>1. Counted(<<v>>)[a] = refcnt[a] + Times(<<v>>, a)
  BY DEF Counted, Times
<1> QED
  BY <1>1, TimesOne

LEMMA CountedTwice ==
  ASSUME TypeOK, NEW v, NEW w, NEW a \in Allocator
  PROVE  Counted(<<v, w>>)[a] = refcnt[a] + Same(v, a) + Same(w, a)
<1> DEFINE S == {i \in DOMAIN <<v, w>> : <<v, w>>[i] = a}
           T == {i \in {1} : v = a}
<1>1. Counted(<<v, w>>)[a] = refcnt[a] + Cardinality(S)
  BY DEF Counted
<1>2. S \ {2} = T \ {2} /\ 2 \notin T /\ (2 \in S <=> w = a) /\ T = IF v = a THEN {1} ELSE {}
  OBVIOUS
<1> HIDE DEF S, T
<1>3. IsFiniteSet(T) /\ Cardinality(T) = Same(v, a)
  BY <1>2, FS_EmptySet, FS_Singleton DEF Same
<1>4. /\ Cardinality(T) \in Nat /\ Cardinality(S) \in Nat
      /\ Cardinality(S) = Cardinality(T) - (IF 2 \in T THEN 1 ELSE 0) + (IF 2 \in S THEN 1 ELSE 0)
  BY <1>2, <1>3, PointSize
<1>5. Cardinality(S) = Same(v, a) + Same(w, a)
  BY <1>2, <1>3, <1>4 DEF Same
<1>6. refcnt[a] \in Nat /\ Same(v, a) \in Nat /\ Same(w, a) \in Nat
  BY DEF TypeOK, Same
<1> QED
  BY <1>1, <1>5, <1>6

\* Variables come to have one handle more of v, or, when v is null, none.
LEMMA Given ==
  ASSUME HandleInv, NEW v \in Allocator \cup {None}, v # None => Handles(v) > 0,
         UNCHANGED <<running, state, parent, delegate>>,
         handle' \in Holdings, todo' \in Lists, refcnt' \in [Allocator -> Nat], FiniteTasks(todo'),
         \A a \in Allocator :
           /\ Times(handle', a) = Times(handle, a) + Same(v, a)
           /\ refcnt'[a] = refcnt[a] + Same(v, a)
           /\ Drops(todo', a) = Drops(todo, a) /\ Decrements(todo', a) = Decrements(todo, a),
         \A u \in Thread : Ordered(u, todo'[u], state, parent, handle')
  PROVE  /\ HandleInv'
         /\ \A a \in Allocator : Handles(a)' = Handles(a) + Same(v, a) /\ Same(v, a) \in Nat
<1>1. TypeOK /\ FiniteTasks(todo)
  BY DEF HandleInv
<1>2. TypeOK'
  BY <1>1 DEF TypeOK, Lists, Holdings
<1>3. ASSUME NEW a \in Allocator PROVE Handles(a)' = Handles(a) + Same(v, a) /\ Same(v, a) \in Nat
  <2>1. /\ Handles(a) = Sum(state, parent, delegate, handle, todo, a)
        /\ Times(handle, a) \in Nat
        /\ Times(LiveOf(state, parent), a) \in Nat /\ Times(LiveOf(state, delegate), a) \in Nat
        /\ Drops(todo, a) \in Nat /\ Decrements(todo, a) \in Nat
    BY <1>1, HandlesNow
  <2>2. Handles(a)' = Sum(state, parent, delegate, handle', todo', a)
    BY <1>2, HandlesThen
  <2>3. Same(v, a) \in Nat
    BY SameNat
  <2> QED
    BY <2>1, <2>2, <2>3 DEF Sum
<1>4. HandleInv'
  BY <1>2, <1>3, Balanced
<1> QED
  BY <1>3, <1>4

LEMMA CopyKeeps ==
  ASSUME HandleInv, NEW s \in Slot, NEW r \in Slot, Copy(s, r), running' = running
  PROVE  HandleInv' /\ \A a \in Allocator : Handles(a)' >= Handles(a)
<1> DEFINE v == handle[s]
<1>1. /\ handle \in Holdings /\ todo \in Lists /\ TypeOK /\ FiniteTasks(todo)
  BY DEF HandleInv, TypeOK, Holdings, Lists
<1>2. /\ Idle(Owner[r]) /\ handle[r] = None /\ v # None
      /\ UNCHANGED <<running, state, parent, delegate, todo>>
  BY DEF Copy
<1>3. v \in Allocator /\ Handles(v) > 0
  BY <1>2, Held
<1>4. handle' \in Holdings /\ handle'[r] = v /\ \A q \in Slot \ {r} : handle'[q] = handle[q]
  BY <1>1 DEF Copy, Holdings
<1>5. ASSUME NEW a \in Allocator PROVE refcnt'[a] = refcnt[a] + Same(v, a)
  <2>1. refcnt' = Counted(<<v>>)
    BY DEF Copy
  <2> QED
    BY <1>1, <2>1, CountedOnce
<1>6. refcnt' \in [Allocator -> Nat]
  <2>1. \A a \in Allocator : refcnt'[a] \in Nat
    BY <1>1, <1>5, SameNat DEF TypeOK
  <2>2. refcnt' = [a \in Allocator |-> refcnt'[a]]
    BY DEF Copy, Counted
  <2> QED
    BY <2>1, <2>2
<1> HIDE DEF v
<1>7. ASSUME NEW a \in Allocator PROVE Times(handle', a) = Times(handle, a) + Same(v, a)
  <2>1. /\ Times(handle, a) \in Nat
        /\ Times(handle', a) = Times(handle, a) - Same(None, a) + Same(v, a)
    BY <1>1, <1>2, <1>4, SlotChanges
  <2>2. Same(None, a) = 0 /\ Same(v, a) \in Nat
    BY SameNat
  <2> QED
    BY <2>1, <2>2
<1>8. ASSUME NEW u \in Thread PROVE Ordered(u, todo'[u], state, parent, handle')
  <2>1. todo[u] \in Seq(Task) /\ Ordered(u, todo[u], state, parent, handle)
    BY <1>1 DEF Lists, HandleInv
  <2>2. \A q \in Slot : Owner[q] = u /\ handle[q] = None /\ todo[u] # << >> => handle'[q] = None
    BY <1>2, <1>4 DEF Idle
  <2> QED
    BY <1>2, <2>1, <2>2, OrderedKeeps
<1>9. /\ HandleInv'
      /\ \A a \in Allocator : Handles(a)' = Handles(a) + Same(v, a) /\ Same(v, a) \in Nat
  BY <1>1, <1>2, <1>3, <1>4, <1>5, <1>6, <1>7, <1>8, Given
<1>10. \A a \in Allocator : Handles(a) \in Nat
  BY <1>1, HandlesNow
<1> QED
  BY <1>9, <1>10

LEMMA MoveKeeps ==
  ASSUME HandleInv, NEW s \in Slot, NEW r \in Slot, Move(s, r), running' = running
  PROVE  HandleInv' /\ \A a \in Allocator : Handles(a)' >= Handles(a)
<1>1. /\ handle \in Holdings /\ todo \in Lists /\ TypeOK /\ FiniteTasks(todo)
      /\ refcnt \in [Allocator -> Nat]
  BY DEF HandleInv, TypeOK, Holdings, Lists
<1>2. /\ Idle(Owner[r]) /\ handle[r] = None /\ r # s
      /\ UNCHANGED <<running, state, parent, delegate, refcnt, todo>>
      /\ handle' = [handle EXCEPT ![r] = handle[s], ![s] = None]
  BY DEF Move
<1>3. handle' \in Holdings /\ handle'[s] = None /\ \A q \in Slot \ {r, s} : handle'[q] = handle[q]
  BY <1>1, <1>2 DEF Holdings
<1>4. ASSUME NEW a \in Allocator
      PROVE  /\ Times(handle', a) = Times(handle, a) + Same(None, a)
             /\ refcnt'[a] = refcnt[a] + Same(None, a)
             /\ Same(None, a) = 0
  <2>1. Times(handle', a) = Times(handle, a)
    BY <1>1, <1>2, SlotMoves
  <2>2. Times(handle, a) \in Nat /\ refcnt[a] \in Nat /\ Same(None, a) = 0
    BY <1>1, HandlesNow, SameNat
  <2> QED
    BY <1>2, <2>1, <2>2
<1>5. ASSUME NEW u \in Thread PROVE Ordered(u, todo'[u], state, parent, handle')
  <2>1. todo[u] \in Seq(Task) /\ Ordered(u, todo[u], state, parent, handle)
    BY <1>1 DEF Lists, HandleInv
  <2>2. \A q \in Slot : Owner[q] = u /\ handle[q] = None /\ todo[u] # << >> => handle'[q] = None
    <3>1. Idle(Owner[r]) /\ \A q \in Slot \ {r, s} : handle'[q] = handle[q]
      BY <1>2, <1>3
    <3> QED
      BY <1>3, <3>1 DEF Idle
  <2>3. Ordered(u, todo[u], state, parent, handle')
    BY <2>1, <2>2, OrderedKeeps
  <2> QED
    BY <1>2, <2>3
<1>6. /\ HandleInv'
      /\ \A a \in Allocator : Handles(a)' = Handles(a) + Same(None, a)
  <2>1. UNCHANGED <<running, state, parent, delegate>> /\ todo' = todo /\ refcnt' = refcnt
    BY <1>2
  <2> QED
    BY <1>1, <1>3, <1>4, <1>5, <2>1, Given
<1>7. \A a \in Allocator : Handles(a) \in Nat
  BY <1>1, HandlesNow
<1> QED
  BY <1>4, <1>6, <1>7

LEMMA AssignedKeeps ==
  ASSUME HandleInv, NEW t \in Thread, NEW s \in Slot, NEW r \in Slot, Assigned(t, s, r),
         running' = running
  PROVE  /\ HandleInv' /\ \A a \in Allocator : Handles(a)' >= Handles(a)
         /\ todo'[t] = << >>
<1> DEFINE l == todo[t]
           v == handle[s]
<1>1. /\ handle \in Holdings /\ todo \in Lists /\ TypeOK /\ FiniteTasks(todo)
      /\ refcnt \in [Allocator -> Nat] /\ v \in Allocator \cup {None}
      /\ l \in Seq(Task) /\ Ordered(t, l, state, parent, handle)
  BY DEF HandleInv, TypeOK, Holdings, Lists
<1>2. /\ l # << >> /\ \E how \in {"copy", "move"} : Head(l) = <<how, s, r>>
      /\ UNCHANGED <<running, state, parent, delegate>>
  BY DEF Assigned, Idle
<1>3. /\ Tail(l) \in Seq(Task) /\ Head(l) = l[1] /\ 1 \in DOMAIN l
      /\ Len(l) = Len(Tail(l)) + 1 /\ Len(Tail(l)) \in Nat
  <2>1. Tail(l) \in Seq(Task) /\ Head(l) = l[1] /\ 1 \in DOMAIN l /\ Len(l) = Len(Tail(l)) + 1
    <3> HIDE DEF l
    <3> QED
      BY <1>1, <1>2, PopIndices
  <2> QED
    BY <2>1
<1>4. s # r /\ Owner[r] = t /\ handle[r] = None /\ Len(l) = 1
  <2> HIDE DEF l
  <2> QED
    BY <1>1, <1>2, <1>3 DEF Ordered, AssignsLast
<1>5. Tail(l) = << >> /\ << >> \o Tail(l) = << >>
  <2>1. Len(Tail(l)) = 0
    BY <1>3, <1>4
  <2>2. Tail(l) = << >>
    <3> HIDE DEF l
    <3> QED
      BY <1>3, <2>1, EmptySeq
  <2> QED
    BY <2>2
<1>6. todo' \in Lists /\ todo'[t] = << >> /\ \A u \in Thread \ {t} : todo'[u] = todo[u]
  <2> DEFINE w == << >> \o Tail(l)
  <2>1. todo' = [todo EXCEPT ![t] = w]
    BY DEF Assigned, Becomes
  <2>2. w = << >> /\ << >> \in Seq(Task)
    BY <1>5
  <2> HIDE DEF w, l
  <2> QED
    BY <1>1, <2>1, <2>2 DEF Lists
<1>7. FiniteTasks(todo') /\ \A a \in Allocator :
        Drops(todo', a) = Drops(todo, a) /\ Decrements(todo', a) = Decrements(todo, a)
  <2>1. ASSUME NEW a \in Allocator
        PROVE  /\ FiniteTasks(todo') /\ Drops(todo', a) = Drops(todo, a)
               /\ Decrements(todo', a) = Decrements(todo, a)
    <3>1. Same(Head(l), DropTask(a)) = 0 /\ Same(Head(l), DecrementTask(a)) = 0
      <4> PICK how \in {"copy", "move"} : Head(l) = <<how, s, r>>
        BY <1>2
      <4>1. Same(<<how, s, r>>, DropTask(a)) = 0 /\ Same(<<how, s, r>>, DecrementTask(a)) = 0
        BY TaskValues
      <4> QED
        BY <4>1
    <3>2. \A x : Times(Tail(l), x) = 0 /\ Times(todo'[t], x) = 0
      BY <1>5, <1>6, TimesEmpty
    <3>3. /\ FiniteTasks(todo') /\ Drops(todo, a) \in Nat /\ Decrements(todo, a) \in Nat
      BY <1>1, <1>6, NewList
    <3>4. /\ Drops(todo', a) = Drops(todo, a) - Same(Head(l), DropTask(a))
               - Times(Tail(l), DropTask(a)) + Times(todo'[t], DropTask(a))
          /\ Decrements(todo', a) = Decrements(todo, a) - Same(Head(l), DecrementTask(a))
               - Times(Tail(l), DecrementTask(a)) + Times(todo'[t], DecrementTask(a))
      BY <1>1, <1>2, <1>6, FirstReplaced
    <3> QED
      BY <3>1, <3>2, <3>3, <3>4
  <2>2. CASE Allocator = {}
    BY <2>2 DEF FiniteTasks
  <2> QED
    BY <2>1, <2>2
<1>8. ASSUME NEW u \in Thread, handle' \in Holdings,
             \A q \in Slot \ {r, s} : handle'[q] = handle[q],
             handle'[s] = handle[s] \/ handle'[s] = None
      PROVE  Ordered(u, todo'[u], state, parent, handle')
  <2>1. CASE u = t
    BY <1>6, <2>1, OrderedEmpty
  <2>2. CASE u # t
    <3>1. todo[u] \in Seq(Task) /\ Ordered(u, todo[u], state, parent, handle)
      BY <1>1 DEF Lists, HandleInv
    <3>2. \A q \in Slot : Owner[q] = u /\ handle[q] = None => handle'[q] = None
      BY <1>4, <1>8, <2>2
    <3>3. Ordered(u, todo[u], state, parent, handle')
      BY <3>1, <3>2, OrderedKeeps
    <3> QED
      BY <1>6, <2>2, <3>3
  <2> QED
    BY <2>1, <2>2
<1>9. \A a \in Allocator : Handles(a) \in Nat /\ Times(handle, a) \in Nat /\ refcnt[a] \in Nat
  BY <1>1, HandlesNow
<1>10. CASE Head(l) = <<"copy", s, r>>
  <2>1. refcnt' = Counted(<<v>>) /\ handle' = [handle EXCEPT ![r] = v]
    BY <1>10 DEF Assigned
  <2>2. handle' \in Holdings /\ handle'[r] = v /\ \A q \in Slot \ {r} : handle'[q] = handle[q]
    BY <1>1, <2>1 DEF Holdings
  <2>3. ASSUME NEW a \in Allocator PROVE refcnt'[a] = refcnt[a] + Same(v, a)
    BY <1>1, <2>1, CountedOnce
  <2>4. refcnt' \in [Allocator -> Nat]
    <3>1. \A a \in Allocator : refcnt'[a] \in Nat
      BY <1>9, <2>3, SameNat
    <3>2. refcnt' = [a \in Allocator |-> refcnt'[a]]
      BY <2>1 DEF Counted
    <3> QED
      BY <3>1, <3>2
  <2>5. v # None => Handles(v) > 0
    BY Held
  <2>6. \A u \in Thread : Ordered(u, todo'[u], state, parent, handle')
    BY <1>4, <1>8, <2>2
  <2> HIDE DEF v, l
  <2>7. ASSUME NEW a \in Allocator PROVE Times(handle', a) = Times(handle, a) + Same(v, a)
    <3>1. Times(handle', a) = Times(handle, a) - Same(None, a) + Same(v, a)
      BY <1>1, <1>4, <2>2, SlotChanges
    <3>2. Same(None, a) = 0 /\ Same(v, a) \in Nat
      BY SameNat
    <3> QED
      BY <1>9, <3>1, <3>2
  <2>8. /\ HandleInv'
        /\ \A a \in Allocator : Handles(a)' = Handles(a) + Same(v, a) /\ Same(v, a) \in Nat
    BY <1>1, <1>2, <1>6, <1>7, <2>2, <2>3, <2>4, <2>5, <2>6, <2>7, Given
  <2> QED
    BY <1>6, <1>9, <2>8
<1>11. CASE Head(l) = <<"move", s, r>>
  <2>1. refcnt' = refcnt /\ handle' = [handle EXCEPT ![r] = handle[s], ![s] = None]
    BY <1>11 DEF Assigned
  <2>2. /\ handle' \in Holdings /\ handle'[s] = None
        /\ \A q \in Slot \ {r, s} : handle'[q] = handle[q]
    BY <1>1, <2>1 DEF Holdings
  <2>3. ASSUME NEW a \in Allocator
        PROVE  /\ Times(handle', a) = Times(handle, a) + Same(None, a)
               /\ refcnt'[a] = refcnt[a] + Same(None, a)
               /\ Same(None, a) = 0
    <3>1. Times(handle', a) = Times(handle, a)
      BY <1>1, <1>4, <2>1, SlotMoves
    <3>2. Same(None, a) = 0
      BY SameNat
    <3> QED
      BY <1>9, <2>1, <3>1, <3>2
  <2>4. \A u \in Thread : Ordered(u, todo'[u], state, parent, handle')
    BY <1>8, <2>2
  <2>5. refcnt' \in [Allocator -> Nat]
    BY <1>1, <2>1
  <2>6. HandleInv' /\ \A a \in Allocator : Handles(a)' = Handles(a) + Same(None, a)
    BY <1>1, <1>2, <1>6, <1>7, <2>2, <2>3, <2>4, <2>5, Given
  <2> QED
    BY <1>6, <1>9, <2>3, <2>6
<1> QED
  BY <1>2, <1>10, <1>11

\* The list of a thread that replaces its first task.
LEMMA BecomesList ==
  ASSUME todo \in Lists, NEW t \in Thread, NEW tasks, Becomes(t, tasks),
         NEW w \in Seq(Task), w = tasks \o Tail(todo[t])
  PROVE  todo' \in Lists /\ todo'[t] = w /\ \A u \in Thread \ {t} : todo'[u] = todo[u]
<1>1. todo' = [todo EXCEPT ![t] = w]
  BY DEF Becomes
<1> QED
  BY <1>1 DEF Lists

LEMMA FirstTask ==
  ASSUME HandleInv, NEW t \in Thread, NEW this, NEW a, Doing(t, this, a)
  PROVE  /\ todo[t] \in Seq(Task) /\ todo[t] # << >> /\ Head(todo[t]) = <<this, a>>
         /\ Tail(todo[t]) \in Seq(Task) /\ << >> \o Tail(todo[t]) = Tail(todo[t])
         /\ Ordered(t, todo[t], state, parent, handle)
         /\ Ordered(t, Tail(todo[t]), state, parent, handle)
<1> DEFINE l == todo[t]
<1>1. /\ l \in Seq(Task) /\ l # << >> /\ Head(l) = <<this, a>>
      /\ Ordered(t, l, state, parent, handle)
  BY DEF HandleInv, TypeOK, Doing, Idle
<1> HIDE DEF l
<1>2. Tail(l) \in Seq(Task) /\ << >> \o Tail(l) = Tail(l)
  BY <1>1, PopElements, ConcatEmptySeq
<1>3. Ordered(t, Tail(l), state, parent, handle)
  BY <1>1, OrderedPop
<1> QED
  BY <1>1, <1>2, <1>3 DEF l

\* The first task is a handle of a, which therefore exists and is counted.
LEMMA Dropping ==
  ASSUME HandleInv, NEW t \in Thread, NEW a \in Allocator,
         Doing(t, "drop", a) \/ Doing(t, "decrement", a)
  PROVE  state[a] = "live" /\ Handles(a) \in Nat /\ Handles(a) > 0 /\ refcnt[a] = Handles(a)
<1> DEFINE l == todo[t]
<1>1. todo \in Lists /\ TypeOK /\ FiniteTasks(todo)
  BY DEF HandleInv, TypeOK, Lists
<1>2. l # << >> /\ (Head(l) = <<"drop", a>> \/ Head(l) = <<"decrement", a>>)
  BY DEF Doing, Idle
<1>3. Same(Head(l), DropTask(a)) = 1 \/ Same(Head(l), DecrementTask(a)) = 1
  BY <1>2 DEF Same, DropTask, DecrementTask
<1>4. /\ Same(Head(l), DropTask(a)) <= Drops(todo, a)
      /\ Same(Head(l), DecrementTask(a)) <= Decrements(todo, a)
  BY <1>1, <1>2, FirstReplaced
<1>5. /\ Handles(a) = Sum(state, parent, delegate, handle, todo, a)
      /\ Times(handle, a) \in Nat
      /\ Times(LiveOf(state, parent), a) \in Nat /\ Times(LiveOf(state, delegate), a) \in Nat
      /\ Drops(todo, a) \in Nat /\ Decrements(todo, a) \in Nat /\ Handles(a) \in Nat
  BY <1>1, HandlesNow
<1>6. Drops(todo, a) >= 1 \/ Decrements(todo, a) >= 1
  BY <1>3, <1>4
<1>7. Handles(a) > 0
  BY <1>5, <1>6 DEF Sum
<1>8. state[a] # "live" => Handles(a) = 0
  BY DEF HandleInv
<1>9. state[a] = "live"
  BY <1>7, <1>8
<1> QED
  BY <1>5, <1>7, <1>9 DEF HandleInv, CountExact

\* The lists of the threads but t are ordered still.
LEMMA OthersOrdered ==
  ASSUME HandleInv, NEW t \in Thread, todo' \in Lists,
         Ordered(t, todo'[t], state', parent', handle'),
         \A u \in Thread \ {t} : todo'[u] = todo[u], handle' = handle,
         \A a \in Allocator : state[a] \in {"dying", "freed"} =>
           state'[a] \in {"dying", "freed"} /\ parent'[a] = parent[a],
         NEW u \in Thread
  PROVE  Ordered(u, todo'[u], state', parent', handle')
<1>1. CASE u = t
  BY <1>1
<1>2. CASE u # t
  <2>1. todo[u] \in Seq(Task) /\ Ordered(u, todo[u], state, parent, handle)
    BY DEF HandleInv, TypeOK
  <2>2. Ordered(u, todo[u], state', parent', handle')
    BY <2>1, OrderedKeeps
  <2> QED
    BY <1>2, <2>2
<1> QED
  BY <1>1, <1>2

LEMMA SharedKeeps ==
  ASSUME HandleInv, NEW t \in Thread, NEW b \in Allocator, Shared(t, b), running' = running
  PROVE  /\ HandleInv' /\ \A a \in Allocator : Handles(a)' = Handles(a)
         /\ todo'[t] = <<<<"decrement", b>>>> \o Tail(todo[t])
<1> DEFINE l == todo[t]
           y == <<"decrement", b>>
           w == <<y>> \o Tail(l)
<1>1. todo \in Lists /\ TypeOK /\ FiniteTasks(todo)
  BY DEF HandleInv, TypeOK, Lists
<1>2. UNCHANGED <<running, state, parent, delegate, refcnt, handle>>
  BY DEF Shared
<1>3. /\ l # << >> /\ Head(l) = <<"drop", b>>
      /\ Tail(l) \in Seq(Task) /\ Ordered(t, Tail(l), state, parent, handle)
  BY FirstTask DEF Shared
<1>4. w \in Seq(Task) /\ Ordered(t, w, state, parent, handle)
  <2>1. y \in {"drop", "decrement", "deallocate"} \X Allocator
    OBVIOUS
  <2>2. \A a \in Allocator : y # <<"deallocate", a>>
    OBVIOUS
  <2> HIDE DEF y, l
  <2> QED
    BY <1>3, <2>1, <2>2, OrderedPush
<1>5. todo' \in Lists /\ todo'[t] = w /\ \A u \in Thread \ {t} : todo'[u] = todo[u]
  <2>1. Becomes(t, <<y>>)
    BY DEF Shared
  <2> QED
    BY <1>1, <1>4, <2>1, BecomesList
<1>6. ASSUME NEW a \in Allocator
      PROVE  /\ FiniteTasks(todo') /\ Drops(todo, a) \in Nat /\ Decrements(todo, a) \in Nat
             /\ Same(b, a) \in Nat
             /\ Drops(todo', a) = Drops(todo, a) - Same(b, a)
             /\ Decrements(todo', a) = Decrements(todo, a) + Same(b, a)
  <2>1. /\ Same(Head(l), DropTask(a)) = Same(b, a) /\ Same(Head(l), DecrementTask(a)) = 0
        /\ Same(y, DropTask(a)) = 0 /\ Same(y, DecrementTask(a)) = Same(b, a)
    <3>1. /\ Same(<<"drop", b>>, DropTask(a)) = Same(b, a) /\ Same(<<"drop", b>>, DecrementTask(a)) = 0
          /\ Same(y, DropTask(a)) = 0 /\ Same(y, DecrementTask(a)) = Same(b, a)
      BY TaskValues
    <3> HIDE DEF y, l
    <3> QED
      BY <1>3, <3>1
  <2>2. /\ Times(w, DropTask(a)) = Times(Tail(l), DropTask(a)) + 0
        /\ Times(w, DecrementTask(a)) = Times(Tail(l), DecrementTask(a)) + Same(b, a)
    <3>1. y \in Task
      BY DEF Task
    <3> HIDE DEF y, l
    <3>2. \A x : Times(w, x) = Times(Tail(l), x) + Same(y, x)
      BY <1>3, <3>1, TimesPush
    <3> QED
      BY <2>1, <3>2
  <2>3. FiniteTasks(todo') /\ Drops(todo, a) \in Nat /\ Decrements(todo, a) \in Nat
    BY <1>1, <1>5, NewList
  <2>4. /\ Drops(todo', a) = Drops(todo, a) - Same(Head(l), DropTask(a))
             - Times(Tail(l), DropTask(a)) + Times(todo'[t], DropTask(a))
        /\ Decrements(todo', a) = Decrements(todo, a) - Same(Head(l), DecrementTask(a))
             - Times(Tail(l), DecrementTask(a)) + Times(todo'[t], DecrementTask(a))
        /\ Times(Tail(l), DropTask(a)) \in Nat /\ Times(Tail(l), DecrementTask(a)) \in Nat
    BY <1>1, <1>3, <1>5, FirstReplaced
  <2>5. Same(b, a) \in Nat
    BY SameNat
  <2> HIDE DEF l, w, y
  <2>6. Drops(todo', a) = Drops(todo, a) - Same(b, a)
    BY <1>5, <2>1, <2>2, <2>3, <2>4, <2>5
  <2>7. Decrements(todo', a) = Decrements(todo, a) + Same(b, a)
    BY <1>5, <2>1, <2>2, <2>3, <2>4, <2>5
  <2> QED
    BY <2>3, <2>5, <2>6, <2>7
<1>7. TypeOK'
  BY <1>1, <1>2, <1>5 DEF TypeOK, Lists
<1>8. FiniteTasks(todo')
  BY <1>6
<1>9. ASSUME NEW a \in Allocator
      PROVE  /\ Handles(a)' = Handles(a)
             /\ Handles(a)' = Handles(a) + Same(None, a)
             /\ refcnt'[a] = refcnt[a] + Same(None, a)
  <2>1. /\ Handles(a) = Sum(state, parent, delegate, handle, todo, a)
        /\ Times(handle, a) \in Nat
        /\ Times(LiveOf(state, parent), a) \in Nat /\ Times(LiveOf(state, delegate), a) \in Nat
        /\ Handles(a) \in Nat
    BY <1>1, HandlesNow
  <2>2. Handles(a)' = Sum(state, parent, delegate, handle, todo', a)
    BY <1>2, <1>7, <1>8, HandlesThen
  <2>3. Same(None, a) = 0 /\ refcnt[a] \in Nat
    BY <1>1, SameNat DEF TypeOK
  <2>4. Handles(a)' = Handles(a)
    BY <1>6, <2>1, <2>2 DEF Sum
  <2> QED
    BY <1>2, <2>1, <2>3, <2>4
<1>10. \A u \in Thread : Ordered(u, todo'[u], state', parent', handle')
  BY <1>2, <1>4, <1>5, OthersOrdered
<1>11. HandleInv'
  BY <1>2, <1>7, <1>8, <1>9, <1>10, Balanced
<1> QED
  BY <1>5, <1>9, <1>11

LEMMA DecrementKeeps ==
  ASSUME HandleInv, NEW t \in Thread, NEW b \in Allocator, Decrement(t, b), running' = running
  PROVE  /\ HandleInv'
         /\ \A a \in Allocator : Handles(a)' = Handles(a) - Same(b, a)
         /\ todo'[t] = Tail(todo[t])
<1> DEFINE l == todo[t]
           w == Tail(l)
<1>1. todo \in Lists /\ TypeOK /\ FiniteTasks(todo)
  BY DEF HandleInv, TypeOK, Lists
<1>2. UNCHANGED <<running, state, parent, delegate, handle>>
  BY DEF Decrement
<1>3. /\ l # << >> /\ Head(l) = <<"decrement", b>> /\ w \in Seq(Task) /\ << >> \o Tail(l) = w
      /\ Ordered(t, w, state, parent, handle)
  BY FirstTask DEF Decrement
<1>4. todo' \in Lists /\ todo'[t] = w /\ \A u \in Thread \ {t} : todo'[u] = todo[u]
  <2>1. Becomes(t, << >>)
    BY DEF Decrement
  <2> QED
    BY <1>1, <1>3, <2>1, BecomesList
<1>5. state[b] = "live" /\ Handles(b) \in Nat /\ Handles(b) > 0 /\ refcnt[b] = Handles(b)
  BY Dropping DEF Decrement
<1>6. refcnt' \in [Allocator -> Nat] /\ \A a \in Allocator : refcnt'[a] = refcnt[a] - Same(b, a)
  <2>1. refcnt \in [Allocator -> Nat] /\ refcnt' = [refcnt EXCEPT ![b] = @ - 1]
    BY <1>1 DEF Decrement, TypeOK
  <2> QED
    BY <1>5, <2>1 DEF Same
<1>7. ASSUME NEW a \in Allocator
      PROVE  /\ FiniteTasks(todo') /\ Drops(todo, a) \in Nat /\ Decrements(todo, a) \in Nat
             /\ Same(b, a) \in Nat
             /\ Drops(todo', a) = Drops(todo, a)
             /\ Decrements(todo', a) = Decrements(todo, a) - Same(b, a)
  <2>1. Same(Head(l), DropTask(a)) = 0 /\ Same(Head(l), DecrementTask(a)) = Same(b, a)
    <3>1. /\ Same(<<"decrement", b>>, DropTask(a)) = 0
          /\ Same(<<"decrement", b>>, DecrementTask(a)) = Same(b, a)
      BY TaskValues
    <3> HIDE DEF l
    <3> QED
      BY <1>3, <3>1
  <2>2. FiniteTasks(todo') /\ Drops(todo, a) \in Nat /\ Decrements(todo, a) \in Nat
    BY <1>1, <1>4, NewList
  <2>3. /\ Drops(todo', a) = Drops(todo, a) - Same(Head(l), DropTask(a))
             - Times(w, DropTask(a)) + Times(todo'[t], DropTask(a))
        /\ Decrements(todo', a) = Decrements(todo, a) - Same(Head(l), DecrementTask(a))
             - Times(w, DecrementTask(a)) + Times(todo'[t], DecrementTask(a))
        /\ Times(w, DropTask(a)) \in Nat /\ Times(w, DecrementTask(a)) \in Nat
    BY <1>1, <1>3, <1>4, FirstReplaced
  <2>4. Same(b, a) \in Nat
    BY SameNat
  <2> HIDE DEF l, w
  <2>5. Drops(todo', a) = Drops(todo, a)
    BY <1>4, <2>1, <2>2, <2>3, <2>4
  <2>6. Decrements(todo', a) = Decrements(todo, a) - Same(b, a)
    BY <1>4, <2>1, <2>2, <2>3, <2>4
  <2> QED
    BY <2>2, <2>4, <2>5, <2>6
<1>8. TypeOK'
  BY <1>1, <1>2, <1>4, <1>6 DEF TypeOK, Lists
<1>9. FiniteTasks(todo')
  BY <1>7
<1>10. ASSUME NEW a \in Allocator PROVE Handles(a)' = Handles(a) - Same(b, a) /\ Handles(a) \in Nat
  <2>1. /\ Handles(a) = Sum(state, parent, delegate, handle, todo, a)
        /\ Times(handle, a) \in Nat
        /\ Times(LiveOf(state, parent), a) \in Nat /\ Times(LiveOf(state, delegate), a) \in Nat
        /\ Handles(a) \in Nat
    BY <1>1, HandlesNow
  <2>2. Handles(a)' = Sum(state, parent, delegate, handle, todo', a)
    BY <1>2, <1>8, <1>9, HandlesThen
  <2> QED
    BY <1>7, <2>1, <2>2 DEF Sum
<1>11. \A u \in Thread : Ordered(u, todo'[u], state', parent', handle')
  BY <1>2, <1>3, <1>4, OthersOrdered
<1>12. CountExact'
  BY <1>2, <1>6, <1>10 DEF HandleInv, CountExact
<1>13. ASSUME NEW a \in Allocator, state'[a] # "live" PROVE Handles(a)' = 0
  <2>1. a # b /\ Handles(a) = 0
    BY <1>2, <1>5, <1>13 DEF HandleInv
  <2>2. Same(b, a) = 0
    BY <2>1 DEF Same
  <2> QED
    BY <1>10, <2>1, <2>2
<1>14. HandleInv'
  BY <1>8, <1>9, <1>11, <1>12, <1>13 DEF HandleInv
<1> QED
  BY <1>4, <1>10, <1>14

LEMMA DeallocateKeeps ==
  ASSUME HandleInv, NEW t \in Thread, NEW b \in Allocator, Deallocate(t, b), running' = running
  PROVE  /\ HandleInv'
         /\ \A a \in Allocator : Handles(a)' = Handles(a) /\ (state'[a] = "live" => state[a] = "live")
         /\ todo'[t] = Tail(todo[t])
<1> DEFINE l == todo[t]
           w == Tail(l)
<1>1. todo \in Lists /\ TypeOK /\ FiniteTasks(todo)
  BY DEF HandleInv, TypeOK, Lists
<1>2. UNCHANGED <<running, parent, delegate, refcnt, handle>>
  BY DEF Deallocate
<1>3. /\ l \in Seq(Task) /\ l # << >> /\ Head(l) = <<"deallocate", b>>
      /\ w \in Seq(Task) /\ << >> \o Tail(l) = w
      /\ Ordered(t, l, state, parent, handle) /\ Ordered(t, w, state, parent, handle)
  BY FirstTask DEF Deallocate
<1>4. todo' \in Lists /\ todo'[t] = w /\ \A u \in Thread \ {t} : todo'[u] = todo[u]
  <2>1. Becomes(t, << >>)
    BY DEF Deallocate
  <2> QED
    BY <1>1, <1>3, <2>1, BecomesList
<1>5. state[b] \in {"dying", "freed"}
  <2>1. l[1] = <<"deallocate", b>> /\ 1 \in DOMAIN l
    <3> HIDE DEF l
    <3> QED
      BY <1>3, PopIndices
  <2> HIDE DEF l
  <2> QED
    BY <1>3, <2>1 DEF Ordered, ParentNext
<1>6. ASSUME NEW a \in Allocator
      PROVE  /\ FiniteTasks(todo')
             /\ Drops(todo', a) = Drops(todo, a)
             /\ Decrements(todo', a) = Decrements(todo, a)
  <2>1. Same(Head(l), DropTask(a)) = 0 /\ Same(Head(l), DecrementTask(a)) = 0
    <3>1. /\ Same(<<"deallocate", b>>, DropTask(a)) = 0
          /\ Same(<<"deallocate", b>>, DecrementTask(a)) = 0
      BY TaskValues
    <3> HIDE DEF l
    <3> QED
      BY <1>3, <3>1
  <2>2. FiniteTasks(todo') /\ Drops(todo, a) \in Nat /\ Decrements(todo, a) \in Nat
    BY <1>1, <1>4, NewList
  <2>3. /\ Drops(todo', a) = Drops(todo, a) - Same(Head(l), DropTask(a))
             - Times(w, DropTask(a)) + Times(todo'[t], DropTask(a))
        /\ Decrements(todo', a) = Decrements(todo, a) - Same(Head(l), DecrementTask(a))
             - Times(w, DecrementTask(a)) + Times(todo'[t], DecrementTask(a))
        /\ Times(w, DropTask(a)) \in Nat /\ Times(w, DecrementTask(a)) \in Nat
    BY <1>1, <1>3, <1>4, FirstReplaced
  <2> HIDE DEF l, w
  <2>4. Drops(todo', a) = Drops(todo, a)
    BY <1>4, <2>1, <2>2, <2>3
  <2>5. Decrements(todo', a) = Decrements(todo, a)
    BY <1>4, <2>1, <2>2, <2>3
  <2> QED
    BY <2>2, <2>4, <2>5
<1>7. /\ state \in [Allocator -> {"unused", "live", "dying", "freed"}]
      /\ parent \in [Allocator -> Allocator \cup {None}]
      /\ delegate \in [Allocator -> Allocator \cup {None}]
      /\ state' = [state EXCEPT ![b] = "freed"]
  BY <1>1 DEF TypeOK, Deallocate
<1>8. /\ state' \in [Allocator -> {"unused", "live", "dying", "freed"}]
      /\ \A a \in Allocator : state'[a] = IF a = b THEN "freed" ELSE state[a]
  BY <1>7
<1>9. TypeOK'
  BY <1>1, <1>2, <1>4, <1>8 DEF TypeOK, Lists
<1>10. FiniteTasks(todo')
  <2>1. CASE Allocator = {}
    BY <2>1
  <2> QED
    BY <1>6, <2>1
<1>11. LiveOf(state', parent) = LiveOf(state, parent) /\ LiveOf(state', delegate) = LiveOf(state, delegate)
  BY <1>5, <1>8 DEF LiveOf
<1>12. ASSUME NEW a \in Allocator PROVE Handles(a)' = Handles(a)
  <2>1. Handles(a) = Sum(state, parent, delegate, handle, todo, a)
    BY <1>1, HandlesNow
  <2>2. Handles(a)' = Sum(state', parent, delegate, handle, todo', a)
    BY <1>2, <1>9, <1>10, HandlesThen
  <2>3. Sum(state', parent, delegate, handle, todo', a) = Sum(state, parent, delegate, handle, todo, a)
    BY <1>6, <1>11 DEF Sum
  <2> QED
    BY <2>1, <2>2, <2>3
<1>13. \A u \in Thread : Ordered(u, todo'[u], state', parent', handle')
  <2>1. \A a \in Allocator : state[a] \in {"dying", "freed"} =>
          state'[a] \in {"dying", "freed"} /\ parent'[a] = parent[a]
    BY <1>2, <1>8
  <2>2. Ordered(t, todo'[t], state', parent', handle')
    BY <1>2, <1>3, <1>4, <2>1, OrderedKeeps
  <2> QED
    BY <1>2, <1>4, <2>1, <2>2, OthersOrdered
<1>14. CountExact' /\ \A a \in Allocator : state'[a] # "live" => Handles(a)' = 0
  BY <1>2, <1>5, <1>8, <1>12 DEF HandleInv, CountExact
<1>15. HandleInv'
  BY <1>9, <1>10, <1>13, <1>14 DEF HandleInv
<1> QED
  BY <1>4, <1>8, <1>12, <1>15

Cat(m, n) == m \o n

LEMMA Associative ==
  ASSUME NEW S
  PROVE  \A x, y, z \in Seq(S) :
           Cat(x, y) \in Seq(S) /\ Cat(Cat(x, y), z) = Cat(x, Cat(y, z))
<1>1. \A x, y, z \in Seq(S) : x \o y \in Seq(S) /\ (x \o y) \o z = x \o (y \o z)
  BY ConcatAssociative, ConcatProperties
<1> QED
  BY <1>1 DEF Cat

\* The five parts of what the deletion of an allocator leaves to do.
LEMMA Reassociated ==
  ASSUME NEW S, NEW p \in Seq(S), NEW q \in Seq(S), NEW r \in Seq(S), NEW s \in Seq(S), NEW t \in Seq(S)
  PROVE  Cat(Cat(Cat(Cat(p, q), r), s), t) = Cat(p, Cat(q, Cat(r, Cat(s, t))))
<1>1. \A x, y, z \in Seq(S) :
        Cat(x, y) \in Seq(S) /\ Cat(Cat(x, y), z) = Cat(x, Cat(y, z))
  BY Associative
<1>2. Cat(p, q) \in Seq(S) /\ Cat(s, t) \in Seq(S)
  BY <1>1
<1>3. Cat(Cat(p, q), r) \in Seq(S) /\ Cat(r, Cat(s, t)) \in Seq(S)
  BY <1>1, <1>2
<1>4. Cat(Cat(Cat(Cat(p, q), r), s), t) = Cat(Cat(Cat(p, q), r), Cat(s, t))
  BY <1>1, <1>3
<1>5. Cat(Cat(Cat(p, q), r), Cat(s, t)) = Cat(Cat(p, q), Cat(r, Cat(s, t)))
  BY <1>1, <1>2
<1>6. Cat(Cat(p, q), Cat(r, Cat(s, t))) = Cat(p, Cat(q, Cat(r, Cat(s, t))))
  BY <1>1, <1>3
<1> QED
  BY <1>4, <1>5, <1>6

\* What the deletion of b, of parent p and delegate d, puts in place of its
\* task: rest is what the thread does afterwards.
Deletion(b, p, d, rest) ==
  (DropsOf(d) \o DropsOf(p) \o <<<<"deallocate", b>>>> \o DropsOf(p)) \o rest

Gone(st, b) == st[b] \in {"dying", "freed"}

\* In w, p is dropped twice and d once more than in rest.
TwoAndOne(w, rest, p, d) == \A a \in Allocator :
  /\ Times(rest, DropTask(a)) \in Nat /\ Times(rest, DecrementTask(a)) \in Nat
  /\ Times(w, DropTask(a)) = Times(rest, DropTask(a)) + Same(p, a) + Same(p, a) + Same(d, a)
  /\ Times(w, DecrementTask(a)) = Times(rest, DecrementTask(a))

LEMMA DeletionTasks ==
  ASSUME NEW u, NEW rest \in Seq(Task), NEW st, NEW pa, NEW ha, Ordered(u, rest, st, pa, ha),
         NEW b \in Allocator, Gone(st, b),
         NEW p \in Allocator \cup {None}, pa[b] = p, NEW d \in Allocator \cup {None},
         NEW w, w = Deletion(b, p, d, rest)
  PROVE  /\ w \in Seq(Task) /\ Ordered(u, w, st, pa, ha)
         /\ TwoAndOne(w, rest, p, d)
<1> DEFINE y == <<"deallocate", b>>
           s1 == DropsOf(p) \o rest
           s2 == <<y>> \o s1
           s3 == DropsOf(p) \o s2
           s4 == DropsOf(d) \o s3
<1>1. y \in Task /\ <<y>> \in Seq(Task)
  BY DEF Task
<1>2. \A h \in Allocator \cup {None} : DropsOf(h) \in Seq(Task)
  BY DropsOfType
<1>3. w = s4
  <2>1. DropsOf(d) \in Seq(Task) /\ DropsOf(p) \in Seq(Task) /\ <<y>> \in Seq(Task)
    BY <1>1, <1>2
  <2> DEFINE e == DropsOf(d)
             f == DropsOf(p)
             g == <<y>>
  <2>2. e \in Seq(Task) /\ f \in Seq(Task) /\ g \in Seq(Task)
    BY <2>1
  <2> HIDE DEF e, f, g
  <2>3. Cat(Cat(Cat(Cat(e, f), g), f), rest) = Cat(e, Cat(f, Cat(g, Cat(f, rest))))
    BY <2>2, Reassociated
  <2> QED
    BY <2>3 DEF e, f, g, Cat, Deletion
<1>4. s1 \in Seq(Task)
  BY DropsOfTimes
<1>5. s2 \in Seq(Task) /\ Ordered(u, s2, st, pa, ha)
  BY OrderedDeallocate DEF Gone
<1>6. /\ \A a \in Allocator :
           /\ Times(rest, DropTask(a)) \in Nat /\ Times(rest, DecrementTask(a)) \in Nat
           /\ Times(s1, DropTask(a)) = Times(rest, DropTask(a)) + Same(p, a)
           /\ Times(s1, DecrementTask(a)) = Times(rest, DecrementTask(a))
  BY DropsOfTimes
<1>7. \A x : Times(s2, x) = Times(s1, x) + Same(y, x)
  <2> HIDE DEF y, s1
  <2> QED
    BY <1>1, <1>4, TimesPush
<1> HIDE DEF s1, s2
<1>8. /\ s3 \in Seq(Task) /\ Ordered(u, s3, st, pa, ha)
      /\ \A a \in Allocator :
           /\ Times(s3, DropTask(a)) = Times(s2, DropTask(a)) + Same(p, a)
           /\ Times(s3, DecrementTask(a)) = Times(s2, DecrementTask(a))
  BY <1>5, OrderedDrops, DropsOfTimes
<1> HIDE DEF s3
<1>9. /\ s4 \in Seq(Task) /\ Ordered(u, s4, st, pa, ha)
      /\ \A a \in Allocator :
           /\ Times(s4, DropTask(a)) = Times(s3, DropTask(a)) + Same(d, a)
           /\ Times(s4, DecrementTask(a)) = Times(s3, DecrementTask(a))
  BY <1>8, OrderedDrops, DropsOfTimes
<1> HIDE DEF s4
<1>10. ASSUME NEW a \in Allocator
       PROVE  /\ Times(rest, DropTask(a)) \in Nat /\ Times(rest, DecrementTask(a)) \in Nat
              /\ Times(w, DropTask(a))
                   = Times(rest, DropTask(a)) + Same(p, a) + Same(p, a) + Same(d, a)
              /\ Times(w, DecrementTask(a)) = Times(rest, DecrementTask(a))
  <2> DEFINE i == DropTask(a)
             j == DecrementTask(a)
  <2>1. Same(y, i) = 0 /\ Same(y, j) = 0
    BY TaskValues
  <2>2. Same(p, a) \in Nat /\ Same(d, a) \in Nat
    BY SameNat
  <2>3. Times(s2, i) = Times(s1, i) + 0 /\ Times(s2, j) = Times(s1, j) + 0
    BY <1>7, <2>1
  <2>4. /\ Times(rest, i) \in Nat /\ Times(s1, i) = Times(rest, i) + Same(p, a)
        /\ Times(s3, i) = Times(s2, i) + Same(p, a) /\ Times(s4, i) = Times(s3, i) + Same(d, a)
    BY <1>6, <1>8, <1>9
  <2>5. /\ Times(rest, j) \in Nat /\ Times(s1, j) = Times(rest, j)
        /\ Times(s3, j) = Times(s2, j) /\ Times(s4, j) = Times(s3, j)
    BY <1>6, <1>8, <1>9
  <2> HIDE DEF i, j
  <2>6. Times(s4, i) = Times(rest, i) + Same(p, a) + Same(p, a) + Same(d, a)
    BY <2>2, <2>3, <2>4
  <2>7. Times(s4, j) = Times(rest, j)
    BY <2>3, <2>5
  <2> QED
    BY <1>3, <2>4, <2>5, <2>6, <2>7 DEF i, j
<1> QED
  BY <1>3, <1>9, <1>10 DEF TwoAndOne

\* An allocator that exists holds its parent and its delegate.
LEMMA FieldHeld ==
  ASSUME HandleInv, NEW b \in Allocator, state[b] = "live"
  PROVE  /\ Times(LiveOf(state, parent), parent[b]) >= 1
         /\ parent[b] # None => Handles(parent[b]) > 0 /\ state[parent[b]] = "live"
<1> DEFINE f == LiveOf(state, parent)
           p == parent[b]
<1>1. TypeOK /\ FiniteTasks(todo) /\ p \in Allocator \cup {None}
  BY DEF HandleInv, TypeOK
<1>2. IsFiniteSet(DOMAIN f) /\ b \in DOMAIN f /\ f[b] = p
  BY AllocRefAssumption DEF LiveOf
<1> HIDE DEF f, p
<1>3. Times(f, p) \in Nat /\ Times(f, p) >= 1
  BY <1>2, TimesPositive
<1>4. ASSUME p # None PROVE Handles(p) > 0 /\ state[p] = "live"
  <2>1. p \in Allocator
    BY <1>1, <1>4
  <2>2. /\ Handles(p) = Sum(state, parent, delegate, handle, todo, p)
        /\ Times(handle, p) \in Nat /\ Times(LiveOf(state, delegate), p) \in Nat
        /\ Drops(todo, p) \in Nat /\ Decrements(todo, p) \in Nat
    BY <1>1, <2>1, HandlesNow
  <2>3. Handles(p) > 0
    BY <1>3, <2>2 DEF Sum, f
  <2>4. state[p] # "live" => Handles(p) = 0
    BY <2>1 DEF HandleInv
  <2> QED
    BY <2>3, <2>4
<1> QED
  BY <1>3, <1>4 DEF f, p

LEMMA DeleteKeeps ==
  ASSUME HandleInv, NEW t \in Thread, NEW b \in Allocator, Delete(t, b), running' = running
  PROVE  /\ HandleInv'
         /\ \A a \in Allocator :
              state'[a] = "live" => state[a] = "live" /\ Handles(a)' >= Handles(a)
         /\ NoDecrement(Tail(todo[t])) => NoDecrement(todo'[t])
<1> DEFINE l == todo[t]
           p == parent[b]
           d == delegate[b]
           tasks == DropsOf(d) \o DropsOf(p) \o <<<<"deallocate", b>>>> \o DropsOf(p)
           w == tasks \o Tail(l)
<1>1. /\ todo \in Lists /\ TypeOK /\ FiniteTasks(todo)
      /\ state \in [Allocator -> {"unused", "live", "dying", "freed"}]
      /\ parent \in [Allocator -> Allocator \cup {None}]
      /\ delegate \in [Allocator -> Allocator \cup {None}]
      /\ p \in Allocator \cup {None} /\ d \in Allocator \cup {None}
  BY DEF HandleInv, TypeOK, Lists
<1>2. UNCHANGED <<running, parent, delegate, handle>>
  BY DEF Delete
<1>3. /\ l # << >> /\ Head(l) = <<"drop", b>> /\ Tail(l) \in Seq(Task)
      /\ Ordered(t, Tail(l), state, parent, handle)
  BY FirstTask DEF Delete
<1>4. /\ state[b] = "live" /\ Handles(b) \in Nat /\ Handles(b) > 0 /\ refcnt[b] = Handles(b)
      /\ refcnt[b] = 1
  BY Dropping DEF Delete
<1>5. state' = [state EXCEPT ![b] = "dying"]
  BY DEF Delete
<1>6. /\ state' \in [Allocator -> {"unused", "live", "dying", "freed"}]
      /\ \A a \in Allocator : state'[a] = IF a = b THEN "dying" ELSE state[a]
  BY <1>1, <1>5
<1>7. \A a \in Allocator : state[a] \in {"dying", "freed"} =>
        state'[a] \in {"dying", "freed"} /\ parent'[a] = parent[a]
  BY <1>2, <1>4, <1>6
<1>8. Ordered(t, Tail(l), state', parent, handle)
  <2> HIDE DEF l
  <2> QED
    BY <1>2, <1>3, <1>7, OrderedKeeps
<1>9. /\ w \in Seq(Task) /\ Ordered(t, w, state', parent, handle)
      /\ TwoAndOne(w, Tail(l), p, d)
  <2>1. Gone(state', b) /\ parent[b] = p
    BY <1>6, Zenon DEF Gone
  <2> DEFINE rest == Tail(l)
  <2>2. w = Deletion(b, p, d, rest)
    BY Zenon DEF Deletion
  <2> HIDE DEF w, l, p, d, rest
  <2>3. rest \in Seq(Task) /\ Ordered(t, rest, state', parent, handle)
    BY <1>3, <1>8 DEF rest
  <2>4. p \in Allocator \cup {None} /\ d \in Allocator \cup {None}
    BY <1>1
  <2>5. /\ w \in Seq(Task) /\ Ordered(t, w, state', parent, handle)
        /\ TwoAndOne(w, rest, p, d)
    BY <2>1, <2>2, <2>3, <2>4, DeletionTasks
  <2> QED
    BY <2>5 DEF rest
<1>10. todo' \in Lists /\ todo'[t] = w /\ \A u \in Thread \ {t} : todo'[u] = todo[u]
  <2>1. Becomes(t, tasks)
    BY DEF Delete, FieldDrops
  <2> HIDE DEF tasks
  <2> QED
    BY <1>1, <1>9, <2>1, BecomesList
<1> HIDE DEF w, tasks
<1>11. ASSUME NEW a \in Allocator
       PROVE  /\ FiniteTasks(todo') /\ Drops(todo, a) \in Nat /\ Decrements(todo, a) \in Nat
              /\ Same(b, a) \in Nat /\ Same(p, a) \in Nat /\ Same(d, a) \in Nat
              /\ Same(b, a) <= Drops(todo, a)
              /\ Drops(todo', a)
                   = Drops(todo, a) - Same(b, a) + Same(p, a) + Same(p, a) + Same(d, a)
              /\ Decrements(todo', a) = Decrements(todo, a)
  <2>1. Same(Head(l), DropTask(a)) = Same(b, a) /\ Same(Head(l), DecrementTask(a)) = 0
    <3>1. /\ Same(<<"drop", b>>, DropTask(a)) = Same(b, a)
          /\ Same(<<"drop", b>>, DecrementTask(a)) = 0
      BY TaskValues
    <3> HIDE DEF l
    <3> QED
      BY <1>3, <3>1
  <2>2. FiniteTasks(todo') /\ Drops(todo, a) \in Nat /\ Decrements(todo, a) \in Nat
    BY <1>1, <1>10, NewList
  <2>3. /\ Drops(todo', a) = Drops(todo, a) - Same(Head(l), DropTask(a))
             - Times(Tail(l), DropTask(a)) + Times(todo'[t], DropTask(a))
        /\ Decrements(todo', a) = Decrements(todo, a) - Same(Head(l), DecrementTask(a))
             - Times(Tail(l), DecrementTask(a)) + Times(todo'[t], DecrementTask(a))
        /\ Same(Head(l), DropTask(a)) <= Drops(todo, a)
    BY <1>1, <1>3, <1>10, FirstReplaced
  <2>4. Same(b, a) \in Nat /\ Same(p, a) \in Nat /\ Same(d, a) \in Nat
    BY SameNat
  <2> DEFINE m == Times(Tail(l), DropTask(a))
             n == Times(Tail(l), DecrementTask(a))
  <2>5. /\ m \in Nat /\ n \in Nat
        /\ Times(w, DropTask(a)) = m + Same(p, a) + Same(p, a) + Same(d, a)
        /\ Times(w, DecrementTask(a)) = n
    BY <1>9 DEF TwoAndOne
  <2>6. /\ Drops(todo', a) = Drops(todo, a) - Same(b, a) - m + Times(w, DropTask(a))
        /\ Decrements(todo', a) = Decrements(todo, a) - 0 - n + Times(w, DecrementTask(a))
        /\ Same(b, a) <= Drops(todo, a)
    BY <1>10, <2>1, <2>3
  <2> HIDE DEF l, p, d, m, n
  <2>7. Drops(todo', a) = Drops(todo, a) - Same(b, a) + Same(p, a) + Same(p, a) + Same(d, a)
    BY <2>2, <2>4, <2>5, <2>6
  <2>8. Decrements(todo', a) = Decrements(todo, a)
    BY <2>2, <2>5, <2>6
  <2> QED
    BY <2>2, <2>4, <2>6, <2>7, <2>8
<1>12. /\ refcnt' \in [Allocator -> Nat]
       /\ \A a \in Allocator : refcnt'[a] = refcnt[a] + Same(p, a)
  <2>1. refcnt' = Counted(<<p>>)
    BY DEF Delete
  <2>2. \A a \in Allocator : refcnt'[a] = refcnt[a] + Same(p, a)
    BY <1>1, <2>1, CountedOnce
  <2>3. \A a \in Allocator : refcnt'[a] \in Nat
    BY <1>1, <2>2, SameNat DEF TypeOK
  <2>4. refcnt' = [a \in Allocator |-> refcnt'[a]]
    BY <2>1 DEF Counted
  <2> QED
    BY <2>2, <2>3, <2>4
<1>13. TypeOK'
  BY <1>1, <1>2, <1>6, <1>10, <1>12 DEF TypeOK, Lists
<1>14. FiniteTasks(todo')
  BY <1>11
<1>15. ASSUME NEW a \in Allocator
       PROVE  /\ Handles(a)' = Handles(a) - Same(b, a) + Same(p, a)
              /\ Handles(a) \in Nat /\ Same(p, a) \in Nat /\ Same(b, a) \in Nat
              /\ Same(b, a) + Times(LiveOf(state, parent), a) <= Handles(a)
              /\ Times(LiveOf(state, parent), a) \in Nat
  <2>1. /\ Handles(a) = Sum(state, parent, delegate, handle, todo, a)
        /\ Times(handle, a) \in Nat
        /\ Times(LiveOf(state, parent), a) \in Nat /\ Times(LiveOf(state, delegate), a) \in Nat
        /\ Handles(a) \in Nat
    BY <1>1, HandlesNow
  <2>2. Handles(a)' = Sum(state', parent, delegate, handle, todo', a)
    BY <1>2, <1>13, <1>14, HandlesThen
  <2>3. /\ Times(LiveOf(state', parent), a) = Times(LiveOf(state, parent), a) - Same(p, a)
        /\ Times(LiveOf(state', delegate), a) = Times(LiveOf(state, delegate), a) - Same(d, a)
    <3>1. Lives(state, b) /\ ~Lives(state', b)
      BY <1>4, <1>6 DEF Lives
    <3>2. \A i \in Allocator \ {b} : state'[i] = state[i]
      BY <1>6
    <3>3. \A f : Times(LiveOf(state', f), a) = Times(LiveOf(state, f), a) - Same(f[b], a)
      BY <3>1, <3>2, FieldDies
    <3> QED
      BY <3>3
  <2> HIDE DEF l, p, d
  <2>4. Handles(a)' = Handles(a) - Same(b, a) + Same(p, a)
    BY <1>11, <2>1, <2>2, <2>3 DEF Sum
  <2>5. Same(b, a) + Times(LiveOf(state, parent), a) <= Handles(a)
    BY <1>11, <2>1 DEF Sum
  <2> QED
    BY <1>11, <2>1, <2>4, <2>5
<1>16. /\ Times(LiveOf(state, parent), p) >= 1
       /\ p # None => Handles(p) > 0 /\ state[p] = "live"
  BY <1>4, FieldHeld
<1>17. p # b
  <2> SUFFICES ASSUME p = b PROVE FALSE
    OBVIOUS
  <2>1. /\ Same(b, b) + Times(LiveOf(state, parent), b) <= Handles(b)
        /\ Times(LiveOf(state, parent), b) \in Nat
    BY <1>15
  <2>2. Times(LiveOf(state, parent), b) >= 1
    BY <1>16
  <2>3. Same(b, b) = 1
    BY DEF Same
  <2> HIDE DEF l, p, d
  <2> QED
    BY <1>4, <2>1, <2>2, <2>3
<1> HIDE DEF l, p, d
<1>18. \A u \in Thread : Ordered(u, todo'[u], state', parent', handle')
  BY <1>2, <1>7, <1>9, <1>10, OthersOrdered
<1>19. ASSUME NEW a \in Allocator, state'[a] = "live"
       PROVE  /\ state[a] = "live" /\ Handles(a)' = Handles(a) + Same(p, a)
              /\ Handles(a)' >= Handles(a) /\ refcnt'[a] = Handles(a)'
  <2>1. a # b /\ state[a] = "live"
    BY <1>6, <1>19
  <2>2. Same(b, a) = 0
    BY <2>1 DEF Same
  <2>3. refcnt[a] = Handles(a)
    BY <2>1 DEF HandleInv, CountExact
  <2> QED
    BY <1>12, <1>15, <2>1, <2>2, <2>3
<1>20. ASSUME NEW a \in Allocator, state'[a] # "live" PROVE Handles(a)' = 0
  <2>1. CASE a = b
    <3>1. Same(b, a) = 1 /\ Same(p, a) = 0 /\ Handles(a) = 1
      BY <1>4, <1>17, <2>1 DEF Same
    <3> QED
      BY <1>15, <3>1
  <2>2. CASE a # b
    <3>1. state[a] # "live" /\ Handles(a) = 0
      BY <1>6, <1>20, <2>2 DEF HandleInv
    <3>2. a # p
      BY <1>16, <3>1, AllocRefAssumption
    <3>3. Same(b, a) = 0 /\ Same(p, a) = 0
      BY <2>2, <3>2 DEF Same
    <3> QED
      BY <1>15, <3>1, <3>3
  <2> QED
    BY <2>1, <2>2
<1>21. CountExact'
  BY <1>19 DEF CountExact
<1>22. HandleInv'
  BY <1>13, <1>14, <1>18, <1>20, <1>21 DEF HandleInv
<1>23. NoDecrement(Tail(todo[t])) => NoDecrement(todo'[t])
  <2>1. \A a \in Allocator : Times(w, DecrementTask(a)) = Times(Tail(l), DecrementTask(a))
    BY <1>9 DEF TwoAndOne
  <2> QED
    BY <1>10, <2>1 DEF NoDecrement, l
<1> QED
  BY <1>19, <1>22, <1>23

LEMMA ConstructKeeps ==
  ASSUME HandleInv, NEW b \in Allocator, NEW s \in Slot,
         NEW p \in Allocator \cup {None}, NEW d \in Allocator \cup {None},
         \A h \in {p, d} : h # None => state[h] = "live",
         Construct(b, s, p, d), running' = running
  PROVE  HandleInv' /\ \A a \in Allocator : Handles(a)' >= Handles(a) + Same(b, a)
<1>1. /\ todo \in Lists /\ handle \in Holdings /\ TypeOK /\ FiniteTasks(todo)
      /\ state \in [Allocator -> {"unused", "live", "dying", "freed"}]
      /\ parent \in [Allocator -> Allocator \cup {None}]
      /\ delegate \in [Allocator -> Allocator \cup {None}]
      /\ refcnt \in [Allocator -> Nat]
  BY DEF HandleInv, TypeOK, Lists, Holdings
<1>2. /\ Idle(Owner[s]) /\ handle[s] = None /\ state[b] = "unused"
      /\ running' = running /\ todo' = todo
  BY DEF Construct
<1>3. /\ state' \in [Allocator -> {"unused", "live", "dying", "freed"}]
      /\ \A a \in Allocator : state'[a] = IF a = b THEN "live" ELSE state[a]
  BY <1>1 DEF Construct
<1>4. /\ parent' \in [Allocator -> Allocator \cup {None}]
      /\ parent'[b] = p /\ \A a \in Allocator \ {b} : parent'[a] = parent[a]
  BY <1>1 DEF Construct
<1>5. /\ delegate' \in [Allocator -> Allocator \cup {None}]
      /\ delegate'[b] = d /\ \A a \in Allocator \ {b} : delegate'[a] = delegate[a]
  BY <1>1 DEF Construct
<1>6. handle' \in Holdings /\ handle'[s] = b /\ \A r \in Slot \ {s} : handle'[r] = handle[r]
  BY <1>1 DEF Construct, Holdings
<1>7. b # p /\ b # d
  BY <1>2, AllocRefAssumption
<1>8. /\ refcnt' \in [Allocator -> Nat]
      /\ refcnt'[b] = 1
      /\ \A a \in Allocator \ {b} : refcnt'[a] = refcnt[a] + Same(p, a) + Same(d, a)
  <2> DEFINE c == Counted(<<p, d>>)
  <2>1. refcnt' = [c EXCEPT ![b] = 1]
    BY DEF Construct
  <2>2. ASSUME NEW a \in Allocator
        PROVE  c[a] = refcnt[a] + Same(p, a) + Same(d, a) /\ c[a] \in Nat
    <3>1. c[a] = refcnt[a] + Same(p, a) + Same(d, a)
      BY <1>1, CountedTwice
    <3>2. refcnt[a] \in Nat /\ Same(p, a) \in Nat /\ Same(d, a) \in Nat
      BY <1>1, SameNat
    <3> HIDE DEF c
    <3> QED
      BY <3>1, <3>2
  <2>3. c = [a \in Allocator |-> c[a]]
    BY DEF Counted
  <2> HIDE DEF c
  <2>4. c \in [Allocator -> Nat]
    BY <2>2, <2>3
  <2> QED
    BY <2>1, <2>2, <2>4
<1>9. TypeOK'
  BY <1>1, <1>2, <1>3, <1>4, <1>5, <1>6, <1>8 DEF TypeOK, Lists, Holdings
<1>10. FiniteTasks(todo')
  BY <1>1, <1>2
<1>11. ASSUME NEW a \in Allocator
       PROVE  /\ Handles(a)' = Handles(a) + Same(b, a) + Same(p, a) + Same(d, a)
              /\ Handles(a) \in Nat
              /\ Same(b, a) \in Nat /\ Same(p, a) \in Nat /\ Same(d, a) \in Nat
  <2>1. /\ Handles(a) = Sum(state, parent, delegate, handle, todo, a)
        /\ Times(handle, a) \in Nat
        /\ Times(LiveOf(state, parent), a) \in Nat /\ Times(LiveOf(state, delegate), a) \in Nat
        /\ Drops(todo, a) \in Nat /\ Decrements(todo, a) \in Nat /\ Handles(a) \in Nat
    BY <1>1, HandlesNow
  <2>2. Handles(a)' = Sum(state', parent', delegate', handle', todo, a)
    <3>1. Handles(a)' = Sum(state', parent', delegate', handle', todo', a)
      BY <1>9, <1>10, HandlesThen
    <3>2. todo' = todo
      BY <1>2
    <3> QED
      BY <3>1, <3>2
  <2>3. Same(b, a) \in Nat /\ Same(p, a) \in Nat /\ Same(d, a) \in Nat /\ Same(None, a) = 0
    BY SameNat
  <2>4. Times(handle', a) = Times(handle, a) + Same(b, a)
    <3>1. Times(handle', a) = Times(handle, a) - Same(None, a) + Same(b, a)
      BY <1>1, <1>2, <1>6, SlotChanges
    <3> QED
      BY <2>1, <2>3, <3>1
  <2>5. /\ Times(LiveOf(state', parent'), a) = Times(LiveOf(state, parent), a) + Same(p, a)
        /\ Times(LiveOf(state', delegate'), a) = Times(LiveOf(state, delegate), a) + Same(d, a)
    <3>1. ~Lives(state, b) /\ Lives(state', b)
      BY <1>2, <1>3 DEF Lives
    <3>2. \A i \in Allocator \ {b} : state'[i] = state[i]
      BY <1>3
    <3>3. Times(LiveOf(state', parent'), a) = Times(LiveOf(state, parent), a) + Same(parent'[b], a)
      BY <1>4, <3>1, <3>2, FieldMade
    <3>4. Times(LiveOf(state', delegate'), a) = Times(LiveOf(state, delegate), a) + Same(delegate'[b], a)
      BY <1>5, <3>1, <3>2, FieldMade
    <3> QED
      BY <1>4, <1>5, <3>3, <3>4
  <2>6. Handles(a)' = Handles(a) + Same(b, a) + Same(p, a) + Same(d, a)
    BY <2>1, <2>2, <2>3, <2>4, <2>5 DEF Sum
  <2> QED
    BY <2>1, <2>3, <2>6
<1>12. ASSUME NEW u \in Thread PROVE Ordered(u, todo'[u], state', parent', handle')
  <2>1. todo[u] \in Seq(Task) /\ Ordered(u, todo[u], state, parent, handle)
    BY <1>1 DEF Lists, HandleInv
  <2>2. \A a \in Allocator : state[a] \in {"dying", "freed"} =>
          state'[a] \in {"dying", "freed"} /\ parent'[a] = parent[a]
    BY <1>2, <1>3, <1>4
  <2>3. \A r \in Slot : Owner[r] = u /\ handle[r] = None /\ todo[u] # << >> => handle'[r] = None
    BY <1>2, <1>6 DEF Idle
  <2>4. Ordered(u, todo[u], state', parent', handle')
    BY <2>1, <2>2, <2>3, OrderedKeeps
  <2> QED
    BY <1>2, <2>4
<1>13. ASSUME NEW a \in Allocator, state'[a] = "live" PROVE refcnt'[a] = Handles(a)'
  <2>1. CASE a = b
    <3>1. Handles(a) = 0
      BY <1>2, <2>1 DEF HandleInv
    <3>2. Same(b, a) = 1 /\ Same(p, a) = 0 /\ Same(d, a) = 0
      BY <1>7, <2>1 DEF Same
    <3>3. refcnt'[a] = 1
      BY <1>8, <2>1
    <3> QED
      BY <1>11, <3>1, <3>2, <3>3
  <2>2. CASE a # b
    <3>1. refcnt[a] = Handles(a)
      BY <1>3, <1>13, <2>2 DEF HandleInv, CountExact
    <3>2. Same(b, a) = 0
      BY <2>2 DEF Same
    <3>3. refcnt'[a] = refcnt[a] + Same(p, a) + Same(d, a)
      BY <1>8, <2>2
    <3> QED
      BY <1>11, <3>1, <3>2, <3>3
  <2> QED
    BY <2>1, <2>2
<1>14. ASSUME NEW a \in Allocator, state'[a] # "live" PROVE Handles(a)' = 0
  <2>1. a # b /\ state[a] # "live" /\ Handles(a) = 0
    BY <1>3, <1>14 DEF HandleInv
  <2>2. a # p /\ a # d
    BY <2>1, AllocRefAssumption
  <2>3. Same(b, a) = 0 /\ Same(p, a) = 0 /\ Same(d, a) = 0
    BY <2>1, <2>2 DEF Same
  <2> QED
    BY <1>11, <2>1, <2>3
<1>15. HandleInv'
  <2>1. CountExact'
    BY <1>13 DEF CountExact
  <2> QED
    BY <1>9, <1>10, <1>12, <1>14, <2>1 DEF HandleInv
<1>16. \A a \in Allocator : Handles(a)' >= Handles(a) + Same(b, a)
  BY <1>11
<1> QED
  BY <1>15, <1>16

-----------------------------------------------------------------------------
(***************************************************************************)
(* Every step                                                              *)
(***************************************************************************)

\* Nothing is left over.
AllHeld == \A a \in Allocator : state[a] = "live" => Handles(a) > 0

\* Only the first destructor of t is about to decrement a count, which is then
\* not the last.
Steady(t) == todo[t] # << >> =>
  /\ NoDecrement(Tail(todo[t]))
  /\ \A b \in Allocator : Head(todo[t]) = <<"decrement", b>> => refcnt[b] >= 2

LEMMA SteadyWithout ==
  ASSUME TypeOK', NEW t \in Thread, NoDecrement(todo'[t])
  PROVE  Steady(t)'
<1> DEFINE l == todo'[t]
<1>1. l \in Seq(Task)
  BY DEF TypeOK
<1> HIDE DEF l
<1> SUFFICES ASSUME l # << >>
             PROVE  /\ NoDecrement(Tail(l))
                    /\ \A b \in Allocator : Head(l) # <<"decrement", b>>
  BY DEF Steady, l
<1>2. ASSUME NEW a \in Allocator
      PROVE  /\ Times(l, DecrementTask(a)) = 0
             /\ Times(Tail(l), DecrementTask(a)) \in Nat
             /\ Times(l, DecrementTask(a))
                  = Times(Tail(l), DecrementTask(a)) + Same(Head(l), DecrementTask(a))
  BY <1>1, TimesPop DEF NoDecrement, l
<1>3. \A h, x : Same(h, x) \in Nat /\ (h = x => Same(h, x) = 1)
  BY DEF Same
<1>4. ASSUME NEW a \in Allocator
      PROVE  Times(Tail(l), DecrementTask(a)) = 0 /\ Same(Head(l), DecrementTask(a)) = 0
  BY <1>2, <1>3
<1>5. \A b \in Allocator : Head(l) # DecrementTask(b)
  BY <1>3, <1>4
<1> QED
  BY <1>4, <1>5 DEF NoDecrement, DecrementTask

LEMMA SteadyIdle ==
  ASSUME NEW t \in Thread, todo'[t] = << >>
  PROVE  Steady(t)'
BY DEF Steady

\* What a step did not make, and has no fewer handles of, is held still.
LEMMA StillHeld ==
  ASSUME HandleInv, HandleInv', AllHeld,
         \A a \in Allocator :
           state'[a] = "live" => state[a] = "live" /\ Handles(a)' >= Handles(a)
  PROVE  AllHeld'
<1> SUFFICES ASSUME NEW a \in Allocator, state'[a] = "live" PROVE Handles(a)' > 0
  BY DEF AllHeld
<1>1. TypeOK /\ FiniteTasks(todo) /\ TypeOK' /\ FiniteTasks(todo')
  BY DEF HandleInv
<1>2. Handles(a) \in Nat /\ Handles(a)' \in Nat
  BY <1>1, HandlesNow, HandlesThen
<1>3. Handles(a) > 0 /\ Handles(a)' >= Handles(a)
  BY DEF AllHeld
<1> QED
  BY <1>2, <1>3

\* t is the only thread, and what it has left to do leaves nothing over.
Alone(t) == running = {t} /\ Steady(t) /\ AllHeld

LEMMA UsesKeeps ==
  ASSUME HandleInv, NEW t \in Thread, Uses(t), running' = running
  PROVE  HandleInv' /\ (Alone(t) => Alone(t)')
<1>1. TypeOK /\ FiniteTasks(todo) /\ running \subseteq Thread
  BY DEF HandleInv, TypeOK
<1>2. \A a \in Allocator : Handles(a) \in Nat
  BY <1>1, HandlesNow
<1>3. \A s \in Mine(t) : s \in Slot /\ Owner[s] = t
  BY DEF Mine
<1>4. ASSUME HandleInv', NoDecrement(todo'[t]) \/ todo'[t] = << >>, Alone(t), AllHeld'
      PROVE  Alone(t)'
  <2>1. TypeOK'
    BY <1>4 DEF HandleInv
  <2>2. Steady(t)'
    BY <1>4, <2>1, SteadyWithout, SteadyIdle
  <2> QED
    BY <1>4, <2>2 DEF Alone
<1>5. ASSUME NEW b \in Allocator, NEW s \in Mine(t), NEW p \in Known(t), NEW d \in Known(t),
             Construct(b, s, p, d)
      PROVE  HandleInv' /\ (Alone(t) => Alone(t)')
  <2>1. ASSUME NEW h \in Known(t)
        PROVE  h \in Allocator \cup {None} /\ (h # None => state[h] = "live")
    <3>1. h = None \/ \E q \in Slot : h = handle[q]
      BY <1>3 DEF Known
    <3> QED
      BY <3>1, Held
  <2>2. /\ HandleInv'
        /\ \A a \in Allocator : Handles(a)' >= Handles(a) + Same(b, a)
    BY <1>3, <1>5, <2>1, ConstructKeeps
  <2>3. todo'[t] = << >>
    BY <1>3, <1>5 DEF Construct, Idle
  <2>4. ASSUME AllHeld, NEW a \in Allocator, state'[a] = "live" PROVE Handles(a)' > 0
    <3>1. TypeOK' /\ FiniteTasks(todo')
      BY <2>2 DEF HandleInv
    <3>2. Handles(a)' \in Nat /\ Handles(a)' >= Handles(a) + Same(b, a) /\ Same(b, a) \in Nat
      BY <2>2, <3>1, HandlesThen, SameNat
    <3>3. CASE a = b
      <4>1. Same(b, a) = 1
        BY <3>3 DEF Same
      <4> QED
        BY <1>2, <3>2, <4>1
    <3>4. CASE a # b
      <4>1. state[a] = "live"
        <5>1. state' = [state EXCEPT ![b] = "live"]
          BY <1>5 DEF Construct
        <5> QED
          BY <1>1, <2>4, <3>4, <5>1 DEF TypeOK
      <4>2. Handles(a) > 0
        BY <2>4, <4>1 DEF AllHeld
      <4> QED
        BY <1>2, <3>2, <4>2
    <3> QED
      BY <3>3, <3>4
  <2>5. AllHeld => AllHeld'
    BY <2>4 DEF AllHeld
  <2> QED
    BY <1>4, <2>2, <2>3, <2>5 DEF Alone
<1>6. ASSUME NEW s \in Mine(t), NEW u \in running, NEW r \in Mine(u), Copy(s, r) \/ Move(s, r)
      PROVE  HandleInv' /\ (Alone(t) => Alone(t)')
  <2>1. s \in Slot /\ r \in Slot /\ Owner[r] = u
    BY DEF Mine
  <2>2. HandleInv' /\ \A a \in Allocator : Handles(a)' >= Handles(a)
    BY <1>6, <2>1, CopyKeeps, MoveKeeps
  <2>3. state' = state /\ todo' = todo /\ Idle(u)
    BY <1>6, <2>1 DEF Copy, Move
  <2>4. Alone(t) => todo'[t] = << >>
    BY <2>3 DEF Alone, Idle
  <2>5. AllHeld => AllHeld'
    BY <2>2, <2>3, StillHeld
  <2> QED
    BY <1>4, <2>2, <2>4, <2>5 DEF Alone
<1>7. ASSUME NEW s \in Mine(t), NEW r \in Mine(t), NEW how \in {"copy", "move"},
             Assign(t, s, r, how)
      PROVE  HandleInv' /\ (Alone(t) => Alone(t)')
  <2>1. /\ HandleInv' /\ \A a \in Allocator : Handles(a)' = Handles(a)
        /\ NoDecrement(todo'[t])
    BY <1>3, <1>7, AssignKeeps
  <2>2. state' = state
    BY <1>7 DEF Assign
  <2>3. AllHeld => AllHeld'
    BY <1>2, <2>1, <2>2, StillHeld
  <2> QED
    BY <1>4, <2>1, <2>3 DEF Alone
<1>8. ASSUME NEW s \in Mine(t), Drop(t, s)
      PROVE  HandleInv' /\ (Alone(t) => Alone(t)')
  <2>1. /\ HandleInv' /\ \A a \in Allocator : Handles(a)' = Handles(a)
        /\ NoDecrement(todo'[t])
    BY <1>3, <1>8, DropKeeps
  <2>2. state' = state
    BY <1>8 DEF Drop
  <2>3. AllHeld => AllHeld'
    BY <1>2, <2>1, <2>2, StillHeld
  <2> QED
    BY <1>4, <2>1, <2>3 DEF Alone
<1> QED
  BY <1>5, <1>6, <1>7, <1>8 DEF Uses

LEMMA ProceedsKeeps ==
  ASSUME HandleInv, NEW t \in Thread, Proceeds(t), running' = running
  PROVE  HandleInv' /\ (Alone(t) => Alone(t)')
<1> DEFINE l == todo[t]
<1>1. TypeOK /\ FiniteTasks(todo) /\ running \subseteq Thread
  BY DEF HandleInv, TypeOK
<1>2. \A a \in Allocator : Handles(a) \in Nat
  BY <1>1, HandlesNow
<1>3. ASSUME HandleInv', NoDecrement(todo'[t]) \/ todo'[t] = << >> \/ Steady(t)',
             Alone(t), AllHeld'
      PROVE  Alone(t)'
  <2>1. TypeOK'
    BY <1>3 DEF HandleInv
  <2>2. Steady(t)'
    BY <1>3, <2>1, SteadyWithout, SteadyIdle
  <2> QED
    BY <1>3, <2>2 DEF Alone
<1>4. ASSUME l # << >>, Alone(t)
      PROVE  /\ NoDecrement(Tail(l))
             /\ \A b \in Allocator : Head(l) = <<"decrement", b>> => refcnt[b] >= 2
  BY <1>4 DEF Alone, Steady
<1>5. ASSUME NEW b \in Allocator, Shared(t, b)
      PROVE  HandleInv' /\ (Alone(t) => Alone(t)')
  <2>1. /\ HandleInv' /\ \A a \in Allocator : Handles(a)' = Handles(a)
        /\ todo'[t] = <<<<"decrement", b>>>> \o Tail(l)
    BY <1>5, SharedKeeps
  <2>2. state' = state /\ refcnt' = refcnt /\ Doing(t, "drop", b) /\ refcnt[b] # 1
    BY <1>5 DEF Shared
  <2>3. AllHeld => AllHeld'
    BY <1>2, <2>1, <2>2, StillHeld
  <2>4. l # << >> /\ Tail(l) \in Seq(Task)
    BY <2>2, FirstTask
  <2>5. refcnt[b] >= 2
    <3>1. Handles(b) \in Nat /\ Handles(b) > 0 /\ refcnt[b] = Handles(b)
      BY <2>2, Dropping
    <3> QED
      BY <2>2, <3>1
  <2>6. ASSUME Alone(t) PROVE Steady(t)'
    <3> DEFINE y == <<"decrement", b>>
               v == Tail(l)
               w == todo'[t]
    <3>1. NoDecrement(v)
      BY <1>4, <2>4, <2>6
    <3>2. y \in Task /\ \A a \in Allocator : y = <<"decrement", a>> => a = b
      BY DEF Task
    <3>3. w = <<y>> \o v /\ v \in Seq(Task)
      BY <2>1, <2>4
    <3> HIDE DEF y, v, w, l
    <3>4. Head(w) = y /\ Tail(w) = v
      BY <3>2, <3>3, PushElements
    <3>5. NoDecrement(Tail(w)) /\ \A a \in Allocator : Head(w) = <<"decrement", a>> => refcnt'[a] >= 2
      BY <2>2, <2>5, <3>1, <3>2, <3>4
    <3> QED
      BY <3>5 DEF Steady, w
  <2> QED
    BY <1>3, <2>1, <2>3, <2>6 DEF Alone
<1>6. ASSUME NEW b \in Allocator, Decrement(t, b)
      PROVE  HandleInv' /\ (Alone(t) => Alone(t)')
  <2>1. /\ HandleInv' /\ \A a \in Allocator : Handles(a)' = Handles(a) - Same(b, a)
        /\ todo'[t] = Tail(l)
    BY <1>6, DecrementKeeps
  <2>2. state' = state /\ Doing(t, "decrement", b)
    BY <1>6 DEF Decrement
  <2>3. l # << >> /\ Head(l) = <<"decrement", b>>
    BY <2>2, FirstTask
  <2>4. ASSUME Alone(t) PROVE NoDecrement(todo'[t]) /\ refcnt[b] >= 2
    <3>1. NoDecrement(Tail(l)) /\ refcnt[b] >= 2
      BY <1>4, <2>3, <2>4
    <3> QED
      BY <2>1, <3>1
  <2>5. ASSUME Alone(t), NEW a \in Allocator, state'[a] = "live" PROVE Handles(a)' > 0
    <3>1. Handles(a) > 0
      BY <2>2, <2>5 DEF Alone, AllHeld
    <3>2. CASE a = b
      <4>1. Same(b, a) = 1 /\ Handles(b) = refcnt[b]
        BY <2>2, <3>2, Dropping DEF Same
      <4>2. refcnt[b] >= 2
        BY <2>4, <2>5
      <4> QED
        BY <1>2, <2>1, <3>2, <4>1, <4>2
    <3>3. CASE a # b
      <4>1. Same(b, a) = 0
        BY <3>3 DEF Same
      <4> QED
        BY <1>2, <2>1, <3>1, <4>1
    <3> QED
      BY <3>2, <3>3
  <2>6. Alone(t) => AllHeld'
    BY <2>5 DEF AllHeld
  <2> QED
    BY <1>3, <2>1, <2>4, <2>6
<1>7. ASSUME NEW b \in Allocator, Delete(t, b)
      PROVE  HandleInv' /\ (Alone(t) => Alone(t)')
  <2>1. /\ HandleInv'
        /\ \A a \in Allocator :
             state'[a] = "live" => state[a] = "live" /\ Handles(a)' >= Handles(a)
        /\ NoDecrement(Tail(l)) => NoDecrement(todo'[t])
    BY <1>7, DeleteKeeps
  <2>2. l # << >>
    BY <1>7 DEF Delete, Doing, Idle
  <2>3. AllHeld => AllHeld'
    BY <2>1, StillHeld
  <2> QED
    BY <1>3, <1>4, <2>1, <2>2, <2>3 DEF Alone
<1>8. ASSUME NEW b \in Allocator, Deallocate(t, b)
      PROVE  HandleInv' /\ (Alone(t) => Alone(t)')
  <2>1. /\ HandleInv'
        /\ \A a \in Allocator :
             Handles(a)' = Handles(a) /\ (state'[a] = "live" => state[a] = "live")
        /\ todo'[t] = Tail(l)
    BY <1>8, DeallocateKeeps
  <2>2. l # << >>
    BY <1>8 DEF Deallocate, Doing, Idle
  <2>3. AllHeld => AllHeld'
    BY <1>2, <2>1, StillHeld
  <2>4. ASSUME Alone(t) PROVE NoDecrement(todo'[t])
    BY <1>4, <2>1, <2>2, <2>4
  <2> QED
    BY <1>3, <2>1, <2>3, <2>4 DEF Alone
<1>9. ASSUME NEW s \in Mine(t), NEW r \in Mine(t), Assigned(t, s, r)
      PROVE  HandleInv' /\ (Alone(t) => Alone(t)')
  <2>1. s \in Slot /\ r \in Slot
    BY DEF Mine
  <2>2. /\ HandleInv' /\ \A a \in Allocator : Handles(a)' >= Handles(a)
        /\ todo'[t] = << >>
    BY <1>9, <2>1, AssignedKeeps
  <2>3. state' = state
    BY <1>9 DEF Assigned
  <2>4. AllHeld => AllHeld'
    BY <2>2, <2>3, StillHeld
  <2> QED
    BY <1>3, <2>2, <2>4 DEF Alone
<1> QED
  BY <1>5, <1>6, <1>7, <1>8, <1>9 DEF Proceeds

LEMMA Beginning ==
  ASSUME Init
  PROVE  HandleInv /\ AllHeld /\ \A t \in Thread : Steady(t)
<1>1. /\ state = [a \in Allocator |-> "unused"] /\ handle = [s \in Slot |-> None]
      /\ todo = [t \in Thread |-> << >>]
  BY DEF Init
<1>2. TypeOK
  <2>1. /\ running \subseteq Thread
        /\ parent = [a \in Allocator |-> None] /\ delegate = [a \in Allocator |-> None]
        /\ refcnt = [a \in Allocator |-> 0]
    BY DEF Init
  <2> QED
    BY <1>1, <2>1 DEF TypeOK
<1>3. ASSUME NEW x PROVE TasksIn(todo, x) = {}
  <2>1. \A t \in Thread : todo[t] = << >>
    BY <1>1
  <2>2. \A t : TasksOf(<< >>, t, x) = {}
    BY DEF TasksOf
  <2> QED
    BY <2>1, <2>2 DEF TasksIn
<1>4. FiniteTasks(todo)
  BY <1>3, FS_EmptySet DEF FiniteTasks
<1>5. ASSUME NEW a \in Allocator PROVE Handles(a) = 0
  <2>1. {i \in DOMAIN handle : handle[i] = a} = {}
    BY <1>1, AllocRefAssumption
  <2>2. /\ {i \in DOMAIN LiveOf(state, parent) : LiveOf(state, parent)[i] = a} = {}
        /\ {i \in DOMAIN LiveOf(state, delegate) : LiveOf(state, delegate)[i] = a} = {}
    BY <1>1, AllocRefAssumption DEF LiveOf
  <2>3. /\ Times(handle, a) = 0
        /\ Times(LiveOf(state, parent), a) = 0 /\ Times(LiveOf(state, delegate), a) = 0
    BY <2>1, <2>2, FS_EmptySet DEF Times
  <2>4. Drops(todo, a) = 0 /\ Decrements(todo, a) = 0
    BY <1>3, FS_EmptySet DEF Drops, Decrements
  <2>5. Handles(a) = Sum(state, parent, delegate, handle, todo, a)
    BY <1>2, <1>4, HandlesNow
  <2> QED
    BY <2>3, <2>4, <2>5 DEF Sum
<1>6. \A a \in Allocator : state[a] # "live"
  BY <1>1
<1>7. \A u \in Thread : Ordered(u, todo[u], state, parent, handle)
  BY <1>1, OrderedEmpty
<1>8. HandleInv
  BY <1>2, <1>4, <1>5, <1>6, <1>7 DEF HandleInv, CountExact
<1> QED
  BY <1>1, <1>6, <1>8 DEF AllHeld, Steady

\* With one thread, nothing is ever left over.
AloneInv == HandleInv /\ \A t \in Thread : running = {t} => Alone(t)

LEMMA AlwaysHandleInv ==
  Spec => []AloneInv
<1>1. Init => AloneInv
  BY Beginning DEF AloneInv, Alone
<1>2. AloneInv /\ [Next]_vars => AloneInv'
  <2> SUFFICES ASSUME AloneInv, [Next]_vars PROVE AloneInv'
    OBVIOUS
  <2>1. CASE Next
    <3>1. PICK t \in running : Uses(t) \/ Proceeds(t)
      BY <2>1 DEF Next
    <3>2. running' = running /\ t \in Thread
      BY <2>1 DEF Next, AloneInv, HandleInv, TypeOK
    <3>3. HandleInv' /\ (Alone(t) => Alone(t)')
      BY <3>1, <3>2, UsesKeeps, ProceedsKeeps DEF AloneInv
    <3>4. ASSUME NEW u \in Thread, running' = {u} PROVE Alone(u)'
      <4>1. u = t
        BY <3>2, <3>4
      <4>2. Alone(t)
        BY <3>2, <3>4, <4>1 DEF AloneInv
      <4> QED
        BY <3>3, <4>1, <4>2
    <3> QED
      BY <3>3, <3>4 DEF AloneInv
  <2>2. CASE UNCHANGED vars
    <3>1. UNCHANGED <<running, state, parent, delegate, refcnt, handle, todo>>
      BY <2>2 DEF vars
    <3>2. \A a \in Allocator : Handles(a)' = Handles(a)
      BY <3>1 DEF Handles, Tasks
    <3>3. HandleInv'
      BY <3>1, <3>2 DEF AloneInv, HandleInv, TypeOK, CountExact
    <3>4. \A t \in Thread : Alone(t) => Alone(t)'
      BY <3>1, <3>2 DEF Alone, AllHeld, Steady
    <3> QED
      BY <3>1, <3>3, <3>4 DEF AloneInv
  <2> QED
    BY <2>1, <2>2
<1> QED
  BY <1>1, <1>2, PTL DEF Spec

-----------------------------------------------------------------------------
(***************************************************************************)
(* Theorems                                                                *)
(***************************************************************************)

\* Every variable, field and count of allocator.hpp keeps its type; a count is
\* never decremented below zero.
THEOREM AllocRefTypes == Spec => []TypeOK
<1>1. AloneInv => TypeOK
  BY DEF AloneInv, HandleInv
<1> QED
  BY <1>1, AlwaysHandleInv, PTL

\* However threads interleave what the constructors, the assignments and the
\* nested destructors of alloc_ref_t do, the count of an allocator is that of
\* its handles.
THEOREM HandlesAreCounted == Spec => []CountExact
<1>1. AloneInv => CountExact
  BY DEF AloneInv, HandleInv
<1> QED
  BY <1>1, AlwaysHandleInv, PTL

\* No variable, field or destructor refers to an allocator that was deleted,
\* and the parent that takes the memory of one back exists when it does.
THEOREM NothingDangles == Spec => []NoneDangling
<1>1. AloneInv => NoneDangling
  <2> SUFFICES ASSUME HandleInv PROVE NoneDangling
    BY DEF AloneInv
  <2>1. \A a \in Allocator : state[a] # "live" => Handles(a) = 0
    BY DEF HandleInv
  <2>2. ASSUME NEW t \in Thread, NEW a \in Allocator,
               Doing(t, "deallocate", a), parent[a] # None
        PROVE  state[parent[a]] = "live"
    <3> DEFINE l == todo[t]
               p == parent[a]
    <3>1. /\ l \in Seq(Task) /\ l # << >> /\ Head(l) = <<"deallocate", a>>
          /\ Ordered(t, l, state, parent, handle)
      BY <2>2, FirstTask
    <3>2. p \in Allocator /\ TypeOK /\ FiniteTasks(todo) /\ todo \in Lists
      BY <2>2 DEF HandleInv, TypeOK, Lists
    <3>3. 1 \in DOMAIN l /\ l[1] = <<"deallocate", a>>
      <4> HIDE DEF l
      <4> QED
        BY <3>1, PopIndices
    <3>4. 2 \in DOMAIN l /\ l[2] = DropTask(p)
      <4>1. 1 + 1 \in DOMAIN l /\ l[1 + 1] = <<"drop", p>>
        <5> HIDE DEF l
        <5> QED
          BY <2>2, <3>1, <3>3 DEF Ordered, ParentNext
      <4> QED
        BY <4>1 DEF DropTask
    <3>5. IsFiniteSet(DOMAIN l)
      <4>1. DOMAIN l = 1..Len(l) /\ Len(l) \in Nat
        BY <3>1
      <4> QED
        BY <4>1, FS_Interval
    <3>6. Times(l, DropTask(p)) \in Nat /\ Times(l, DropTask(p)) >= 1
      <4> HIDE DEF l
      <4> QED
        BY <3>4, <3>5, TimesPositive
    <3>7. Times(l, DropTask(p)) <= Drops(todo, p)
      BY <3>2, NewList
    <3>8. /\ Handles(p) = Sum(state, parent, delegate, handle, todo, p)
          /\ Times(handle, p) \in Nat
          /\ Times(LiveOf(state, parent), p) \in Nat /\ Times(LiveOf(state, delegate), p) \in Nat
          /\ Drops(todo, p) \in Nat /\ Decrements(todo, p) \in Nat
      BY <3>2, HandlesNow
    <3> HIDE DEF p, l
    <3>9. Handles(p) # 0
      BY <3>6, <3>7, <3>8 DEF Sum
    <3> QED
      BY <2>1, <3>2, <3>9 DEF p
  <2> QED
    BY <2>1, <2>2 DEF NoneDangling
<1> QED
  BY <1>1, AlwaysHandleInv, PTL

\* When one thread has all the handles, an allocator that is not referred to
\* any more is deleted, whichever destructor drops its last handle.
THEOREM NothingIsOrphaned == Spec => []NothingOrphaned
<1>1. AloneInv => NothingOrphaned
  <2> SUFFICES ASSUME AloneInv, Cardinality(running) = 1 PROVE AllHeld
    BY DEF NothingOrphaned, AllHeld
  <2>1. running \subseteq Thread
    BY DEF AloneInv, HandleInv, TypeOK
  <2>2. IsFiniteSet(running)
    BY <2>1, AllocRefAssumption, FS_Subset
  <2>3. \E t : running = {t}
    BY <2>2, FS_Singleton
  <2> QED
    BY <2>1, <2>3 DEF AloneInv, Alone
<1> QED
  BY <1>1, AlwaysHandleInv, PTL
=============================================================================
