------------------------------ MODULE StackLemmas ------------------------------
(***************************************************************************)
(* What pushing, popping and concatenating do to the elements of a stack,  *)
(* and induction on numbers.                                               *)
(***************************************************************************)
EXTENDS Stacks, SequenceTheorems, FiniteSetTheorems, TLAPS

\* What is on a stack after a push: the new top, and above it, one place
\* further down, what was there.
LEMMA PushIndices ==
  ASSUME NEW S, NEW s \in Seq(S), NEW x \in S
  PROVE  /\ <<x>> \o s \in Seq(S)
         /\ Len(<<x>> \o s) = Len(s) + 1
         /\ DOMAIN (<<x>> \o s) = 1..(Len(s) + 1)
         /\ Head(<<x>> \o s) = x
         /\ Tail(<<x>> \o s) = s
         /\ (<<x>> \o s)[1] = x
         /\ \A i \in DOMAIN s : (<<x>> \o s)[i + 1] = s[i]
         /\ \A i \in DOMAIN (<<x>> \o s) :
              i = 1 \/ (i - 1 \in DOMAIN s /\ (<<x>> \o s)[i] = s[i - 1])
<1>1. <<x>> \in Seq(S) /\ Len(<<x>>) = 1 /\ <<x>>[1] = x
  OBVIOUS
<1>2. /\ <<x>> \o s \in Seq(S)
      /\ Len(<<x>> \o s) = Len(s) + 1
      /\ \A i \in 1..(Len(s) + 1) :
           (<<x>> \o s)[i] = IF i <= 1 THEN x ELSE s[i - 1]
  <2>1. \A i \in 1..(1 + Len(s)) :
           (<<x>> \o s)[i] = IF i <= 1 THEN <<x>>[i] ELSE s[i - 1]
    BY <1>1, ConcatProperties
  <2>2. Len(s) \in Nat
    OBVIOUS
  <2> QED
    BY <1>1, <2>1, <2>2, ConcatProperties
<1>3. DOMAIN s = 1..Len(s) /\ Len(s) \in Nat
  OBVIOUS
<1>4. DOMAIN (<<x>> \o s) = 1..(Len(s) + 1)
  BY <1>2
<1>5. \A i \in DOMAIN s : (<<x>> \o s)[i + 1] = s[i]
  BY <1>2, <1>3
<1>6. \A i \in DOMAIN (<<x>> \o s) :
        i = 1 \/ (i - 1 \in DOMAIN s /\ (<<x>> \o s)[i] = s[i - 1])
  BY <1>2, <1>3, <1>4
<1>7. Head(<<x>> \o s) = x /\ (<<x>> \o s)[1] = x
  BY <1>2, <1>3
<1>8. Tail(<<x>> \o s) = s
  <2>1. <<x>> \o s # << >>
    BY <1>2, <1>3
  <2>2. /\ Tail(<<x>> \o s) \in Seq(S)
        /\ Len(Tail(<<x>> \o s)) = Len(s)
        /\ \A i \in 1..Len(s) : Tail(<<x>> \o s)[i] = (<<x>> \o s)[i + 1]
    BY <1>2, <1>3, <2>1, HeadTailProperties
  <2> QED
    BY <1>3, <1>5, <2>2, SeqEqual
<1> QED
  BY <1>2, <1>4, <1>5, <1>6, <1>7, <1>8

\* What is on a stack after a pop.
LEMMA PopIndices ==
  ASSUME NEW S, NEW s \in Seq(S), s # << >>
  PROVE  /\ Head(s) \in S /\ Head(s) = s[1]
         /\ 1 \in DOMAIN s
         /\ Tail(s) \in Seq(S)
         /\ Len(s) = Len(Tail(s)) + 1
         /\ DOMAIN Tail(s) = 1..(Len(s) - 1)
         /\ \A i \in DOMAIN Tail(s) : i + 1 \in DOMAIN s /\ Tail(s)[i] = s[i + 1]
         /\ \A i \in DOMAIN s :
              i = 1 \/ (i - 1 \in DOMAIN Tail(s) /\ Tail(s)[i - 1] = s[i])
<1>1. /\ Tail(s) \in Seq(S) /\ Head(s) \in S
      /\ Len(Tail(s)) = Len(s) - 1
      /\ \A i \in 1..Len(Tail(s)) : Tail(s)[i] = s[i + 1]
  BY HeadTailProperties
<1>2. /\ DOMAIN s = 1..Len(s) /\ Len(s) \in Nat \ {0}
      /\ DOMAIN Tail(s) = 1..Len(Tail(s)) /\ Head(s) = s[1]
  BY <1>1, EmptySeq
<1>3. \A i \in DOMAIN s :
        i = 1 \/ (i - 1 \in DOMAIN Tail(s) /\ Tail(s)[i - 1] = s[i])
  BY <1>1, <1>2
<1>4. \A i \in DOMAIN Tail(s) : i + 1 \in DOMAIN s /\ Tail(s)[i] = s[i + 1]
  BY <1>1, <1>2
<1> QED
  BY <1>1, <1>2, <1>3, <1>4

\* Where the elements of a concatenation come from.
LEMMA ConcatIndices ==
  ASSUME NEW S, NEW s \in Seq(S), NEW t \in Seq(S)
  PROVE  /\ s \o t \in Seq(S)
         /\ \A i \in DOMAIN s : i \in DOMAIN (s \o t) /\ (s \o t)[i] = s[i]
         /\ \A j \in DOMAIN t : /\ Len(s) + j \in DOMAIN (s \o t)
                                /\ (s \o t)[Len(s) + j] = t[j]
         /\ \A i \in DOMAIN (s \o t) :
              i \in DOMAIN s \/ (i - Len(s) \in DOMAIN t
                                /\ (s \o t)[i] = t[i - Len(s)])
<1>1. /\ s \o t \in Seq(S)
      /\ Len(s \o t) = Len(s) + Len(t)
      /\ \A i \in 1..(Len(s) + Len(t)) :
           (s \o t)[i] = IF i <= Len(s) THEN s[i] ELSE t[i - Len(s)]
  BY ConcatProperties
<1>2. /\ DOMAIN s = 1..Len(s) /\ Len(s) \in Nat
      /\ DOMAIN t = 1..Len(t) /\ Len(t) \in Nat
      /\ DOMAIN (s \o t) = 1..(Len(s) + Len(t))
  BY <1>1
<1>3. \A i \in DOMAIN s : i \in DOMAIN (s \o t) /\ (s \o t)[i] = s[i]
  BY <1>1, <1>2
<1>4. \A j \in DOMAIN t : /\ Len(s) + j \in DOMAIN (s \o t)
                         /\ (s \o t)[Len(s) + j] = t[j]
  BY <1>1, <1>2
<1>5. \A i \in DOMAIN (s \o t) :
        i \in DOMAIN s \/ (i - Len(s) \in DOMAIN t
                          /\ (s \o t)[i] = t[i - Len(s)])
  BY <1>1, <1>2
<1> QED
  BY <1>1, <1>2, <1>3, <1>4, <1>5

\* A push adds the new element; a stack stays free of repetitions when it is
\* given something it does not hold.
LEMMA PushElements ==
  ASSUME NEW S, NEW s \in Seq(S), NEW x \in S
  PROVE  /\ <<x>> \o s \in Seq(S)
         /\ <<x>> \o s # << >>
         /\ Len(<<x>> \o s) = Len(s) + 1
         /\ Head(<<x>> \o s) = x
         /\ Tail(<<x>> \o s) = s
         /\ Elements(<<x>> \o s) = Elements(s) \cup {x}
         /\ Distinct(s) /\ x \notin Elements(s) => Distinct(<<x>> \o s)
<1> DEFINE p == <<x>> \o s
<1>1. /\ p \in Seq(S) /\ Len(p) = Len(s) + 1 /\ DOMAIN p = 1..(Len(s) + 1)
      /\ Head(p) = x /\ Tail(p) = s /\ p[1] = x
      /\ \A i \in DOMAIN s : p[i + 1] = s[i]
      /\ \A i \in DOMAIN p : i = 1 \/ (i - 1 \in DOMAIN s /\ p[i] = s[i - 1])
  BY PushIndices
<1>2. DOMAIN s = 1..Len(s) /\ Len(s) \in Nat
  OBVIOUS
<1> HIDE DEF p
<1>3. p # << >>
  BY <1>1, <1>2
<1>4. Elements(p) = Elements(s) \cup {x}
  <2>1. ASSUME NEW i \in DOMAIN s PROVE s[i] \in Elements(p)
    <3>1. i + 1 \in DOMAIN p /\ p[i + 1] = s[i]
      BY <1>1, <1>2
    <3> QED
      BY <3>1 DEF Elements
  <2>2. x \in Elements(p)
    BY <1>1, <1>2 DEF Elements
  <2>3. Elements(p) \subseteq Elements(s) \cup {x}
    BY <1>1 DEF Elements
  <2> QED
    BY <2>1, <2>2, <2>3 DEF Elements
<1>5. ASSUME Distinct(s), x \notin Elements(s) PROVE Distinct(p)
  <2> SUFFICES ASSUME NEW i \in DOMAIN p, NEW j \in DOMAIN p, p[i] = p[j]
               PROVE  i = j
    BY DEF Distinct
  <2>1. CASE i = 1 /\ j = 1
    BY <2>1
  <2>2. CASE i = 1 /\ j # 1
    BY <2>2, <1>1, <1>5 DEF Elements
  <2>3. CASE i # 1 /\ j = 1
    BY <2>3, <1>1, <1>5 DEF Elements
  <2>4. CASE i # 1 /\ j # 1
    <3>1. i - 1 \in DOMAIN s /\ j - 1 \in DOMAIN s /\ s[i - 1] = s[j - 1]
      BY <2>4, <1>1
    <3>2. i - 1 = j - 1
      BY <3>1, <1>5 DEF Distinct
    <3> QED
      BY <3>2, <1>1, <1>2
  <2> QED
    BY <2>1, <2>2, <2>3, <2>4
<1> QED
  BY <1>1, <1>3, <1>4, <1>5 DEF p

\* A pop takes the top, which a stack without repetitions then does not hold.
LEMMA PopElements ==
  ASSUME NEW S, NEW s \in Seq(S), s # << >>
  PROVE  /\ Head(s) \in S
         /\ Tail(s) \in Seq(S)
         /\ Len(s) = Len(Tail(s)) + 1
         /\ Elements(s) = Elements(Tail(s)) \cup {Head(s)}
         /\ Distinct(s) => Distinct(Tail(s)) /\ Head(s) \notin Elements(Tail(s))
<1> DEFINE t == Tail(s)
<1>1. /\ Head(s) \in S /\ Head(s) = s[1] /\ 1 \in DOMAIN s
      /\ t \in Seq(S) /\ Len(s) = Len(t) + 1 /\ DOMAIN t = 1..(Len(s) - 1)
      /\ \A i \in DOMAIN t : i + 1 \in DOMAIN s /\ t[i] = s[i + 1]
      /\ \A i \in DOMAIN s : i = 1 \/ (i - 1 \in DOMAIN t /\ t[i - 1] = s[i])
  BY PopIndices
<1> HIDE DEF t
<1>2. Len(t) \in Nat
  BY <1>1
<1>3. Elements(s) = Elements(t) \cup {Head(s)}
  <2>1. Elements(s) \subseteq Elements(t) \cup {Head(s)}
    BY <1>1 DEF Elements
  <2>2. Elements(t) \subseteq Elements(s)
    BY <1>1 DEF Elements
  <2>3. Head(s) \in Elements(s)
    BY <1>1 DEF Elements
  <2> QED
    BY <2>1, <2>2, <2>3
<1>4. ASSUME Distinct(s) PROVE Distinct(t)
  <2> SUFFICES ASSUME NEW i \in DOMAIN t, NEW j \in DOMAIN t, t[i] = t[j]
               PROVE  i = j
    BY DEF Distinct
  <2>1. i + 1 = j + 1
    BY <1>1, <1>4 DEF Distinct
  <2> QED
    BY <2>1, <1>1, <1>2
<1>5. ASSUME Distinct(s) PROVE Head(s) \notin Elements(t)
  <2> SUFFICES ASSUME NEW i \in DOMAIN t, t[i] = s[1] PROVE FALSE
    BY <1>1 DEF Elements
  <2>1. i + 1 = 1
    BY <1>1, <1>5 DEF Distinct
  <2> QED
    BY <2>1, <1>1, <1>2
<1> QED
  BY <1>1, <1>3, <1>4, <1>5 DEF t

\* A concatenation holds what its parts hold.
LEMMA ConcatElements ==
  ASSUME NEW S, NEW s \in Seq(S), NEW t \in Seq(S)
  PROVE  /\ s \o t \in Seq(S)
         /\ Elements(s \o t) = Elements(s) \cup Elements(t)
         /\ Distinct(s) /\ Distinct(t) /\ Elements(s) \cap Elements(t) = {}
              => Distinct(s \o t)
<1> DEFINE u == s \o t
<1>1. /\ u \in Seq(S)
      /\ \A i \in DOMAIN s : i \in DOMAIN u /\ u[i] = s[i]
      /\ \A j \in DOMAIN t : Len(s) + j \in DOMAIN u /\ u[Len(s) + j] = t[j]
      /\ \A i \in DOMAIN u :
           i \in DOMAIN s \/ (i - Len(s) \in DOMAIN t /\ u[i] = t[i - Len(s)])
  BY ConcatIndices
<1>2. DOMAIN u = 1..Len(u) /\ Len(s) \in Nat
  BY <1>1
<1> HIDE DEF u
<1>3. Elements(u) = Elements(s) \cup Elements(t)
  <2>1. Elements(u) \subseteq Elements(s) \cup Elements(t)
    BY <1>1 DEF Elements
  <2>2. Elements(s) \subseteq Elements(u)
    BY <1>1 DEF Elements
  <2>3. Elements(t) \subseteq Elements(u)
    BY <1>1 DEF Elements
  <2> QED
    BY <2>1, <2>2, <2>3
<1>4. ASSUME Distinct(s), Distinct(t), Elements(s) \cap Elements(t) = {},
             NEW i \in DOMAIN u, NEW j \in DOMAIN u, u[i] = u[j]
      PROVE  i = j
  <2>1. CASE i \in DOMAIN s /\ j \in DOMAIN s
    BY <2>1, <1>1, <1>4 DEF Distinct
  <2>2. CASE i \in DOMAIN s /\ j \notin DOMAIN s
    <3>1. u[i] \in Elements(s) /\ u[j] \in Elements(t)
      BY <2>2, <1>1 DEF Elements
    <3> QED
      BY <3>1, <1>4
  <2>3. CASE i \notin DOMAIN s /\ j \in DOMAIN s
    <3>1. u[i] \in Elements(t) /\ u[j] \in Elements(s)
      BY <2>3, <1>1 DEF Elements
    <3> QED
      BY <3>1, <1>4
  <2>4. CASE i \notin DOMAIN s /\ j \notin DOMAIN s
    <3>1. i - Len(s) = j - Len(s)
      BY <2>4, <1>1, <1>4 DEF Distinct
    <3> QED
      BY <3>1, <1>2
  <2> QED
    BY <2>1, <2>2, <2>3, <2>4
<1> QED
  BY <1>1, <1>3, <1>4 DEF u, Distinct

-----------------------------------------------------------------------------
\* Induction, for a set: the successor maps what is in the set up to n into itself,
\* one to one and so, there being finitely many, onto, but zero has no predecessor.
LEMMA SetInduction ==
  ASSUME NEW A \in SUBSET Nat, 0 \in A, \A n \in A : n + 1 \in A
  PROVE  A = Nat
<1>1. SUFFICES ASSUME NEW n \in Nat, n \notin A
               PROVE  FALSE
  OBVIOUS
<1> DEFINE B == {m \in 0..n : m \in A}
           next == [m \in B |-> m + 1]
<1>2. IsFiniteSet(B)
  <2>1. IsFiniteSet(0..n)
    BY FS_Interval
  <2> QED
    BY <2>1, FS_Subset
<1>3. \A m \in B : m + 1 \in B
  BY <1>1
<1>4. next \in Injection(B, B)
  BY <1>3 DEF Injection, IsInjective
<1>5. next \in Surjection(B, B)
  BY <1>2, <1>4, FS_Injection
<1>6. \A m \in B : \E i \in B : next[i] = m
  BY <1>5 DEF Surjection
<1>7. 0 \in B
  OBVIOUS
<1> QED
  BY <1>6, <1>7
=============================================================================
