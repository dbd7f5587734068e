----------------------------- MODULE Induction ------------------------------
(***************************************************************************)
(* Induction stated with sets, so that no theorem has to be instantiated   *)
(* with a predicate: to prove a property of every number, define the set   *)
(* of the numbers that have it and show that it contains 0 and is closed   *)
(* under successor; for finite sets likewise.  From these follow what the  *)
(* proofs about kernels and programs count with: functions defined by      *)
(* recursion, the n-th member of a set, the threads of a warp that hold a  *)
(* member, multiples, and sequences that are put together of parts.        *)
(***************************************************************************)
EXTENDS Integers, Sequences, FiniteSetTheorems, TLAPS

LessPairs == {ss \in Nat \X Nat : ss[1] < ss[2]}

\* Every nonempty set of natural numbers has a least element.
LEMMA LeastNatural ==
  ASSUME NEW T, T \subseteq Nat, T # {}
  PROVE  \E x \in T : \A y \in T : x <= y
<1>1. IsWellFoundedOn(LessPairs, Nat)
  BY NatLessThanWellFounded DEF OpToRel, LessPairs
<1>2. PICK x \in T : \A y \in T : <<y, x>> \notin LessPairs
  BY <1>1, WFMin
<1>3. \A y \in T : ~(y < x)
  BY <1>2 DEF LessPairs
<1> QED BY <1>3

\* A nonempty set of natural numbers with a bound has a greatest element.
LEMMA GreatestNatural ==
  ASSUME NEW T, T \subseteq Nat, T # {}, NEW b \in Nat, \A x \in T : x <= b
  PROVE  \E x \in T : \A y \in T : x >= y
<1> DEFINE D == {b - x : x \in T}
<1>1. D \subseteq Nat /\ D # {}
  <2>1. \A x \in T : b - x \in Nat
    OBVIOUS
  <2> QED BY <2>1
<1>2. PICK d \in D : \A e \in D : d <= e
  <2> HIDE DEF D
  <2> QED BY <1>1, LeastNatural
<1>3. PICK x \in T : d = b - x
  OBVIOUS
<1>4. \A y \in T : b - x <= b - y
  BY <1>2, <1>3
<1> QED BY <1>4

\* A set with 0 that is closed under successor has every natural number.
LEMMA SetInduction ==
  ASSUME NEW G, 0 \in G, \A n \in Nat : n \in G => n + 1 \in G
  PROVE  \A n \in Nat : n \in G
<1> SUFFICES ASSUME Nat \ G # {} PROVE FALSE
  OBVIOUS
<1>1. PICK x \in Nat \ G : \A y \in Nat \ G : x <= y
  BY LeastNatural
<1>2. x # 0 /\ x - 1 \in Nat /\ x - 1 \in G
  BY <1>1
<1> QED BY <1>1, <1>2

\* The same from a to b.
LEMMA IntervalInduction ==
  ASSUME NEW a \in Int, NEW b \in Int, NEW G,
         a <= b => a \in G,
         \A i \in a .. b - 1 : i \in G => i + 1 \in G
  PROVE  \A i \in a .. b : i \in G
<1> DEFINE H == {n \in Nat : a + n <= b => a + n \in G}
<1>1. 0 \in H
  OBVIOUS
<1>2. \A n \in Nat : n \in H => n + 1 \in H
  <2> TAKE n \in Nat
  <2> SUFFICES ASSUME n \in H, a + (n + 1) <= b PROVE a + (n + 1) \in G
    OBVIOUS
  <2>1. a + n \in a .. b - 1 /\ a + n \in G /\ (a + n) + 1 = a + (n + 1)
    OBVIOUS
  <2> QED BY <2>1
<1>3. \A n \in Nat : n \in H
  <2> HIDE DEF H
  <2> QED BY <1>1, <1>2, SetInduction
<1> TAKE i \in a .. b
<1>4. i - a \in Nat /\ a + (i - a) = i
  OBVIOUS
<1> QED BY <1>3, <1>4

\* A set of sets that has the empty set, and with a subset of S also that
\* subset with one more element, has the finite set S.
LEMMA FiniteInduction ==
  ASSUME NEW S, IsFiniteSet(S), NEW G, {} \in G,
         \A T \in SUBSET S, x \in S : T \in G => T \cup {x} \in G
  PROVE  S \in G
<1> DEFINE H == {n \in Nat : \A T \in SUBSET S : Cardinality(T) = n => T \in G}
<1>1. 0 \in H
  BY FS_EmptySet, FS_Subset
<1>2. ASSUME NEW n \in Nat, n \in H
      PROVE  n + 1 \in H
  <2> SUFFICES ASSUME NEW T \in SUBSET S, Cardinality(T) = n + 1 PROVE T \in G
    OBVIOUS
  <2>1. IsFiniteSet(T) /\ T # {}
    BY FS_Subset, FS_EmptySet
  <2>2. PICK x : x \in T
    BY <2>1
  <2>3. Cardinality(T \ {x}) = n
    <3>1. Cardinality(T \ {x}) = Cardinality(T) - 1
      BY <2>1, <2>2, FS_RemoveElement
    <3> QED BY <3>1
  <2>4. T \ {x} \in G
    BY <2>3, <1>2
  <2>5. (T \ {x}) \cup {x} = T /\ T \ {x} \in SUBSET S /\ x \in S
    BY <2>2
  <2> QED BY <2>4, <2>5
<1>3. \A n \in Nat : n \in H
  <2> HIDE DEF H
  <2> QED BY <1>1, <1>2, SetInduction
<1> QED BY <1>3, FS_CardinalityType

\* f has the value base at 0, and at i what step makes of the value before.
Recursion(f, base, step, n) ==
  f[0] = base /\ \A i \in 1 .. n : f[i] = step[<<f[i - 1], i>>]

\* A recursion over 0 .. n with values in V defines a function.
LEMMA RecursiveFunction ==
  ASSUME NEW n \in Nat, NEW V, NEW base \in V, NEW step \in [V \X (1 .. n) -> V]
  PROVE  \E f \in [0 .. n -> V] : Recursion(f, base, step, n)
<1> DEFINE Is(f, m) == Recursion(f, base, step, m)
           H == {m \in Nat : m <= n => \E f \in [0 .. m -> V] : Is(f, m)}
<1>1. 0 \in H
  <2> DEFINE f == [i \in 0 .. 0 |-> base]
  <2>1. f \in [0 .. 0 -> V] /\ Is(f, 0)
    BY DEF Recursion
  <2> HIDE DEF f
  <2> QED BY <2>1
<1>2. ASSUME NEW m \in Nat, m \in H
      PROVE  m + 1 \in H
  <2> SUFFICES ASSUME m + 1 <= n PROVE \E f \in [0 .. m + 1 -> V] : Is(f, m + 1)
    OBVIOUS
  <2>1. PICK f \in [0 .. m -> V] : Is(f, m)
    BY <1>2
  <2> DEFINE g == [i \in 0 .. m + 1 |-> IF i <= m THEN f[i] ELSE step[<<f[m], m + 1>>]]
  <2>2. step[<<f[m], m + 1>>] \in V
    OBVIOUS
  <2>3. g \in [0 .. m + 1 -> V]
    BY <2>2
  <2>4. Is(g, m + 1)
    <3>1. g[0] = base
      BY <2>1 DEF Recursion
    <3>2. ASSUME NEW i \in 1 .. m + 1
          PROVE  g[i] = step[<<g[i - 1], i>>]
      <4>1. CASE i \in 1 .. m
        BY <4>1, <2>1 DEF Recursion
      <4>2. CASE i = m + 1
        BY <4>2
      <4> QED BY <4>1, <4>2
    <3> QED BY <3>1, <3>2 DEF Recursion
  <2> HIDE DEF g
  <2> QED BY <2>3, <2>4
<1>3. n \in H
  <2> HIDE DEF H
  <2> QED BY <1>1, <1>2, SetInduction
<1> QED BY <1>3

-----------------------------------------------------------------------------
(* Counting the members of a set of numbers in their order.                *)
\* The members of G below m, and which member of G comes after i others.
Below(G, m) == {s \in G : s < m}
CountIn(G, m) == Cardinality(Below(G, m))
NthIn(G, i) == CHOOSE s \in G : CountIn(G, s) = i

\* Counting goes up by one behind every member.
LEMMA CountLemma ==
  ASSUME NEW G, \A x \in G : x \in Nat, NEW m \in Nat
  PROVE  /\ IsFiniteSet(Below(G, m)) /\ CountIn(G, m) \in Nat
         /\ CountIn(G, 0) = 0
         /\ m \in G => CountIn(G, m + 1) = CountIn(G, m) + 1
         /\ m \notin G => CountIn(G, m + 1) = CountIn(G, m)
<1>1. IsFiniteSet(Below(G, m)) /\ CountIn(G, m) \in Nat
  <2>1. Below(G, m) \subseteq 0 .. m
    BY DEF Below
  <2>2. IsFiniteSet(0 .. m)
    BY FS_Interval
  <2> QED BY <2>1, <2>2, FS_Subset, FS_CardinalityType DEF CountIn
<1>2. CountIn(G, 0) = 0
  <2>1. Below(G, 0) = {}
    BY DEF Below
  <2> QED BY <2>1, FS_EmptySet DEF CountIn
<1>3. ASSUME m \in G PROVE CountIn(G, m + 1) = CountIn(G, m) + 1
  <2>1. \A s \in G : s < m + 1 <=> s < m \/ s = m
    OBVIOUS
  <2>3. \A s : s \in Below(G, m + 1) <=> s \in Below(G, m) \cup {m}
    BY <1>3, <2>1 DEF Below
  <2>2. Below(G, m + 1) = Below(G, m) \cup {m} /\ m \notin Below(G, m)
    <3>1. m \notin Below(G, m)
      BY DEF Below
    <3>2. Below(G, m + 1) = Below(G, m) \cup {m}
      BY ONLY <2>3
    <3> QED BY <3>1, <3>2
  <2> QED BY <1>1, <2>2, FS_AddElement DEF CountIn
<1>4. ASSUME m \notin G PROVE CountIn(G, m + 1) = CountIn(G, m)
  <2>1. Below(G, m + 1) = Below(G, m)
    BY <1>4 DEF Below
  <2> QED BY <2>1 DEF CountIn
<1> QED BY <1>1, <1>2, <1>3, <1>4

\* More numbers have no fewer members below them.
LEMMA CountGrows ==
  ASSUME NEW G, \A x \in G : x \in Nat, NEW a \in Nat, NEW b \in Nat, a <= b
  PROVE  CountIn(G, a) <= CountIn(G, b)
<1>1. Below(G, a) \subseteq Below(G, b)
  BY DEF Below
<1>2. IsFiniteSet(Below(G, b))
  BY CountLemma
<1> QED BY <1>1, <1>2, FS_Subset DEF CountIn

\* A member below b counts for b.
LEMMA CountStrict ==
  ASSUME NEW G, \A x \in G : x \in Nat, NEW a \in G, NEW b \in Nat, a < b
  PROVE  CountIn(G, a) + 1 <= CountIn(G, b)
<1>1. CountIn(G, a + 1) = CountIn(G, a) + 1
  BY CountLemma
<1>2. CountIn(G, a + 1) <= CountIn(G, b)
  BY CountGrows, a + 1 \in Nat, a + 1 <= b
<1> QED BY <1>1, <1>2

\* Every member is the one after as many others as are below it.
LEMMA NthLemma ==
  ASSUME NEW G, \A x \in G : x \in Nat, NEW s \in G
  PROVE  NthIn(G, CountIn(G, s)) = s
<1>1. \A r \in G : CountIn(G, r) = CountIn(G, s) => r = s
  <2> TAKE r \in G
  <2>1. CountIn(G, r) \in Nat /\ CountIn(G, s) \in Nat
    BY CountLemma
  <2>2. r < s => CountIn(G, r) + 1 <= CountIn(G, s)
    BY CountStrict
  <2>3. s < r => CountIn(G, s) + 1 <= CountIn(G, r)
    BY CountStrict
  <2> QED BY <2>1, <2>2, <2>3
<1> QED BY <1>1 DEF NthIn

\* Among the members below m there is one after any smaller number of others.
LEMMA NthExists ==
  ASSUME NEW G, \A x \in G : x \in Nat, NEW m \in Nat
  PROVE  \A i \in Nat : i < CountIn(G, m) => \E s \in G : s < m /\ CountIn(G, s) = i
<1> DEFINE H == {n \in Nat : \A i \in Nat : i < CountIn(G, n) =>
                               \E s \in G : s < n /\ CountIn(G, s) = i}
<1>1. 0 \in H
  BY CountLemma
<1>2. \A n \in Nat : n \in H => n + 1 \in H
  <2> TAKE n \in Nat
  <2> SUFFICES ASSUME n \in H, NEW i \in Nat, i < CountIn(G, n + 1)
               PROVE  \E s \in G : s < n + 1 /\ CountIn(G, s) = i
    OBVIOUS
  <2>1. CASE i < CountIn(G, n)
    <3>1. PICK s \in G : s < n /\ CountIn(G, s) = i
      BY <2>1
    <3> QED BY <3>1
  <2>2. CASE ~(i < CountIn(G, n))
    <3>1. CountIn(G, n) \in Nat /\ (n \notin G => CountIn(G, n + 1) = CountIn(G, n))
          /\ (n \in G => CountIn(G, n + 1) = CountIn(G, n) + 1)
      BY CountLemma
    <3>2. n \in G /\ CountIn(G, n) = i
      BY <3>1, <2>2
    <3> QED BY <3>2
  <2> QED BY <2>1, <2>2
<1>3. \A n \in Nat : n \in H
  <2> HIDE DEF H
  <2> QED BY <1>1, <1>2, SetInduction
<1> QED BY <1>3

\* The threads with a good sample, when the first of W takes sample base.
LanesIn(G, base, W) == {t \in 0 .. W - 1 : base + t \in G}
LanesBelow(G, base, W, t) == {u \in LanesIn(G, base, W) : u < t}

\* Those below t are as many as there are good samples from base on.
LEMMA LanesLemma ==
  ASSUME NEW G, \A x \in G : x \in Nat, NEW base \in Nat, NEW W \in Nat
  PROVE  \A t \in 0 .. W :
           /\ IsFiniteSet(LanesBelow(G, base, W, t))
           /\ Cardinality(LanesBelow(G, base, W, t)) = CountIn(G, base + t) - CountIn(G, base)
<1> DEFINE First(t) == LanesBelow(G, base, W, t)
           Good == LanesIn(G, base, W)
           H == {t \in 0 .. W : /\ IsFiniteSet(First(t))
                                /\ Cardinality(First(t)) = CountIn(G, base + t) - CountIn(G, base)}
<1>1. 0 \in H
  <2>1. First(0) = {}
    BY DEF LanesBelow, LanesIn
  <2>2. CountIn(G, base + 0) - CountIn(G, base) = 0
    <3>1. base + 0 = base /\ CountIn(G, base) \in Nat
      BY CountLemma
    <3> QED BY <3>1
  <2> QED BY <2>1, <2>2, FS_EmptySet
<1>2. \A t \in 0 .. W - 1 : t \in H => t + 1 \in H
  <2> TAKE t \in 0 .. W - 1
  <2> SUFFICES ASSUME t \in H PROVE t + 1 \in H
    OBVIOUS
  <2>0. base + t \in Nat /\ base + (t + 1) = (base + t) + 1
    OBVIOUS
  <2>1. CountIn(G, base + t) \in Nat /\ CountIn(G, base) \in Nat
    BY <2>0, CountLemma
  <2>2. CASE t \in Good
    <3>0. \A u \in Good : u < t + 1 <=> u < t \/ u = t
      BY DEF LanesIn
    <3>4. \A u : u \in First(t + 1) <=> u \in First(t) \cup {t}
      BY <2>2, <3>0 DEF LanesBelow
    <3>5. First(t + 1) = First(t) \cup {t}
      BY ONLY <3>4
    <3>6. t \notin First(t)
      BY DEF LanesBelow
    <3>1. First(t + 1) = First(t) \cup {t} /\ t \notin First(t)
      BY <3>5, <3>6
    <3>2. IsFiniteSet(First(t + 1)) /\ Cardinality(First(t + 1)) = Cardinality(First(t)) + 1
      BY <3>1, FS_AddElement
    <3>3. CountIn(G, base + (t + 1)) = CountIn(G, base + t) + 1
      BY <2>0, <2>2, CountLemma DEF LanesIn
    <3> QED BY <2>1, <3>2, <3>3
  <2>3. CASE t \notin Good
    <3>0. \A u \in Good : u < t + 1 <=> u < t
      BY <2>3 DEF LanesIn
    <3>1. First(t + 1) = First(t)
      BY <3>0 DEF LanesBelow
    <3>3. CountIn(G, base + (t + 1)) = CountIn(G, base + t)
      BY <2>0, <2>3, CountLemma DEF LanesIn
    <3> QED BY <2>1, <3>1, <3>3
  <2> QED BY <2>2, <2>3
<1>3. \A t \in 0 .. W : t \in H
  <2> HIDE DEF H
  <2> QED BY <1>1, <1>2, IntervalInduction
<1> QED BY <1>3

-----------------------------------------------------------------------------
(* Products and sequences.                                                 *)
\* Products of natural numbers are numbers, and grow with a factor.
LEMMA Multiples ==
  ASSUME NEW c \in Nat
  PROVE  /\ c * 0 = 0
         /\ \A i \in Nat : c * i \in Nat /\ c * (i + 1) = c * i + c
         /\ \A i, j \in Nat : i < j => c * i + c <= c * j
<1>1. c * 0 = 0 /\ \A i \in Nat : c * i \in Nat /\ c * (i + 1) = c * i + c
  OBVIOUS
<1>2. ASSUME NEW i \in Nat, NEW j \in Nat, i < j
      PROVE  c * i + c <= c * j
  <2> DEFINE d == j - i - 1
  <2>1. d \in Nat /\ j = (i + 1) + d
    BY <1>2
  <2> HIDE DEF d
  <2>2. c * j = c * (i + 1) + c * d /\ c * d \in Nat
    BY <2>1
  <2> QED BY <1>1, <2>2
<1> QED BY <1>1, <1>2

\* A place in n parts of length c is in one of them.
LEMMA PlaceLemma ==
  ASSUME NEW c \in Nat \ {0}, NEW n \in Nat
  PROVE  \A q \in 1 .. c * n : \E i \in 0 .. n - 1, j \in 1 .. c : q = c * i + j
<1> DEFINE at(i) == c * i
           H == {m \in Nat : \A q \in 1 .. at(m) : \E i \in 0 .. m - 1, j \in 1 .. c : q = at(i) + j}
<1>1. at(0) = 0 /\ \A i \in Nat : at(i) \in Nat /\ at(i + 1) = at(i) + c
  BY Multiples
<1> HIDE DEF at
<1>2. 0 \in H
  BY <1>1
<1>3. \A m \in Nat : m \in H => m + 1 \in H
  <2> SUFFICES ASSUME NEW m \in Nat, m \in H, NEW q \in 1 .. at(m + 1)
               PROVE  \E i \in 0 .. m, j \in 1 .. c : q = at(i) + j
    OBVIOUS
  <2>1. CASE q <= at(m)
    <3>1. q \in 1 .. at(m)
      BY <1>1, <2>1
    <3>2. PICK i \in 0 .. m - 1, j \in 1 .. c : q = at(i) + j
      BY <3>1
    <3>3. i \in 0 .. m
      OBVIOUS
    <3> QED BY <3>2, <3>3
  <2>2. CASE ~(q <= at(m))
    <3>1. q - at(m) \in 1 .. c /\ q = at(m) + (q - at(m)) /\ m \in 0 .. m
      BY <1>1, <2>2
    <3> QED BY <3>1
  <2> QED BY <2>1, <2>2
<1>4. \A m \in Nat : m \in H
  <2> HIDE DEF H
  <2> QED BY <1>2, <1>3, SetInduction
<1> QED BY <1>4 DEF at

\* The parts of two sequences keep their places when they are joined.
IsJoined(c, S, a, b, l, m) ==
  /\ c \in Seq(S) /\ Len(c) = l + m
  /\ \A j \in 1 .. l : c[j] = a[j]
  /\ \A j \in 1 .. m : c[l + j] = b[j]

LEMMA Joined ==
  ASSUME NEW S, NEW a \in Seq(S), NEW b \in Seq(S)
  PROVE  IsJoined(a \o b, S, a, b, Len(a), Len(b))
<1>1. /\ a \o b \in Seq(S) /\ Len(a \o b) = Len(a) + Len(b)
      /\ \A j \in 1 .. Len(a) : (a \o b)[j] = a[j]
      /\ \A j \in 1 .. Len(b) : (a \o b)[Len(a) + j] = b[j]
  OBVIOUS
<1> QED BY <1>1 DEF IsJoined
=============================================================================
