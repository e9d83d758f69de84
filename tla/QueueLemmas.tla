----------------------------- MODULE QueueLemmas -----------------------------
(***************************************************************************)
(* What the proofs about queues need of sequences and of numbers.           *)
(***************************************************************************)
EXTENDS SequenceTheorems, WellFoundedInduction, TLAPS

(* What the head, the tail and an added element of a sequence are. *)
QueueFacts(S, q) ==
    /\ Len(q) \in Nat
    /\ DOMAIN q = 1 .. Len(q)
    /\ \A i \in 1 .. Len(q) : q[i] \in S
    /\ q = <<>> <=> Len(q) = 0
    /\ q # <<>> => /\ Head(q) = q[1]
                   /\ Head(q) \in S
                   /\ Tail(q) \in Seq(S)
                   /\ Len(Tail(q)) = Len(q) - 1
                   /\ \A i \in 1 .. Len(Tail(q)) : Tail(q)[i] = q[i + 1]
    /\ \A e \in S : /\ Append(q, e) \in Seq(S)
                    /\ Append(q, e) # <<>>
                    /\ Len(Append(q, e)) = Len(q) + 1
                    /\ Append(q, e)[Len(q) + 1] = e
                    /\ \A i \in 1 .. Len(q) : Append(q, e)[i] = q[i]
                    /\ q # <<>> => Head(Append(q, e)) = Head(q)

LEMMA QueueLemma ==
    ASSUME NEW S, NEW q \in Seq(S)
    PROVE  QueueFacts(S, q)
<1>1. /\ Len(q) \in Nat
      /\ DOMAIN q = 1 .. Len(q)
      /\ \A i \in 1 .. Len(q) : q[i] \in S
  BY LenProperties, ElementOfSeq
<1>2. q = <<>> <=> Len(q) = 0
  BY EmptySeq, <1>1
<1>3. q # <<>> => /\ Head(q) = q[1]
                  /\ Head(q) \in S
                  /\ Tail(q) \in Seq(S)
                  /\ Len(Tail(q)) = Len(q) - 1
                  /\ \A i \in 1 .. Len(Tail(q)) : Tail(q)[i] = q[i + 1]
  BY HeadTailProperties
<1>4. ASSUME NEW e \in S
      PROVE  /\ Append(q, e) \in Seq(S)
             /\ Len(Append(q, e)) = Len(q) + 1
             /\ Append(q, e)[Len(q) + 1] = e
             /\ \A i \in 1 .. Len(q) : Append(q, e)[i] = q[i]
  BY AppendProperties
<1>5. ASSUME NEW e \in S
      PROVE  Append(q, e) # <<>> /\ (q # <<>> => Head(Append(q, e)) = Head(q))
  <2>1. Append(q, e) # <<>>
    BY <1>1, <1>4, EmptySeq
  <2>2. ASSUME q # <<>> PROVE Head(Append(q, e)) = Head(q)
    BY <1>1, <1>2, <1>3, <1>4, <2>1, <2>2, HeadTailProperties
  <2> QED BY <2>1, <2>2
<1> QED BY <1>1, <1>2, <1>3, <1>4, <1>5 DEF QueueFacts

(* A non-empty set of numbers has a smallest element. *)
LEMMA SmallestNumber ==
    ASSUME NEW T, T \subseteq Nat, T # {}
    PROVE  \E x \in T : \A y \in T : x <= y
<1> DEFINE R == {ss \in Nat \X Nat : ss[1] < ss[2]}
<1>1. IsWellFoundedOn(R, Nat)
  BY NatLessThanWellFounded, Zenon DEF OpToRel
<1>2. PICK x \in T : \A y \in T : <<y, x>> \notin R
  <2> HIDE DEF R
  <2> QED BY <1>1, WFMin
<1>3. \A y \in T : ~ (y < x)
  BY <1>2
<1> QED BY <1>3

(* A non-empty set of bounded numbers has a largest element. *)
LEMMA LargestNumber ==
    ASSUME NEW n \in Nat, NEW T, T \subseteq 1 .. n, T # {}
    PROVE  \E x \in T : \A y \in T : x >= y
<1> DEFINE N == {k \in Nat : \E x \in T : k = n - x}
<1>1. N \subseteq Nat /\ N # {}
  <2>1. PICK x \in T : TRUE
    OBVIOUS
  <2>2. n - x \in Nat
    OBVIOUS
  <2> QED BY <2>1, <2>2
<1>2. PICK k \in N : \A j \in N : k <= j
  <2> HIDE DEF N
  <2> QED BY <1>1, SmallestNumber
<1>3. PICK x \in T : k = n - x
  BY <1>2
<1>4. ASSUME NEW y \in T PROVE x >= y
  <2>1. n - y \in Nat
    OBVIOUS
  <2>2. n - y \in N
    BY <2>1
  <2>3. n - x <= n - y
    BY <1>2, <1>3, <2>2
  <2> QED BY <2>3
<1> QED BY <1>4

(* A sequence whose elements are all in T is a sequence of T. *)
LEMMA SeqPart ==
    ASSUME NEW S, NEW T, NEW q \in Seq(S), \A i \in DOMAIN q : q[i] \in T
    PROVE  q \in Seq(T)
BY SeqDef, LenProperties

(* What holds of the first value of a run and of a value after one that it  *)
(* holds of, holds of every value. *)
LEMMA RunStays ==
    ASSUME NEW n \in Nat, NEW f, NEW S, f[0] \in S,
           \A k \in 1 .. n : f[k - 1] \in S => f[k] \in S
    PROVE  \A k \in 0 .. n : f[k] \in S
<1> DEFINE T == {k \in 0 .. n : f[k] \notin S}
<1>1. SUFFICES ASSUME T # {} PROVE FALSE
  OBVIOUS
<1>2. T \subseteq Nat
  OBVIOUS
<1>3. PICK m \in T : \A k \in T : m <= k
  <2> HIDE DEF T
  <2> QED BY <1>1, <1>2, SmallestNumber
<1>4. m \in 0 .. n /\ f[m] \notin S /\ m # 0
  BY <1>3
<1>5. m - 1 \in 0 .. n /\ m \in 1 .. n /\ ~ (m <= m - 1)
  BY <1>4
<1>6. f[m - 1] \in S
  BY <1>3, <1>5
<1> QED BY <1>4, <1>5, <1>6

(* What holds of 0 and of a number after one that it holds of, holds of all. *)
LEMMA UpTo ==
    ASSUME NEW n \in Nat, NEW T, 0 \in T, \A k \in 1 .. n : k - 1 \in T => k \in T
    PROVE  \A k \in 0 .. n : k \in T
<1> DEFINE f == [k \in 0 .. n |-> k]
<1>1. f[0] \in T /\ \A k \in 1 .. n : f[k - 1] \in T => f[k] \in T
  OBVIOUS
<1>2. \A k \in 0 .. n : f[k] \in T
  <2> HIDE DEF f
  <2> QED BY <1>1, RunStays
<1> QED BY <1>2

(* f is the run of n functions of S from the value b: a fold, as a function. *)
RunOf(f, n, S, b, G) ==
    f \in [0 .. n -> S] /\ f[0] = b /\ \A k \in 1 .. n : f[k] = G[k][f[k - 1]]

(* There is one. *)
LEMMA RunExists ==
    \A n \in Nat : \A S : \A b \in S, G \in [1 .. n -> [S -> S]] : \E f : RunOf(f, n, S, b, G)
<1> SUFFICES ASSUME NEW n \in Nat, NEW S, NEW b \in S, NEW G \in [1 .. n -> [S -> S]]
             PROVE  \E f : RunOf(f, n, S, b, G)
  OBVIOUS
<1> DEFINE Is(f, m) == f \in [0 .. m -> S] /\ f[0] = b /\ \A k \in 1 .. m : f[k] = G[k][f[k - 1]]
           T == {m \in 0 .. n : ~ \E f : Is(f, m)}
<1>1. SUFFICES ASSUME T # {} PROVE FALSE
  <2>1. n \in 0 .. n
    OBVIOUS
  <2>2. T = {} => \E f : Is(f, n)
    BY <2>1
  <2> QED BY <2>2 DEF RunOf
<1>2. T \subseteq Nat
  OBVIOUS
<1>3. PICK m \in T : \A k \in T : m <= k
  <2> HIDE DEF T
  <2> QED BY <1>1, <1>2, SmallestNumber
<1>4. m # 0
  <2>1. Is([k \in 0 .. 0 |-> b], 0)
    OBVIOUS
  <2> QED BY <1>3, <2>1
<1>5. m - 1 \in 0 .. n /\ m \in 1 .. n /\ ~ (m <= m - 1)
  BY <1>3, <1>4
<1>6. PICK g : Is(g, m - 1)
  BY <1>3, <1>5
<1> DEFINE h == [k \in 0 .. m |-> IF k = m THEN G[m][g[m - 1]] ELSE g[k]]
<1>7. g[m - 1] \in S /\ G[m][g[m - 1]] \in S
  BY <1>5, <1>6
<1>8. h \in [0 .. m -> S] /\ h[0] = b
  BY <1>4, <1>5, <1>6, <1>7
<1>9. ASSUME NEW k \in 1 .. m PROVE h[k] = G[k][h[k - 1]]
  <2>1. k - 1 \in 0 .. m - 1 /\ h[k - 1] = g[k - 1]
    BY <1>5
  <2>2. CASE k = m
    BY <2>1, <2>2
  <2>3. CASE k # m
    <3>1. k \in 1 .. m - 1 /\ h[k] = g[k]
      BY <1>5, <2>3
    <3> QED BY <1>6, <2>1, <3>1
  <2> QED BY <2>2, <2>3
<1>10. Is(h, m)
  BY <1>8, <1>9
<1> QED BY <1>3, <1>10
=============================================================================
