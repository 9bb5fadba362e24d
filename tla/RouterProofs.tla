---------------------------- MODULE RouterProofs ----------------------------
(***************************************************************************)
(* A router for every routing table, every number of packets and every     *)
(* value of its limits.  The ARP tables agree, the tables and queues keep  *)
(* their types, packets from one interface to one next hop never overtake  *)
(* each other, each packet has one fate, and the router implements the     *)
(* lines of LossyLines.                                                    *)
(*                                                                         *)
(* None of these is inductive.  TypesRight adds to the ARP tables what may *)
(* stand at each place: which packets, with which ip_ttl, for which        *)
(* interface.  StreamsRight looks at streams through all their stages.     *)
(* The packets from one interface to one next hop are one, through the     *)
(* input queue, the switch queue, the ARP queue, the output queue and the  *)
(* wire: their numbers rise.  The reports sent back through an interface   *)
(* are another, of the last two stages: a route is taken out of use and    *)
(* back, so any packet may be reported, but none is twice.  A packet that  *)
(* came and may live is in one of its stream, the reports and the packets  *)
(* given up.  Every step leaves a stream as it is, lets one packet in at   *)
(* the end, moves some on, or loses some of it.                            *)
(***************************************************************************)
EXTENDS Router, TLAPS, FiniteSetTheorems, SequenceTheorems

-----------------------------------------------------------------------------
(* Places of a list in their order, and what At takes out of it.           *)

Upto(places, i) == {j \in places : j <= i}
Rises(f, n) == \A j, k \in 1..n : j < k => f[j] < f[k]
Onto(f, n, S) == \A i \in S : \E k \in 1..n : f[k] = i
\* Places of a list of n elements, and a list of them all in their order.
Within(places, n) == n \in Nat /\ places \in SUBSET (1..n)
Lists(f, m, places) == m \in Nat /\ f \in [1..m -> places] /\ Rises(f, m) /\ Onto(f, m, places)

\* The places up to one of them are fewer than those up to a later one.
LEMMA Ranks ==
  ASSUME NEW n \in Nat, NEW places \in SUBSET (1..n)
  PROVE  /\ IsFiniteSet(places) /\ Cardinality(places) \in Nat
         /\ \A i \in places : Cardinality(Upto(places, i)) \in 1..Cardinality(places)
         /\ \A i, j \in places :
              i < j => Cardinality(Upto(places, i)) < Cardinality(Upto(places, j))
<1>0. \A i \in places : i \in Int
  OBVIOUS
<1>1. IsFiniteSet(1..n)
  BY FS_Interval
<1>2. IsFiniteSet(places) /\ Cardinality(places) \in Nat
  BY <1>1, FS_Subset, FS_CardinalityType
<1>3. ASSUME NEW i \in places
      PROVE  /\ IsFiniteSet(Upto(places, i))
             /\ Cardinality(Upto(places, i)) \in 1..Cardinality(places)
  <2>1. Upto(places, i) \in SUBSET places /\ i \in Upto(places, i)
    BY DEF Upto
  <2>2. /\ IsFiniteSet(Upto(places, i))
        /\ Cardinality(Upto(places, i)) <= Cardinality(places)
        /\ Cardinality(Upto(places, i)) \in Nat
    BY <1>2, <2>1, FS_Subset, FS_CardinalityType
  <2>3. Cardinality(Upto(places, i)) # 0
    BY <2>1, <2>2, FS_EmptySet
  <2>. QED  BY <1>2, <2>2, <2>3
<1>4. ASSUME NEW i \in places, NEW j \in places, i < j
      PROVE  Cardinality(Upto(places, i)) < Cardinality(Upto(places, j))
  <2>0. i \in Int /\ j \in Int
    BY <1>0
  <2>1. /\ \A x \in places : x <= i => x <= j
        /\ j <= j /\ ~(j <= i)
    BY <1>0, <1>4, <2>0
  <2>2. /\ Upto(places, i) \in SUBSET Upto(places, j)
        /\ j \in Upto(places, j) /\ j \notin Upto(places, i)
    BY <2>1 DEF Upto
  <2>3. /\ Cardinality(Upto(places, i)) <= Cardinality(Upto(places, j))
        /\ Cardinality(Upto(places, j)) # Cardinality(Upto(places, i))
    BY <1>3, <2>2, FS_Subset
  <2>4. Cardinality(Upto(places, i)) \in Nat /\ Cardinality(Upto(places, j)) \in Nat
    BY <1>2, <1>3
  <2>. QED  BY <2>3, <2>4
<1>. QED  BY <1>2, <1>3, <1>4

\* Every number up to that of the places is the rank of one: ranks are told apart, so as
\* many are met as there are places.
LEMMA RankOfOne ==
  ASSUME NEW n \in Nat, NEW places \in SUBSET (1..n), NEW k \in 1..Cardinality(places)
  PROVE  \E i \in places : Cardinality(Upto(places, i)) = k
<1> DEFINE rank == [i \in places |-> Cardinality(Upto(places, i))]
           N == Cardinality(places)
<1>1. /\ IsFiniteSet(places) /\ N \in Nat
      /\ rank \in [places -> 1..N]
      /\ \A i, j \in places : i < j => rank[i] < rank[j]
  BY Ranks
<1>2. IsFiniteSet(1..N) /\ Cardinality(1..N) = N
  BY <1>1, FS_Interval
<1>3. \A i, j \in places : rank[i] = rank[j] => i = j
  <2>1. \A i, j \in places : i < j \/ j < i \/ i = j
    OBVIOUS
  <2>2. \A i \in places : rank[i] \in Nat
    BY <1>1
  <2>. QED  BY <1>1, <2>1, <2>2
<1>4. rank \in Injection(places, 1..N)
  BY <1>1, <1>3 DEF Injection, IsInjective
<1>5. rank \in Surjection(places, 1..N)
  BY <1>1, <1>2, <1>4, FS_Injection
<1>6. PICK i \in places : rank[i] = k
  BY <1>5 DEF Surjection
<1>. QED  BY <1>6

\* The places in their order: Nth meets each, and rises.
LEMMA NthPlace ==
  ASSUME NEW n, NEW places, Within(places, n)
  PROVE  /\ Cardinality(places) \in Nat
         /\ \A k \in 1..Cardinality(places) : Nth(places, k) \in places
         /\ \A j, k \in 1..Cardinality(places) : j < k => Nth(places, j) < Nth(places, k)
         /\ \A i \in places : \E k \in 1..Cardinality(places) : Nth(places, k) = i
<1>0. /\ n \in Nat /\ places \in SUBSET (1..n)
      /\ \A i \in places : i \in Int
  BY DEF Within
<1>1. ASSUME NEW k \in 1..Cardinality(places)
      PROVE  Nth(places, k) \in places /\ Cardinality(Upto(places, Nth(places, k))) = k
  <2>1. \E i \in places : Cardinality(Upto(places, i)) = k
    BY <1>0, RankOfOne
  <2>2. Nth(places, k) = CHOOSE i \in places : Cardinality(Upto(places, i)) = k
    BY DEF Nth, Upto
  <2>. QED  BY <2>1, <2>2
<1>2. /\ Cardinality(places) \in Nat
      /\ \A i \in places : Cardinality(Upto(places, i)) \in 1..Cardinality(places)
      /\ \A i, j \in places :
           i < j => Cardinality(Upto(places, i)) < Cardinality(Upto(places, j))
  BY <1>0, Ranks
<1>3. \A i, j \in places : i < j \/ j < i \/ i = j
  BY <1>0
<1>4. \A i \in places : Nth(places, Cardinality(Upto(places, i))) = i
  <2>1. TAKE i \in places
  <2> DEFINE k == Cardinality(Upto(places, i))
             j == Nth(places, k)
  <2>2. k \in 1..Cardinality(places) /\ j \in places /\ Cardinality(Upto(places, j)) = k
    BY <1>1, <1>2
  <2>3. k \in Nat /\ ~(k < k)
    BY <1>2, <2>2
  <2>4. ~(i < j) /\ ~(j < i)
    BY <1>2, <2>2, <2>3
  <2>. QED  BY <1>3, <2>2, <2>4
<1>5. ASSUME NEW j \in 1..Cardinality(places), NEW k \in 1..Cardinality(places), j < k
      PROVE  Nth(places, j) < Nth(places, k)
  <2>1. Nth(places, j) # Nth(places, k)
    BY <1>1, <1>5
  <2>2. ASSUME Nth(places, k) < Nth(places, j)
        PROVE  FALSE
    <3>1. k < j
      BY <1>1, <1>2, <2>2
    <3>. QED  BY <1>2, <1>5, <3>1
  <2>. QED  BY <1>1, <1>3, <2>1, <2>2
<1>. QED  BY <1>1, <1>2, <1>4, <1>5

\* Whatever lists the places in their order is what Nth gives.
LEMMA NthUnique ==
  ASSUME NEW n, NEW places, Within(places, n), NEW m, NEW f, Lists(f, m, places)
  PROVE  m = Cardinality(places) /\ \A k \in 1..m : Nth(places, k) = f[k]
<1>0. /\ n \in Nat /\ places \in SUBSET (1..n) /\ \A i \in places : i \in Int
      /\ m \in Nat /\ f \in [1..m -> places] /\ Rises(f, m) /\ Onto(f, m, places)
  BY DEF Within, Lists
<1>1. \A j, k \in 1..m : f[j] = f[k] => j = k
  <2>1. \A j, k \in 1..m : j < k \/ k < j \/ j = k
    BY <1>0
  <2>2. \A j \in 1..m : f[j] \in Int
    BY <1>0
  <2>. QED  BY <1>0, <2>1, <2>2 DEF Rises
<1>2. ASSUME NEW k \in 1..m
      PROVE  Cardinality(Upto(places, f[k])) = k
  <2> DEFINE g == [j \in 1..k |-> f[j]]
  <2>a. k \in 1..m /\ k \in Nat /\ m \in Nat
    BY <1>0
  <2>0. k \in 1..m /\ k \in Nat /\ f[k] \in places /\ f[k] \in Int
    BY <1>0, <2>a
  <2>1. ASSUME NEW j \in 1..k
        PROVE  f[j] \in Upto(places, f[k])
    <3>1. j \in 1..m
      BY <1>0, <2>0
    <3>2. f[j] \in places /\ f[j] \in Int
      BY <1>0, <3>1
    <3>3. j = k \/ j < k
      BY <2>0
    <3>4. f[j] <= f[k]
      BY <1>0, <2>0, <3>1, <3>2, <3>3 DEF Rises
    <3>. QED  BY <3>2, <3>4 DEF Upto
  <2>2. g \in Injection(1..k, Upto(places, f[k]))
    BY <1>0, <1>1, <2>1 DEF Injection, IsInjective
  <2>3. ASSUME NEW i \in Upto(places, f[k])
        PROVE  \E j \in 1..k : g[j] = i
    <3>1. PICK j \in 1..m : f[j] = i
      BY <1>0 DEF Onto, Upto
    <3>2. f[k] \in Int /\ f[j] \in Int /\ f[j] <= f[k]
      BY <1>0, <3>1 DEF Upto
    <3>3. ~(k < j)
      BY <1>0, <3>1, <3>2 DEF Rises
    <3>. QED  BY <1>0, <3>1, <3>3
  <2>4. g \in Surjection(1..k, Upto(places, f[k]))
    BY <2>1, <2>3 DEF Surjection
  <2>5. IsFiniteSet(1..k) /\ Cardinality(1..k) = k
    BY FS_Interval
  <2>. QED  BY <2>2, <2>4, <2>5, FS_Surjection
<1>3. m = Cardinality(places)
  <2>1. f \in Injection(1..m, places)
    BY <1>0, <1>1 DEF Injection, IsInjective
  <2>2. f \in Surjection(1..m, places)
    BY <1>0 DEF Surjection, Onto
  <2>3. IsFiniteSet(1..m) /\ Cardinality(1..m) = m
    BY <1>0, FS_Interval
  <2>. QED  BY <2>1, <2>2, <2>3, FS_Surjection
<1>4. ASSUME NEW k \in 1..m, NEW i \in places, Cardinality(Upto(places, i)) = k
      PROVE  i = f[k]
  <2>1. PICK j \in 1..m : f[j] = i
    BY <1>0 DEF Onto
  <2>. QED  BY <1>2, <1>4, <2>1
<1>5. ASSUME NEW k \in 1..m
      PROVE  Nth(places, k) = f[k]
  <2>1. f[k] \in places /\ Cardinality({j \in places : j <= f[k]}) = k
    BY <1>0, <1>2 DEF Upto
  <2>2. \A i \in places : Cardinality({j \in places : j <= i}) = k => i = f[k]
    BY <1>4 DEF Upto
  <2>. QED  BY <2>1, <2>2 DEF Nth
<1>. QED  BY <1>3, <1>5

\* A function on 1..n is a list of n elements.
LEMMA ListOf ==
  ASSUME NEW n \in Nat, NEW S, NEW f \in [1..n -> S]
  PROVE  f \in Seq(S) /\ Len(f) = n
OBVIOUS

AllIn(s, places, S) == \A i \in places : s[i] \in S

\* How long what At takes out is, and of what.
LEMMA AtType ==
  ASSUME NEW n, NEW places, Within(places, n), NEW S, NEW s, AllIn(s, places, S)
  PROVE  /\ At(s, places) \in Seq(S)
         /\ Len(At(s, places)) = Cardinality(places)
         /\ \A k \in 1..Cardinality(places) : At(s, places)[k] = s[Nth(places, k)]
<1>1. /\ Cardinality(places) \in Nat
      /\ \A k \in 1..Cardinality(places) : Nth(places, k) \in places
  BY NthPlace
<1> DEFINE N == Cardinality(places)
           f == [k \in 1..N |-> s[Nth(places, k)]]
<1>2. f \in [1..N -> S]
  BY <1>1 DEF AllIn
<1>3. At(s, places) = f
  BY DEF At
<1>4. f \in Seq(S) /\ Len(f) = N
  <2> HIDE DEF f, N
  <2> QED  BY <1>1, <1>2, ListOf DEF N
<1>. QED  BY <1>3, <1>4

\* At by way of any list of the places.
LEMMA AtIs ==
  ASSUME NEW n, NEW places, Within(places, n), NEW m, NEW f, Lists(f, m, places), NEW s
  PROVE  Cardinality(places) = m /\ \A k \in 1..m : At(s, places)[k] = s[f[k]]
<1>1. m = Cardinality(places) /\ \A k \in 1..m : Nth(places, k) = f[k]
  BY NthUnique
<1>. QED  BY <1>1 DEF At

\* Nothing is taken from no place, and all from all places.
LEMMA AtNone == \A s : At(s, {}) = <<>>
BY FS_EmptySet DEF At

LEMMA AtAll ==
  ASSUME NEW S, NEW s \in Seq(S)
  PROVE  At(s, 1..Len(s)) = s
<1> PICK n : n = Len(s)
  OBVIOUS
<1> DEFINE f == [k \in 1..n |-> k]
<1>1. Within(1..n, n) /\ n \in Nat
  BY DEF Within
<1>2. Lists(f, n, 1..n) /\ \A k \in 1..n : f[k] = k
  BY <1>1 DEF Lists, Rises, Onto
<1>3. Cardinality(1..n) = n /\ \A k \in 1..n : At(s, 1..n)[k] = s[f[k]]
  <2> HIDE DEF f
  <2> QED  BY <1>1, <1>2, AtIs
<1>4. AllIn(s, 1..n, S)
  BY DEF AllIn
<1>5. At(s, 1..n) \in Seq(S) /\ Len(At(s, 1..n)) = n
  BY <1>1, <1>3, <1>4, AtType
<1>6. \A k \in 1..n : At(s, 1..n)[k] = s[k]
  BY <1>2, <1>3
<1>. QED  BY <1>5, <1>6, SeqEqual

\* The places of two lists put one behind the other.
Shifted(P, n, Q) == P \cup {n + i : i \in Q}
Shows(u, s, P) == \A i \in P : u[i] = s[i]
ShowsFrom(u, n, t, Q) == \A i \in Q : u[n + i] = t[i]

\* What is taken from two lists put one behind the other.
LEMMA AtJoin ==
  ASSUME NEW n, NEW P, Within(P, n), NEW m, NEW Q, Within(Q, m), NEW S,
         NEW s, AllIn(s, P, S), NEW t, AllIn(t, Q, S),
         NEW u, Shows(u, s, P), ShowsFrom(u, n, t, Q), NEW R, R = Shifted(P, n, Q)
  PROVE  At(u, R) = At(s, P) \o At(t, Q)
<1> PICK p : p = Cardinality(P)
  OBVIOUS
<1> PICK q : q = Cardinality(Q)
  OBVIOUS
<1> DEFINE f == [k \in 1..(p + q) |-> IF k <= p THEN Nth(P, k) ELSE n + Nth(Q, k - p)]
<1>0. n \in Nat /\ m \in Nat /\ (\A i \in P : i \in 1..n) /\ (\A i \in Q : i \in 1..m)
  BY DEF Within
<1>1. Within(R, n + m)
  <2>1. \A i \in P : i \in 1..(n + m)
    BY <1>0
  <2>2. \A i \in Q : n + i \in 1..(n + m)
    BY <1>0
  <2>3. \A x \in R : x \in 1..(n + m)
    BY <2>1, <2>2 DEF Shifted
  <2>. QED  BY <1>0, <2>3 DEF Within
<1>2. /\ p \in Nat /\ q \in Nat /\ p + q \in Nat
      /\ \A k \in 1..p : Nth(P, k) \in P
      /\ \A j, k \in 1..p : j < k => Nth(P, j) < Nth(P, k)
      /\ \A i \in P : \E k \in 1..p : Nth(P, k) = i
      /\ \A k \in 1..q : Nth(Q, k) \in Q
      /\ \A j, k \in 1..q : j < k => Nth(Q, j) < Nth(Q, k)
      /\ \A i \in Q : \E k \in 1..q : Nth(Q, k) = i
  <2>1. /\ p \in Nat
        /\ \A k \in 1..p : Nth(P, k) \in P
        /\ \A j, k \in 1..p : j < k => Nth(P, j) < Nth(P, k)
        /\ \A i \in P : \E k \in 1..p : Nth(P, k) = i
    BY NthPlace
  <2>2. /\ q \in Nat
        /\ \A k \in 1..q : Nth(Q, k) \in Q
        /\ \A j, k \in 1..q : j < k => Nth(Q, j) < Nth(Q, k)
        /\ \A i \in Q : \E k \in 1..q : Nth(Q, k) = i
    BY NthPlace
  <2>. QED  BY <2>1, <2>2
<1>3. /\ At(s, P) \in Seq(S) /\ Len(At(s, P)) = p
      /\ \A k \in 1..p : At(s, P)[k] = s[Nth(P, k)]
      /\ At(t, Q) \in Seq(S) /\ Len(At(t, Q)) = q
      /\ \A k \in 1..q : At(t, Q)[k] = t[Nth(Q, k)]
  <2>2. /\ At(s, P) \in Seq(S) /\ Len(At(s, P)) = p
        /\ \A k \in 1..p : At(s, P)[k] = s[Nth(P, k)]
    BY AtType
  <2>3. /\ At(t, Q) \in Seq(S) /\ Len(At(t, Q)) = q
        /\ \A k \in 1..q : At(t, Q)[k] = t[Nth(Q, k)]
    BY AtType
  <2>. QED  BY <2>2, <2>3
<1>4. \A k \in 1..(p + q) :
        /\ k <= p => k \in 1..p /\ f[k] = Nth(P, k) /\ f[k] \in P
        /\ ~(k <= p) => k - p \in 1..q /\ f[k] = n + Nth(Q, k - p) /\ Nth(Q, k - p) \in Q
  BY <1>2
<1>5. f \in [1..(p + q) -> R]
  <2>1. \A k \in 1..(p + q) : f[k] \in R
    BY <1>4 DEF Shifted
  <2>. QED  BY <2>1
<1>6. ASSUME NEW j \in 1..(p + q), NEW k \in 1..(p + q), j < k
      PROVE  f[j] < f[k]
  <2>1. CASE k <= p
    <3>1. j <= p
      BY <1>2, <1>6, <2>1
    <3>. QED  BY <1>2, <1>4, <1>6, <2>1, <3>1
  <2>2. CASE ~(k <= p) /\ j <= p
    <3>1. f[j] \in 1..n
      BY <1>0, <1>4, <2>2
    <3>2. Nth(Q, k - p) \in 1..m /\ f[k] = n + Nth(Q, k - p)
      BY <1>0, <1>4, <2>2
    <3>. QED  BY <1>0, <3>1, <3>2
  <2>3. CASE ~(k <= p) /\ ~(j <= p)
    <3>1. /\ j - p \in 1..q /\ k - p \in 1..q /\ j - p < k - p
          /\ f[j] = n + Nth(Q, j - p) /\ f[k] = n + Nth(Q, k - p)
      BY <1>2, <1>4, <1>6, <2>3
    <3>2. Nth(Q, j - p) \in 1..m /\ Nth(Q, k - p) \in 1..m /\ Nth(Q, j - p) < Nth(Q, k - p)
      BY <1>2, <1>0, <3>1
    <3>. QED  BY <1>0, <3>1, <3>2
  <2>. QED  BY <2>1, <2>2, <2>3
<1>7. Onto(f, p + q, R)
  <2>1. ASSUME NEW i \in P
        PROVE  \E k \in 1..(p + q) : f[k] = i
    <3>1. PICK k \in 1..p : Nth(P, k) = i
      BY <1>2
    <3>2. k \in 1..(p + q) /\ k <= p
      BY <1>2
    <3>. QED  BY <1>4, <3>1, <3>2
  <2>2. ASSUME NEW i \in Q
        PROVE  \E k \in 1..(p + q) : f[k] = n + i
    <3>1. PICK k \in 1..q : Nth(Q, k) = i
      BY <1>2
    <3>2. p + k \in 1..(p + q) /\ ~(p + k <= p) /\ (p + k) - p = k
      BY <1>2
    <3>. QED  BY <1>4, <3>1, <3>2
  <2> HIDE DEF f
  <2>. QED  BY <2>1, <2>2 DEF Onto, Shifted
<1>8. Rises(f, p + q)
  <2> HIDE DEF f
  <2> QED  BY <1>6 DEF Rises
<1> HIDE DEF f
<1>9. Cardinality(R) = p + q /\ \A k \in 1..(p + q) : At(u, R)[k] = u[f[k]]
  <2>1. Lists(f, p + q, R)
    BY <1>2, <1>5, <1>7, <1>8 DEF Lists
  <2>. QED  BY <1>1, <2>1, AtIs
<1>10. ASSUME NEW k \in 1..(p + q)
       PROVE  At(u, R)[k] = (At(s, P) \o At(t, Q))[k]
  <2>0. (At(s, P) \o At(t, Q))[k] = IF k <= p THEN At(s, P)[k] ELSE At(t, Q)[k - p]
    BY <1>2, <1>3, ConcatProperties
  <2>1. CASE k <= p
    <3>1. k \in 1..p /\ f[k] = Nth(P, k) /\ f[k] \in P
      BY <1>4, <2>1
    <3>. QED  BY <1>3, <1>9, <2>0, <2>1, <3>1 DEF Shows
  <2>2. CASE ~(k <= p)
    <3>1. k - p \in 1..q /\ f[k] = n + Nth(Q, k - p) /\ Nth(Q, k - p) \in Q
      BY <1>4, <2>2
    <3>. QED  BY <1>3, <1>9, <2>0, <2>2, <3>1 DEF ShowsFrom
  <2>. QED  BY <2>1, <2>2
<1>11. At(s, P) \o At(t, Q) \in Seq(S) /\ Len(At(s, P) \o At(t, Q)) = p + q
  BY <1>3, ConcatProperties
<1>12. AllIn(u, R, S)
  BY DEF AllIn, Shows, ShowsFrom, Shifted
<1>13. At(u, R) \in Seq(S) /\ Len(At(u, R)) = p + q
  BY <1>1, <1>9, <1>12, AtType
<1>. QED  BY <1>10, <1>11, <1>13, SeqEqual

-----------------------------------------------------------------------------
(* The numbers of the packets of a stream in a queue.                      *)

Number(packet) == IF packet.type = "icmp" THEN packet.about ELSE packet.id
MineIn(queue, T) == {k \in DOMAIN queue : queue[k] \in T}
NumbersOf(queue, T) == [k \in MineIn(queue, T) |-> Number(queue[k])]
Take(queue, T) == At(NumbersOf(queue, T), MineIn(queue, T))
Numbered(T) == \A p \in T : Number(p) \in Nat

\* The places of the packets of a stream, and their numbers.
LEMMA MineWithin ==
  ASSUME NEW S, NEW queue \in Seq(S), NEW T, Numbered(T)
  PROVE  Within(MineIn(queue, T), Len(queue)) /\ AllIn(NumbersOf(queue, T), MineIn(queue, T), Nat)
<1>1. Len(queue) \in Nat /\ DOMAIN queue = 1..Len(queue)
  OBVIOUS
<1>2. MineIn(queue, T) \in SUBSET (1..Len(queue))
  BY <1>1 DEF MineIn
<1>. QED  BY <1>1, <1>2 DEF Within, AllIn, MineIn, NumbersOf, Numbered

\* Take gives numbers, and what it takes of two queues joined is joined.
LEMMA TakeType ==
  ASSUME NEW S, NEW queue \in Seq(S), NEW T, Numbered(T)
  PROVE  Take(queue, T) \in Seq(Nat)
BY MineWithin, AtType DEF Take

LEMMA TakeJoin ==
  ASSUME NEW S, NEW s \in Seq(S), NEW t \in Seq(S), NEW T, Numbered(T)
  PROVE  Take(s \o t, T) = Take(s, T) \o Take(t, T)
<1> PICK u : u = s \o t
  OBVIOUS
<1> PICK n : n = Len(s)
  OBVIOUS
<1> PICK m : m = Len(t)
  OBVIOUS
<1>1. /\ u \in Seq(S) /\ n \in Nat /\ m \in Nat
      /\ DOMAIN s = 1..n /\ DOMAIN t = 1..m /\ DOMAIN u = 1..(n + m)
      /\ \A k \in 1..n : u[k] = s[k]
      /\ \A k \in 1..m : n + k \in 1..(n + m) /\ u[n + k] = t[k]
  <2>1. /\ u \in Seq(S) /\ Len(u) = n + m
        /\ \A i \in 1..(n + m) : u[i] = IF i <= n THEN s[i] ELSE t[i - n]
    BY ConcatProperties
  <2>2. n \in Nat /\ m \in Nat /\ DOMAIN s = 1..n /\ DOMAIN t = 1..m
    OBVIOUS
  <2>3. DOMAIN u = 1..(n + m)
    BY <2>1
  <2>4. \A k \in 1..n : u[k] = s[k]
    BY <2>1, <2>2
  <2>5. ASSUME NEW k \in 1..m
        PROVE  n + k \in 1..(n + m) /\ u[n + k] = t[k]
    <3>1. n + k \in 1..(n + m) /\ ~(n + k <= n) /\ (n + k) - n = k
      BY <2>2
    <3>. QED  BY <2>1, <3>1
  <2>. QED  BY <2>1, <2>2, <2>3, <2>4, <2>5
<1>2. MineIn(u, T) = Shifted(MineIn(s, T), n, MineIn(t, T))
  <2>1. ASSUME NEW k \in MineIn(u, T)
        PROVE  k \in Shifted(MineIn(s, T), n, MineIn(t, T))
    <3>1. k \in 1..(n + m) /\ u[k] \in T
      BY <1>1 DEF MineIn
    <3>2. CASE k <= n
      BY <1>1, <3>1, <3>2 DEF MineIn, Shifted
    <3>3. CASE ~(k <= n)
      <4>1. PICK j \in 1..m : k = n + j
        <5>1. k - n \in 1..m /\ k = n + (k - n)
          BY <1>1, <3>1, <3>3
        <5>. QED  BY <5>1
      <4>. QED  BY <1>1, <3>1, <4>1 DEF MineIn, Shifted
    <3>. QED  BY <3>2, <3>3
  <2>2. ASSUME NEW k \in Shifted(MineIn(s, T), n, MineIn(t, T))
        PROVE  k \in MineIn(u, T)
    <3>1. CASE k \in MineIn(s, T)
      BY <1>1, <3>1 DEF MineIn
    <3>2. CASE \E j \in MineIn(t, T) : k = n + j
      BY <1>1, <3>2 DEF MineIn
    <3>. QED  BY <3>1, <3>2 DEF Shifted
  <2>. QED  BY <2>1, <2>2
<1>3. /\ Within(MineIn(s, T), n) /\ AllIn(NumbersOf(s, T), MineIn(s, T), Nat)
      /\ Within(MineIn(t, T), m) /\ AllIn(NumbersOf(t, T), MineIn(t, T), Nat)
  BY MineWithin
<1>4. Shows(NumbersOf(u, T), NumbersOf(s, T), MineIn(s, T))
  <2>1. ASSUME NEW k \in MineIn(s, T)
        PROVE  NumbersOf(u, T)[k] = NumbersOf(s, T)[k]
    <3>1. k \in 1..n /\ k \in MineIn(u, T)
      BY <1>1, <1>2 DEF MineIn, Shifted
    <3>. QED  BY <1>1, <3>1 DEF NumbersOf
  <2>. QED  BY <2>1 DEF Shows
<1>5. ShowsFrom(NumbersOf(u, T), n, NumbersOf(t, T), MineIn(t, T))
  <2>1. ASSUME NEW k \in MineIn(t, T)
        PROVE  NumbersOf(u, T)[n + k] = NumbersOf(t, T)[k]
    <3>1. k \in 1..m /\ n + k \in MineIn(u, T)
      BY <1>1, <1>2 DEF MineIn, Shifted
    <3>. QED  BY <1>1, <3>1 DEF NumbersOf
  <2>. QED  BY <2>1 DEF ShowsFrom
<1>6. At(NumbersOf(u, T), MineIn(u, T))
        = At(NumbersOf(s, T), MineIn(s, T)) \o At(NumbersOf(t, T), MineIn(t, T))
  BY <1>2, <1>3, <1>4, <1>5, AtJoin
<1>. QED  BY <1>6 DEF Take

\* A queue without a packet of the stream, and a queue of one packet.
LEMMA TakeNone ==
  ASSUME NEW queue, NEW T, \A k \in DOMAIN queue : queue[k] \notin T
  PROVE  Take(queue, T) = <<>>
<1>1. MineIn(queue, T) = {}
  BY DEF MineIn
<1>. QED  BY <1>1, AtNone DEF Take

LEMMA TakeOne ==
  ASSUME NEW p, NEW T, Numbered(T)
  PROVE  Take(<<p>>, T) = IF p \in T THEN <<Number(p)>> ELSE <<>>
<1> PICK one : one = <<p>>
  OBVIOUS
<1>0. one \in Seq({p}) /\ Len(one) = 1 /\ DOMAIN one = {1} /\ one[1] = p
  OBVIOUS
<1>1. CASE p \in T
  <2> DEFINE N == NumbersOf(one, T)
  <2>1. MineIn(one, T) = 1..1
    BY <1>0, <1>1 DEF MineIn
  <2>2. N = <<Number(p)>>
    <3>1. N = [k \in 1..1 |-> Number(one[k])]
      BY <2>1 DEF NumbersOf
    <3>2. <<Number(p)>> = [k \in 1..1 |-> <<Number(p)>>[k]]
      OBVIOUS
    <3>3. \A k \in 1..1 : Number(one[k]) = <<Number(p)>>[k]
      BY <1>0
    <3>. QED  BY <3>1, <3>2, <3>3
  <2>3. <<Number(p)>> \in Seq(Nat) /\ Len(<<Number(p)>>) = 1
    BY <1>1 DEF Numbered
  <2>4. At(<<Number(p)>>, 1..1) = <<Number(p)>>
    BY <2>3, AtAll
  <2>. QED  BY <1>1, <2>1, <2>2, <2>4 DEF Take
<1>2. CASE p \notin T
  <2>1. Take(one, T) = <<>>
    BY <1>0, <1>2, TakeNone
  <2>. QED  BY <1>2, <2>1
<1>. QED  BY <1>1, <1>2

\* Only the numbers of the packets that are taken matter.
LEMMA TakeSame ==
  ASSUME NEW s, NEW t, NEW T, NEW U, DOMAIN s = DOMAIN t,
         \A k \in DOMAIN s : s[k] \in T <=> t[k] \in U,
         \A k \in DOMAIN s : s[k] \in T => Number(s[k]) = Number(t[k])
  PROVE  Take(s, T) = Take(t, U)
<1>1. MineIn(s, T) = MineIn(t, U)
  BY DEF MineIn
<1>2. \A k \in MineIn(s, T) : Number(s[k]) = Number(t[k])
  BY DEF MineIn
<1>3. NumbersOf(s, T) = NumbersOf(t, U)
  BY <1>1, <1>2 DEF NumbersOf
<1>. QED  BY <1>1, <1>3 DEF Take

\* A packet that is pushed, and one that is popped.
LEMMA TakeAppend ==
  ASSUME NEW S, NEW queue \in Seq(S), NEW p \in S, NEW T, Numbered(T)
  PROVE  Take(Append(queue, p), T) = Take(queue, T) \o Take(<<p>>, T)
<1> PICK one : one = <<p>>
  OBVIOUS
<1>0. one \in Seq(S)
  OBVIOUS
<1>1. Append(queue, p) = queue \o one
  OBVIOUS
<1>2. Take(queue \o one, T) = Take(queue, T) \o Take(one, T)
  BY ONLY <1>0, queue \in Seq(S), TakeJoin, Numbered(T)
<1>. QED  BY <1>1, <1>2

LEMMA TakeHead ==
  ASSUME NEW S, NEW queue \in Seq(S), queue # <<>>, NEW T, Numbered(T)
  PROVE  Take(queue, T) = Take(<<Head(queue)>>, T) \o Take(Tail(queue), T)
<1> PICK first : first = <<Head(queue)>>
  OBVIOUS
<1> PICK rest : rest = Tail(queue)
  OBVIOUS
<1>0. rest \in Seq(S) /\ first \in Seq(S)
  OBVIOUS
<1>1. queue = first \o rest
  OBVIOUS
<1>2. Take(first \o rest, T) = Take(first, T) \o Take(rest, T)
  BY ONLY <1>0, TakeJoin, Numbered(T)
<1>. QED  BY <1>1, <1>2

Among(n, list) == \E j \in DOMAIN list : list[j] = n
Holds(queue, T, n) == \E k \in DOMAIN queue : queue[k] \in T /\ Number(queue[k]) = n
RisingList(list) == Rises(list, Len(list))
Unrepeated(list) == \A j, k \in DOMAIN list : list[j] = list[k] => j = k

\* The numbers taken are those of the packets of the stream, each once.
LEMMA TakePlaces ==
  ASSUME NEW S, NEW queue \in Seq(S), NEW T, Numbered(T)
  PROVE  \E N \in Nat :
           /\ Len(Take(queue, T)) = N /\ DOMAIN Take(queue, T) = 1..N
           /\ \A j \in 1..N : /\ Nth(MineIn(queue, T), j) \in MineIn(queue, T)
                              /\ Take(queue, T)[j] = Number(queue[Nth(MineIn(queue, T), j)])
           /\ \A k \in MineIn(queue, T) : \E j \in 1..N : Nth(MineIn(queue, T), j) = k
<1> PICK mine : mine = MineIn(queue, T)
  OBVIOUS
<1> PICK N : N = Cardinality(mine)
  OBVIOUS
<1>1. Within(mine, Len(queue)) /\ AllIn(NumbersOf(queue, T), mine, Nat)
  BY MineWithin
<1>2. /\ N \in Nat
      /\ \A j \in 1..N : Nth(mine, j) \in mine
      /\ \A k \in mine : \E j \in 1..N : Nth(mine, j) = k
  BY <1>1, NthPlace
<1>3. /\ Take(queue, T) \in Seq(Nat) /\ Len(Take(queue, T)) = N
      /\ \A j \in 1..N : Take(queue, T)[j] = NumbersOf(queue, T)[Nth(mine, j)]
  BY <1>1, AtType DEF Take
<1>4. DOMAIN Take(queue, T) = 1..N
  BY <1>3
<1>5. \A k \in mine : NumbersOf(queue, T)[k] = Number(queue[k])
  BY DEF NumbersOf
<1>. QED  BY <1>2, <1>3, <1>4, <1>5

LEMMA TakeHolds ==
  ASSUME NEW S, NEW queue \in Seq(S), NEW T, Numbered(T), NEW n
  PROVE  Among(n, Take(queue, T)) <=> Holds(queue, T, n)
<1> PICK mine : mine = MineIn(queue, T)
  OBVIOUS
<1>1. PICK N \in Nat :
           /\ DOMAIN Take(queue, T) = 1..N
           /\ \A j \in 1..N : /\ Nth(mine, j) \in mine
                              /\ Take(queue, T)[j] = Number(queue[Nth(mine, j)])
           /\ \A k \in mine : \E j \in 1..N : Nth(mine, j) = k
  BY TakePlaces
<1>2. \A k : k \in mine <=> k \in DOMAIN queue /\ queue[k] \in T
  BY DEF MineIn
<1>3. ASSUME NEW j \in 1..N, Take(queue, T)[j] = n
      PROVE  \E k \in DOMAIN queue : queue[k] \in T /\ Number(queue[k]) = n
  <2>1. Nth(mine, j) \in mine /\ Take(queue, T)[j] = Number(queue[Nth(mine, j)])
    BY <1>1
  <2>. QED  BY <1>2, <1>3, <2>1
<1>4. ASSUME NEW k \in DOMAIN queue, queue[k] \in T, Number(queue[k]) = n
      PROVE  \E j \in 1..N : Take(queue, T)[j] = n
  <2>1. PICK j \in 1..N : Nth(mine, j) = k
    BY <1>1, <1>2, <1>4
  <2>2. Take(queue, T)[j] = Number(queue[Nth(mine, j)])
    BY <1>1
  <2>. QED  BY <1>4, <2>1, <2>2
<1>. QED  BY <1>1, <1>3, <1>4 DEF Among, Holds

\* In a rising list no number comes twice.
LEMMA TakeOnce ==
  ASSUME NEW S, NEW queue \in Seq(S), NEW T, Numbered(T), Unrepeated(Take(queue, T)),
         NEW k \in DOMAIN queue, queue[k] \in T, NEW l \in DOMAIN queue, queue[l] \in T,
         Number(queue[k]) = Number(queue[l])
  PROVE  k = l
<1> PICK mine : mine = MineIn(queue, T)
  OBVIOUS
<1>1. PICK N \in Nat :
           /\ DOMAIN Take(queue, T) = 1..N
           /\ \A j \in 1..N : Take(queue, T)[j] = Number(queue[Nth(mine, j)])
           /\ \A i \in mine : \E j \in 1..N : Nth(mine, j) = i
  BY TakePlaces
<1>2. k \in mine /\ l \in mine
  BY DEF MineIn
<1>3. PICK a \in 1..N, b \in 1..N : Nth(mine, a) = k /\ Nth(mine, b) = l
  BY <1>1, <1>2
<1>4. Take(queue, T)[a] = Take(queue, T)[b]
  BY <1>1, <1>3
<1>5. a = b
  BY <1>1, <1>4 DEF Unrepeated
<1>. QED  BY <1>3, <1>5

\* Leaving out elements none of which is taken makes no difference.
LEMMA TakeOfPart ==
  ASSUME NEW S, NEW s \in Seq(S), NEW T, Numbered(T),
         NEW kept, kept \in SUBSET DOMAIN s, MineIn(s, T) \subseteq kept
  PROVE  At(s, kept) \in Seq(S) /\ Take(At(s, kept), T) = Take(s, T)
<1> PICK n : n = Len(s)
  OBVIOUS
<1> PICK u : u = At(s, kept)
  OBVIOUS
<1> PICK N : N = Cardinality(kept)
  OBVIOUS
<1> PICK mine : mine = MineIn(s, T)
  OBVIOUS
<1> PICK ours : ours = MineIn(u, T)
  OBVIOUS
<1> PICK M : M = Cardinality(ours)
  OBVIOUS
<1>1. n \in Nat /\ DOMAIN s = 1..n /\ Within(kept, n) /\ AllIn(s, kept, S)
  BY DEF Within, AllIn
<1>2. /\ N \in Nat
      /\ \A k \in 1..N : Nth(kept, k) \in kept
      /\ \A j, k \in 1..N : j < k => Nth(kept, j) < Nth(kept, k)
      /\ \A i \in kept : \E k \in 1..N : Nth(kept, k) = i
  BY <1>1, NthPlace
<1>3. /\ u \in Seq(S) /\ Len(u) = N
      /\ \A k \in 1..N : u[k] = s[Nth(kept, k)]
  BY <1>1, AtType
<1>4. DOMAIN u = 1..N
  BY <1>3
<1>5. /\ Within(mine, n) /\ AllIn(NumbersOf(s, T), mine, Nat)
      /\ Within(ours, N) /\ AllIn(NumbersOf(u, T), ours, Nat)
  BY <1>3, MineWithin
<1>6. /\ M \in Nat
      /\ \A j \in 1..M : Nth(ours, j) \in ours
      /\ \A j, k \in 1..M : j < k => Nth(ours, j) < Nth(ours, k)
      /\ \A i \in ours : \E j \in 1..M : Nth(ours, j) = i
  BY <1>5, NthPlace
<1>7. /\ \A k : k \in ours <=> k \in 1..N /\ s[Nth(kept, k)] \in T
      /\ \A i : i \in mine <=> i \in kept /\ s[i] \in T
  <2>1. \A k : k \in ours <=> k \in 1..N /\ s[Nth(kept, k)] \in T
    BY <1>3, <1>4 DEF MineIn
  <2>2. \A i : i \in mine <=> i \in kept /\ s[i] \in T
    BY DEF MineIn
  <2>. QED  BY <2>1, <2>2
<1> DEFINE f == [j \in 1..M |-> Nth(kept, Nth(ours, j))]
<1>8. \A j \in 1..M : f[j] = Nth(kept, Nth(ours, j))
  OBVIOUS
<1>9. ASSUME NEW j \in 1..M
      PROVE  Nth(ours, j) \in 1..N /\ Nth(kept, Nth(ours, j)) \in mine
  BY <1>2, <1>6, <1>7
<1>10. f \in [1..M -> mine]
  BY <1>9
<1> HIDE DEF f
<1>11. Rises(f, M)
  <2>1. ASSUME NEW j \in 1..M, NEW k \in 1..M, j < k
        PROVE  f[j] < f[k]
    <3>1. Nth(ours, j) \in 1..N /\ Nth(ours, k) \in 1..N /\ Nth(ours, j) < Nth(ours, k)
      BY <1>6, <1>9, <2>1
    <3>. QED  BY <1>2, <1>8, <3>1
  <2>. QED  BY <2>1 DEF Rises
<1>12. Onto(f, M, mine)
  <2>1. ASSUME NEW i \in mine
        PROVE  \E j \in 1..M : f[j] = i
    <3>1. i \in kept /\ s[i] \in T
      BY <1>7
    <3>2. PICK k \in 1..N : Nth(kept, k) = i
      BY <1>2, <3>1
    <3>3. k \in ours
      BY <1>7, <3>1, <3>2
    <3>4. PICK j \in 1..M : Nth(ours, j) = k
      BY <1>6, <3>3
    <3>. QED  BY <1>8, <3>2, <3>4
  <2>. QED  BY <2>1 DEF Onto
<1>13. Lists(f, M, mine)
  BY <1>6, <1>10, <1>11, <1>12 DEF Lists
<1> PICK x : x = Take(s, T)
  OBVIOUS
<1> PICK y : y = Take(u, T)
  OBVIOUS
<1>14. Cardinality(mine) = M /\ \A j \in 1..M : x[j] = NumbersOf(s, T)[f[j]]
  BY <1>5, <1>13, AtIs DEF Take
<1>15. x \in Seq(Nat) /\ Len(x) = M
  BY <1>5, <1>14, AtType DEF Take
<1>16. y \in Seq(Nat) /\ Len(y) = M /\ \A j \in 1..M : y[j] = NumbersOf(u, T)[Nth(ours, j)]
  BY <1>5, AtType DEF Take
<1>17. ASSUME NEW j \in 1..M
       PROVE  x[j] = y[j]
  <2>1. /\ x[j] = NumbersOf(s, T)[f[j]] /\ y[j] = NumbersOf(u, T)[Nth(ours, j)]
        /\ f[j] = Nth(kept, Nth(ours, j))
    BY <1>8, <1>14, <1>16
  <2>2. f[j] \in mine /\ Nth(ours, j) \in ours /\ Nth(ours, j) \in 1..N
    BY <1>6, <1>8, <1>9
  <2>3. NumbersOf(s, T)[f[j]] = Number(s[f[j]])
    BY <2>2 DEF NumbersOf
  <2>4. NumbersOf(u, T)[Nth(ours, j)] = Number(u[Nth(ours, j)])
    BY <2>2 DEF NumbersOf
  <2>5. u[Nth(ours, j)] = s[Nth(kept, Nth(ours, j))]
    BY <1>3, <2>2
  <2>. QED  BY <2>1, <2>3, <2>4, <2>5
<1>18. x = y
  BY ONLY <1>15, <1>16, <1>17, SeqEqual
<1>. QED  BY <1>3, <1>18

-----------------------------------------------------------------------------
\* A list that is put behind another: what is in it, and when it rises.
LEMMA JoinAmong ==
  ASSUME NEW a \in Seq(Nat), NEW b \in Seq(Nat), NEW n
  PROVE  Among(n, a \o b) <=> Among(n, a) \/ Among(n, b)
<1> PICK p : p = Len(a)
  OBVIOUS
<1> PICK q : q = Len(b)
  OBVIOUS
<1> PICK u : u = a \o b
  OBVIOUS
<1>1. p \in Nat /\ q \in Nat /\ DOMAIN a = 1..p /\ DOMAIN b = 1..q
  OBVIOUS
<1>2. /\ DOMAIN u = 1..(p + q)
      /\ \A i \in 1..(p + q) : u[i] = IF i <= p THEN a[i] ELSE b[i - p]
  BY <1>1, ConcatProperties
<1>3. ASSUME NEW i \in 1..(p + q), u[i] = n
      PROVE  (\E j \in 1..p : a[j] = n) \/ (\E j \in 1..q : b[j] = n)
  <2>1. CASE i <= p
    BY <1>1, <1>2, <1>3, <2>1
  <2>2. CASE ~(i <= p)
    <3>1. i - p \in 1..q /\ u[i] = b[i - p]
      BY <1>1, <1>2, <2>2
    <3>. QED  BY <1>3, <3>1
  <2>. QED  BY <2>1, <2>2
<1>4. ASSUME NEW j \in 1..p, a[j] = n
      PROVE  \E i \in 1..(p + q) : u[i] = n
  <2>1. j \in 1..(p + q) /\ j <= p
    BY <1>1
  <2>. QED  BY <1>2, <1>4, <2>1
<1>5. ASSUME NEW j \in 1..q, b[j] = n
      PROVE  \E i \in 1..(p + q) : u[i] = n
  <2>1. p + j \in 1..(p + q) /\ ~(p + j <= p) /\ (p + j) - p = j
    BY <1>1
  <2>. QED  BY <1>2, <1>5, <2>1
<1>. QED  BY <1>1, <1>2, <1>3, <1>4, <1>5 DEF Among

Before(a, b) == \A m, n : Among(m, a) /\ Among(n, b) => m < n

\* Two lists joined rise when both do and all of the first is before the second.
LEMMA JoinRises ==
  ASSUME NEW a \in Seq(Nat), NEW b \in Seq(Nat)
  PROVE  RisingList(a \o b) <=> RisingList(a) /\ RisingList(b) /\ Before(a, b)
<1> PICK p : p = Len(a)
  OBVIOUS
<1> PICK q : q = Len(b)
  OBVIOUS
<1> PICK u : u = a \o b
  OBVIOUS
<1>1. p \in Nat /\ q \in Nat /\ DOMAIN a = 1..p /\ DOMAIN b = 1..q
  OBVIOUS
<1>2. /\ Len(u) = p + q
      /\ \A i \in 1..(p + q) : u[i] = IF i <= p THEN a[i] ELSE b[i - p]
  BY <1>1, ConcatProperties
<1>3. \A i \in 1..p : i \in 1..(p + q) /\ u[i] = a[i]
  BY <1>1, <1>2
<1>4. \A i \in 1..q : p + i \in 1..(p + q) /\ u[p + i] = b[i]
  <2>1. TAKE i \in 1..q
  <2>2. p + i \in 1..(p + q) /\ ~(p + i <= p) /\ (p + i) - p = i
    BY <1>1
  <2>. QED  BY <1>2, <2>2
<1>5. ASSUME RisingList(u)
      PROVE  RisingList(a) /\ RisingList(b) /\ Before(a, b)
  <2>1. \A j, k \in 1..(p + q) : j < k => u[j] < u[k]
    BY <1>2, <1>5 DEF RisingList, Rises
  <2>2. RisingList(a)
    BY <1>3, <2>1 DEF RisingList, Rises
  <2>3. RisingList(b)
    <3>1. ASSUME NEW j \in 1..q, NEW k \in 1..q, j < k
          PROVE  b[j] < b[k]
      <4>1. p + j < p + k
        BY <1>1, <3>1
      <4>. QED  BY <1>4, <2>1, <4>1
    <3>. QED  BY <3>1 DEF RisingList, Rises
  <2>4. Before(a, b)
    <3>1. ASSUME NEW j \in 1..p, NEW k \in 1..q
          PROVE  a[j] < b[k]
      <4>1. j < p + k
        BY <1>1
      <4>. QED  BY <1>3, <1>4, <2>1, <4>1
    <3>. QED  BY <1>1, <3>1 DEF Before, Among
  <2>. QED  BY <2>2, <2>3, <2>4
<1>6. ASSUME RisingList(a), RisingList(b), Before(a, b)
      PROVE  RisingList(u)
  <2>1. ASSUME NEW j \in 1..(p + q), NEW k \in 1..(p + q), j < k
        PROVE  u[j] < u[k]
    <3>1. CASE k <= p
      <4>1. j \in 1..p /\ k \in 1..p /\ u[j] = a[j] /\ u[k] = a[k]
        BY <1>1, <1>2, <2>1, <3>1
      <4>. QED  BY <1>6, <2>1, <4>1 DEF RisingList, Rises
    <3>2. CASE ~(k <= p) /\ j <= p
      <4>1. j \in 1..p /\ k - p \in 1..q /\ u[j] = a[j] /\ u[k] = b[k - p]
        BY <1>1, <1>2, <3>2
      <4>. QED  BY <1>1, <1>6, <4>1 DEF Before, Among
    <3>3. CASE ~(k <= p) /\ ~(j <= p)
      <4>1. /\ j - p \in 1..q /\ k - p \in 1..q /\ j - p < k - p
            /\ u[j] = b[j - p] /\ u[k] = b[k - p]
        BY <1>1, <1>2, <2>1, <3>3
      <4>. QED  BY <1>6, <4>1 DEF RisingList, Rises
    <3>. QED  BY <3>1, <3>2, <3>3
  <2>. QED  BY <1>2, <2>1 DEF RisingList, Rises
<1>. QED  BY <1>5, <1>6

-----------------------------------------------------------------------------
(* The ARP tables.  ArpTablesAgree is not inductive: that a packet which   *)
(* joins a queue goes out of the interface the requests went out of depends *)
(* on what is in the switch queue (its destination has a route) and on the *)
(* request's own interface being the one of its next hop.                  *)

Packets == [type : {"ip"}, id : Nat, from : Interfaces, dst : Destinations, ip_ttl : Nat]
Arrivals == Packets \cup ArpRequests \cup ArpReplies
Waiters == [packet : Arrivals, iface : Interfaces]
Records == [times_sent : Int, elapsed : Int, iface : Interfaces]

\* The types the argument needs: of the queues a packet goes through on its way to
\* an ARP queue, and of the records of the requests.
QueueTypes ==
  /\ m_input_queue \in [Interfaces -> Seq(Arrivals)]
  /\ m_switch_queue \in Seq(Arrivals)
  /\ arrived \in Seq(Packets)
TableTypes ==
  /\ \A h \in DOMAIN m_arpreq_queue : m_arpreq_queue[h] \in Seq(Waiters)
  /\ \A h \in DOMAIN m_arpreq_times_list : m_arpreq_times_list[h] \in Records

\* The interface of every route to a next hop.
Leads(hop, interface) ==
  \A d \in Destinations :
    RoutingTable[d].next_hop = hop => RoutingTable[d].interface_name = interface
RequestsGoTheRightWay ==
  \A h \in DOMAIN m_arpreq_times_list : Leads(h, m_arpreq_times_list[h].iface)

ArpInv == QueueTypes /\ TableTypes /\ RequestsGoTheRightWay /\ ArpTablesAgree

-----------------------------------------------------------------------------
\* The interface chosen for a next hop is one of the router's.
LEMMA InterfaceToType ==
  ASSUME NEW h \in Hops
  PROVE  InterfaceTo(h) \in Interfaces
<1>1. PICK d \in Destinations : RoutingTable[d].next_hop = h
  BY HopAssumption
<1>2. RoutingTable[d] \in Routes
  BY <1>1, RoutingTableAssumption
<1>3. /\ RoutingTable[d].interface_name \in Interfaces
      /\ RoutingTable[d] = [next_hop |-> h, interface_name |-> RoutingTable[d].interface_name]
  BY <1>1, <1>2 DEF Routes
<1>. QED  BY <1>1, <1>3 DEF InterfaceTo

\* The route of a packet names one of the router's interfaces, the only one that
\* leads to its next hop.
LEMMA RouteInterface ==
  ASSUME NEW p \in Packets
  PROVE  /\ RouteOf(p).interface_name \in Interfaces
         /\ Leads(RouteOf(p).next_hop, RouteOf(p).interface_name)
<1>1. p.dst \in Destinations
  BY DEF Packets
<1>2. RouteOf(p) \in Routes
  BY <1>1, RoutingTableAssumption DEF RouteOf
<1>. QED  BY <1>1, <1>2, OneInterfacePerHop DEF RouteOf, Routes, Leads

\* Pushing to one input queue keeps the queues' types.
LEMMA PushType ==
  ASSUME QueueTypes, NEW p \in Arrivals, Push(p)
  PROVE  m_input_queue' \in [Interfaces -> Seq(Arrivals)]
<1>1. p.from \in Interfaces
  BY DEF Arrivals, Packets, ArpRequests, ArpReplies
<1>2. m_input_queue[p.from] \in Seq(Arrivals)
  BY <1>1 DEF QueueTypes
<1>3. Append(m_input_queue[p.from], p) \in Seq(Arrivals)
  BY <1>2, AppendProperties
<1>. QED  BY <1>1, <1>3 DEF QueueTypes, Push

LEMMA InitArpInv == Init => ArpInv
BY DEF Init, ArpInv, QueueTypes, TableTypes, RequestsGoTheRightWay, ArpTablesAgree, Empty

-----------------------------------------------------------------------------
(* The neighbours, the clock, and the parts of the loop that leave the     *)
(* ARP queues alone.                                                       *)

LEMMA ArrivalsStep ==
  ASSUME ArpInv, Network
  PROVE  ArpInv'
<1>1. CASE \E flow \in Flows, ttl \in TTLs : PacketArrives(flow[1], flow[2], ttl)
  <2>1. PICK flow \in Flows, ttl \in TTLs : PacketArrives(flow[1], flow[2], ttl)
    BY <1>1
  <2>2. flow[1] \in Interfaces /\ flow[2] \in Destinations /\ ttl \in Nat
    BY <2>1, LimitAssumption
  <2>3. Len(arrived) + 1 \in Nat
    BY LenProperties DEF ArpInv, QueueTypes
  <2>. DEFINE p == [type |-> "ip", id |-> Len(arrived) + 1, from |-> flow[1],
                    dst |-> flow[2], ip_ttl |-> ttl]
  <2>4. p \in Packets
    BY <2>2, <2>3 DEF Packets
  <2>5. /\ Push(p) /\ arrived' = Append(arrived, p)
        /\ UNCHANGED <<m_switch_queue, arpVars, aborted>>
    BY <2>1 DEF PacketArrives
  <2>. HIDE DEF p
  <2>6. QueueTypes'
    BY <2>4, <2>5, PushType, AppendProperties DEF ArpInv, QueueTypes, Arrivals
  <2>. QED  BY <2>5, <2>6
         DEF ArpInv, TableTypes, RequestsGoTheRightWay, ArpTablesAgree, arpVars, Leads
<1>2. CASE \E i \in Neighbours : RequestArrives(i)
  <2>1. PICK i \in Neighbours : RequestArrives(i)
    BY <1>2
  <2>2. [type |-> "request", from |-> i] \in Arrivals
    BY <2>1, LimitAssumption DEF Arrivals, ArpRequests
  <2>3. QueueTypes'
    BY <2>1, <2>2, PushType DEF RequestArrives, ArpInv, QueueTypes, wireVars
  <2>. QED  BY <2>1, <2>3
         DEF RequestArrives, ArpInv, TableTypes, RequestsGoTheRightWay, ArpTablesAgree,
             arpVars, Leads
<1>3. CASE \E h \in Hops : HopAnswers(h)
  <2>1. PICK h \in Hops : HopAnswers(h)
    BY <1>3
  <2>2. [type |-> "reply", from |-> InterfaceTo(h), ar_sip |-> h] \in Arrivals
    BY <2>1, InterfaceToType DEF Arrivals, ArpReplies
  <2>3. QueueTypes'
    BY <2>1, <2>2, PushType DEF HopAnswers, ArpInv, QueueTypes
  <2>. QED  BY <2>1, <2>3
         DEF HopAnswers, ArpInv, TableTypes, RequestsGoTheRightWay, ArpTablesAgree,
             arpVars, Leads
<1>. QED  BY <1>1, <1>2, <1>3 DEF Network

\* Growing older leaves the domains and the interfaces as they are.
LEMMA TickStep ==
  ASSUME ArpInv, Tick
  PROVE  ArpInv'
<1>1. QueueTypes'
  BY DEF ArpInv, QueueTypes, Tick, queueVars, wireVars
<1>2. /\ DOMAIN m_arpreq_times_list' = DOMAIN m_arpreq_times_list
      /\ DOMAIN m_arp_cache' = DOMAIN m_arp_cache
      /\ UNCHANGED <<m_arpreq_queue, aborted>>
  BY DEF Tick
<1>3. \A h \in DOMAIN m_arpreq_times_list :
        /\ m_arpreq_times_list'[h] \in Records
        /\ m_arpreq_times_list'[h].iface = m_arpreq_times_list[h].iface
  BY LimitAssumption DEF ArpInv, TableTypes, Tick, Records, Older
<1>4. TableTypes'
  BY <1>2, <1>3 DEF ArpInv, TableTypes
<1>5. RequestsGoTheRightWay'
  BY <1>2, <1>3 DEF ArpInv, RequestsGoTheRightWay, Leads
<1>6. ArpTablesAgree'
  BY <1>2, <1>3 DEF ArpInv, ArpTablesAgree
<1>. QED  BY <1>1, <1>4, <1>5, <1>6 DEF ArpInv

\* A step that leaves the tables alone, but for entries it drops from the cache,
\* keeps the invariant when it keeps the types of the queues.
LEMMA TablesUntouched ==
  ASSUME ArpInv, QueueTypes', aborted => aborted',
         UNCHANGED <<m_arpreq_queue, m_arpreq_times_list>>,
         DOMAIN m_arp_cache' \subseteq DOMAIN m_arp_cache
  PROVE  ArpInv'
BY DEF ArpInv, TableTypes, RequestsGoTheRightWay, ArpTablesAgree, Leads

LEMMA CleaningStep ==
  ASSUME ArpInv, ~aborted, NEW h \in Hops, CleanEntry(h)
  PROVE  ArpInv'
<1>1. QueueTypes'
  BY DEF CleanEntry, ArpInv, QueueTypes, queueVars, wireVars
<1>2. DOMAIN m_arp_cache' \subseteq DOMAIN m_arp_cache
  BY DEF CleanEntry, Erase
<1>3. UNCHANGED <<m_arpreq_queue, m_arpreq_times_list>>
  BY DEF CleanEntry
<1>. QED  BY <1>1, <1>2, <1>3, TablesUntouched

LEMMA IntakeStep ==
  ASSUME ArpInv, NEW i \in Interfaces, Intake(i)
  PROVE  ArpInv'
<1>1. m_input_queue[i] \in Seq(Arrivals) /\ m_switch_queue \in Seq(Arrivals)
  BY DEF ArpInv, QueueTypes
<1>2. m_switch_queue \o m_input_queue[i] \in Seq(Arrivals)
  BY <1>1, ConcatProperties
<1>3. QueueTypes'
  BY <1>2 DEF ArpInv, QueueTypes, Intake, wireVars
<1>. QED  BY <1>3, TablesUntouched DEF Intake, arpVars

\* What handlePacket pops is a packet that arrived.
LEMMA PoppedType ==
  ASSUME ArpInv, NEW type, Switching(type)
  PROVE  QueueTypes' /\ popped \in Arrivals /\ popped.type = type
<1>1. m_switch_queue \in Seq(Arrivals) /\ m_switch_queue # <<>>
  BY DEF ArpInv, QueueTypes, Switching
<1>2. Head(m_switch_queue) \in Arrivals /\ Tail(m_switch_queue) \in Seq(Arrivals)
  BY <1>1, HeadTailProperties
<1>. QED  BY <1>2 DEF ArpInv, QueueTypes, Switching, wireVars, popped

\* A packet joins the queue of its next hop: if the queue is new the request gets its
\* interface, otherwise both lead to the same next hop.
LEMMA CacheMissStep ==
  ASSUME ArpInv, ~aborted, CacheMiss
  PROVE  ArpInv'
<1>. DEFINE hop == RouteOf(popped).next_hop
            out == RouteOf(popped).interface_name
            w == Waiting(popped)
<1>1. /\ Switching("ip")
      /\ hop \notin DOMAIN m_arp_cache
      /\ ArpCacheQueueReq(hop, popped)
      /\ UNCHANGED <<m_arp_cache, aborted>>
  BY DEF CacheMiss, LPMHit
<1>2. QueueTypes' /\ popped \in Arrivals /\ popped.type = "ip"
  BY <1>1, PoppedType
<1>3. popped \in Packets
  BY <1>2 DEF Arrivals, ArpRequests, ArpReplies
<1>4. /\ out \in Interfaces
      /\ Leads(hop, out)
  BY <1>1, <1>3, RouteInterface
<1>5. \E d \in Destinations :
        RoutingTable[d].next_hop = hop /\ RoutingTable[d].interface_name = out
  BY <1>1, <1>3 DEF Packets, RouteOf
<1>6. w \in Waiters /\ w.iface = out
  BY <1>2, <1>4 DEF Waiting, Waiters
<1>. HIDE DEF hop, out, w
<1>7. CASE hop \in DOMAIN m_arpreq_queue
  <2>1. /\ m_arpreq_queue' = [m_arpreq_queue EXCEPT ![hop] = Append(@, w)]
        /\ UNCHANGED m_arpreq_times_list
    BY <1>1, <1>7 DEF ArpCacheQueueReq, w
  <2>2. m_arpreq_queue[hop] \in Seq(Waiters)
    BY <1>7 DEF ArpInv, TableTypes
  <2>. DEFINE q == m_arpreq_queue[hop]
  <2>3. /\ Append(q, w) \in Seq(Waiters) /\ Append(q, w) # <<>>
        /\ Len(Append(q, w)) = Len(q) + 1
        /\ \A k \in 1..Len(q) : Append(q, w)[k] = q[k]
        /\ Append(q, w)[Len(q) + 1] = w
    BY <2>2, <1>6, AppendProperties
  <2>4. DOMAIN Append(q, w) = 1..(Len(q) + 1) /\ DOMAIN q = 1..Len(q) /\ Len(q) \in Nat
    BY <2>2, <2>3, LenProperties
  <2>5. m_arpreq_times_list[hop].iface = out
    BY <1>5, <1>7 DEF ArpInv, ArpTablesAgree, RequestsGoTheRightWay, Leads
  <2>6. TableTypes'
    BY <2>1, <2>3 DEF ArpInv, TableTypes
  <2>7. RequestsGoTheRightWay'
    BY <2>1 DEF ArpInv, RequestsGoTheRightWay, Leads
  <2>8. \A k \in DOMAIN Append(q, w) : Append(q, w)[k].iface = m_arpreq_times_list[hop].iface
    <3>1. \A k \in DOMAIN q : q[k].iface = m_arpreq_times_list[hop].iface
      BY <1>7 DEF ArpInv, ArpTablesAgree
    <3>2. TAKE k \in DOMAIN Append(q, w)
    <3>3. k \in 1..Len(q) \/ k = Len(q) + 1
      BY <2>4
    <3>. QED  BY <2>3, <2>4, <2>5, <3>1, <3>3, <1>6
  <2>9. ArpTablesAgree'
    <3>1. \A h \in DOMAIN m_arpreq_queue' : h # hop => m_arpreq_queue'[h] = m_arpreq_queue[h]
      BY <2>1
    <3>2. m_arpreq_queue'[hop] = Append(q, w) /\ DOMAIN m_arpreq_queue' = DOMAIN m_arpreq_queue
      BY <2>1, <1>7
    <3>. QED  BY <1>1, <2>1, <2>3, <2>8, <3>1, <3>2 DEF ArpInv, ArpTablesAgree
  <2>. QED  BY <1>2, <2>6, <2>7, <2>9 DEF ArpInv
<1>8. CASE hop \notin DOMAIN m_arpreq_queue
  <2>1. PICK e \in -1..(RetryAfter + 1) :
          /\ m_arpreq_queue' = Put(m_arpreq_queue, hop, <<w>>)
          /\ m_arpreq_times_list' =
               Put(m_arpreq_times_list, hop,
                   [times_sent |-> 0, elapsed |-> e, iface |-> w.iface])
    BY <1>1, <1>8 DEF ArpCacheQueueReq, w
  <2>2. /\ DOMAIN m_arpreq_queue' = DOMAIN m_arpreq_queue \cup {hop}
        /\ DOMAIN m_arpreq_times_list' = DOMAIN m_arpreq_times_list \cup {hop}
        /\ m_arpreq_queue'[hop] = <<w>>
        /\ \A h \in DOMAIN m_arpreq_queue : m_arpreq_queue'[h] = m_arpreq_queue[h]
        /\ m_arpreq_times_list'[hop] = [times_sent |-> 0, elapsed |-> e, iface |-> out]
        /\ \A h \in DOMAIN m_arpreq_times_list :
             m_arpreq_times_list'[h] = m_arpreq_times_list[h]
    <3>1. hop \notin DOMAIN m_arpreq_times_list
      BY <1>8 DEF ArpInv, ArpTablesAgree
    <3>. QED  BY <1>6, <1>8, <2>1, <3>1 DEF Put
  <2>3. <<w>> \in Seq(Waiters) /\ <<w>> # <<>> /\ DOMAIN <<w>> = {1} /\ <<w>>[1] = w
    BY <1>6
  <2>4. [times_sent |-> 0, elapsed |-> e, iface |-> out] \in Records
    BY <1>4, LimitAssumption DEF Records
  <2>5. TableTypes'
    BY <2>2, <2>3, <2>4 DEF ArpInv, TableTypes
  <2>6. RequestsGoTheRightWay'
    BY <1>4, <2>2 DEF ArpInv, RequestsGoTheRightWay, Leads
  <2>7. \A k \in DOMAIN m_arpreq_queue'[hop] :
          m_arpreq_queue'[hop][k].iface = m_arpreq_times_list'[hop].iface
    BY <1>6, <2>2, <2>3
  <2>8. ArpTablesAgree'
    BY <1>1, <2>2, <2>3, <2>7 DEF ArpInv, ArpTablesAgree
  <2>. QED  BY <1>2, <2>5, <2>6, <2>8 DEF ArpInv
<1>. QED  BY <1>7, <1>8

\* The reply's next hop enters the cache and leaves both ARP tables.
LEMMA ReplyStep ==
  ASSUME ArpInv, ~aborted, HandleArpReplyToMe
  PROVE  ArpInv'
<1>. DEFINE hop == popped.ar_sip
<1>1. /\ Switching("reply") /\ hop \in DOMAIN m_arpreq_queue
      /\ m_arp_cache' = Learnt(hop)
      /\ m_arpreq_queue' = Erase(m_arpreq_queue, hop)
      /\ m_arpreq_times_list' = Erase(m_arpreq_times_list, hop)
      /\ UNCHANGED aborted
  BY DEF HandleArpReplyToMe
<1>. HIDE DEF hop
<1>2. QueueTypes'
  BY <1>1, PoppedType
<1>3. DOMAIN m_arp_cache' \subseteq DOMAIN m_arp_cache \cup {hop}
  BY <1>1 DEF Learnt, Put
<1>4. /\ DOMAIN m_arpreq_queue' = DOMAIN m_arpreq_queue \ {hop}
      /\ DOMAIN m_arpreq_times_list' = DOMAIN m_arpreq_times_list \ {hop}
      /\ \A h \in DOMAIN m_arpreq_queue' : m_arpreq_queue'[h] = m_arpreq_queue[h]
      /\ \A h \in DOMAIN m_arpreq_times_list' :
           m_arpreq_times_list'[h] = m_arpreq_times_list[h]
  BY <1>1 DEF Erase
<1>5. TableTypes'
  BY <1>4 DEF ArpInv, TableTypes
<1>6. RequestsGoTheRightWay'
  BY <1>4 DEF ArpInv, RequestsGoTheRightWay, Leads
<1>7. ArpTablesAgree'
  BY <1>1, <1>3, <1>4 DEF ArpInv, ArpTablesAgree
<1>. QED  BY <1>2, <1>5, <1>6, <1>7 DEF ArpInv

\* A reply nobody waits for ends the program and leaves the ARP queues as they are.
LEMMA UnexpectedReplyStep ==
  ASSUME ArpInv, UnexpectedArpReply
  PROVE  ArpInv'
<1>1. /\ Switching("reply") /\ aborted' = TRUE
      /\ UNCHANGED <<m_arpreq_queue, m_arpreq_times_list>>
  BY DEF UnexpectedArpReply
<1>2. QueueTypes'
  BY <1>1, PoppedType
<1>. QED  BY <1>1, <1>2
       DEF ArpInv, TableTypes, RequestsGoTheRightWay, ArpTablesAgree, Leads

\* The other packets change neither table.
LEMMA SwitchingStep ==
  ASSUME ArpInv, TTLExpired \/ LPMMiss \/ CacheHit \/ HandleArpRequestToMe
  PROVE  ArpInv'
<1>1. /\ Switching("ip") \/ Switching("request")
      /\ UNCHANGED <<arpVars, aborted>>
  BY DEF TTLExpired, LPMMiss, CacheHit, HandleArpRequestToMe
<1>2. QueueTypes'
  BY <1>1, PoppedType
<1>. QED  BY <1>1, <1>2, TablesUntouched DEF arpVars

LEMMA PhaseStep ==
  ASSUME ArpInv, EndCleaning \/ EndIntake \/ EndSwitching \/ EndSweeping \/ SendToTheNextHop
  PROVE  ArpInv'
<1>1. UNCHANGED <<m_input_queue, m_switch_queue, arrived, arpVars, aborted>>
  BY DEF EndCleaning, EndIntake, EndSwitching, EndSweeping, SendToTheNextHop,
         queueVars, wireVars
<1>2. QueueTypes'
  BY <1>1 DEF ArpInv, QueueTypes
<1>. QED  BY <1>1, <1>2, TablesUntouched DEF arpVars

\* A request that was counted is still a record for the same interface.
LEMMA CountedType ==
  ASSUME NEW r \in Records
  PROVE  LET c == [r EXCEPT !.times_sent = r.times_sent + 1, !.elapsed = 0]
         IN  c \in Records /\ c.iface = r.iface
<1>. DEFINE s == [r EXCEPT !.times_sent = r.times_sent + 1]
            c == [s EXCEPT !.elapsed = 0]
<1>1. s \in Records /\ s.iface = r.iface
  BY DEF Records
<1>. HIDE DEF s
<1>2. c \in Records /\ c.iface = s.iface
  BY <1>1 DEF Records
<1>3. c = [r EXCEPT !.times_sent = r.times_sent + 1, !.elapsed = 0]
  BY DEF s
<1>. QED  BY <1>1, <1>2, <1>3

\* A request is counted and sent, or both tables lose the next hop.
LEMMA SweepingStep ==
  ASSUME ArpInv, ~aborted, NEW hop \in Hops,
         TooEarly(hop) \/ SendArpRequest(hop) \/ GiveUp(hop)
  PROVE  ArpInv'
<1>1. Sweeping(hop)
  BY DEF TooEarly, SendArpRequest, GiveUp
<1>2. QueueTypes' /\ UNCHANGED m_arp_cache
  BY <1>1 DEF Sweeping, ArpInv, QueueTypes, wireVars
<1>3. CASE TooEarly(hop)
  BY <1>2, <1>3, TablesUntouched DEF TooEarly
<1>4. CASE SendArpRequest(hop)
  <2>1. /\ UNCHANGED <<m_arpreq_queue, aborted>>
        /\ m_arpreq_times_list' =
             [m_arpreq_times_list EXCEPT ![hop].times_sent = @ + 1, ![hop].elapsed = 0]
    BY <1>4 DEF SendArpRequest
  <2>2. DOMAIN m_arpreq_times_list' = DOMAIN m_arpreq_times_list
    BY <2>1
  <2>3. ASSUME NEW h \in DOMAIN m_arpreq_times_list
        PROVE  /\ m_arpreq_times_list'[h] \in Records
               /\ m_arpreq_times_list'[h].iface = m_arpreq_times_list[h].iface
    <3>1. m_arpreq_times_list[h] \in Records
      BY DEF ArpInv, TableTypes
    <3>. DEFINE r == m_arpreq_times_list[h]
    <3>2. CASE h = hop
      <4>1. m_arpreq_times_list'[h] = [r EXCEPT !.times_sent = r.times_sent + 1, !.elapsed = 0]
        BY <2>1, <3>2
      <4>. QED  BY <3>1, <4>1, CountedType
    <3>3. CASE h # hop
      BY <2>1, <3>1, <3>3
    <3>. QED  BY <3>2, <3>3
  <2>4. TableTypes'
    BY <2>1, <2>2, <2>3 DEF ArpInv, TableTypes
  <2>5. RequestsGoTheRightWay'
    BY <2>2, <2>3 DEF ArpInv, RequestsGoTheRightWay, Leads
  <2>6. ArpTablesAgree'
    BY <1>2, <2>1, <2>2, <2>3 DEF ArpInv, ArpTablesAgree
  <2>. QED  BY <1>2, <2>4, <2>5, <2>6 DEF ArpInv
<1>5. CASE GiveUp(hop)
  <2>1. /\ m_arpreq_queue' = Erase(m_arpreq_queue, hop)
        /\ m_arpreq_times_list' = Erase(m_arpreq_times_list, hop)
    BY <1>5 DEF GiveUp
  <2>2. /\ DOMAIN m_arpreq_queue' = DOMAIN m_arpreq_queue \ {hop}
        /\ DOMAIN m_arpreq_times_list' = DOMAIN m_arpreq_times_list \ {hop}
        /\ \A h \in DOMAIN m_arpreq_queue' : m_arpreq_queue'[h] = m_arpreq_queue[h]
        /\ \A h \in DOMAIN m_arpreq_times_list' :
             m_arpreq_times_list'[h] = m_arpreq_times_list[h]
    BY <2>1 DEF Erase
  <2>3. TableTypes'
    BY <2>2 DEF ArpInv, TableTypes
  <2>4. RequestsGoTheRightWay'
    BY <2>2 DEF ArpInv, RequestsGoTheRightWay, Leads
  <2>5. ArpTablesAgree'
    BY <1>2, <2>2 DEF ArpInv, ArpTablesAgree
  <2>. QED  BY <1>2, <2>3, <2>4, <2>5 DEF ArpInv
<1>. QED  BY <1>3, <1>4, <1>5

-----------------------------------------------------------------------------
LEMMA ArpInvStep == ArpInv /\ [Next]_vars => ArpInv'
<1>. SUFFICES ASSUME ArpInv, [Next]_vars
              PROVE  ArpInv'
  OBVIOUS
<1>1. CASE ~aborted /\ RouterThread
  <2>1. ASSUME NEW h \in Hops, CleanEntry(h)  PROVE ArpInv'
    BY <1>1, <2>1, CleaningStep
  <2>2. ASSUME NEW i \in Interfaces, Intake(i)  PROVE ArpInv'
    BY <2>2, IntakeStep
  <2>3. ASSUME NEW h \in Hops, TooEarly(h) \/ SendArpRequest(h) \/ GiveUp(h)  PROVE ArpInv'
    BY <1>1, <2>3, SweepingStep
  <2>. QED  BY <1>1, <2>1, <2>2, <2>3, SwitchingStep, CacheMissStep, ReplyStep,
               UnexpectedReplyStep, PhaseStep DEF RouterThread
<1>2. CASE Network
  BY <1>2, ArrivalsStep
<1>3. CASE Tick
  BY <1>3, TickStep
<1>4. CASE RouteChange \/ UNCHANGED vars
  BY <1>4 DEF RouteChange, SetInUse, vars, queueVars, arpVars, wireVars, ArpInv, QueueTypes, TableTypes,
              RequestsGoTheRightWay, ArpTablesAgree, Leads
<1>. QED  BY <1>1, <1>2, <1>3, <1>4 DEF Next

\* sweepArpReqs, arpCacheQueueReq, handleArpReplyToMe: a next hop has packets waiting
\* exactly when its requests are counted, never while its MAC address is cached, and
\* the requests go out of the interface the packets will.
THEOREM ArpTablesCorrect == Spec => []ArpTablesAgree
<1>1. ArpInv => ArpTablesAgree
  BY DEF ArpInv
<1>. QED  BY <1>1, InitArpInv, ArpInvStep, PTL DEF Spec

-----------------------------------------------------------------------------
(* What may stand at each place, from an input queue to the wire.          *)

Came == {arrived[n] : n \in DOMAIN arrived}
Entering == Came \cup ArpRequests \cup ArpReplies
EnteringAt(i) == {p \in Entering : p.from = i}
Lives(p) == p.ip_ttl > 1
GoingTo(h) == {p \in Came : Lives(p) /\ RouteOf(p).next_hop = h}
WaitersFor(h) == {Waiting(p) : p \in GoingTo(h)}
LeavingBy(i) == {p \in Came : Lives(p) /\ RouteOf(p).interface_name = i}
CameBy(i) == {p \in Came : Lives(p) /\ p.from = i}
Report(p) == [type |-> "icmp", about |-> p.id]
OnWire(i) == {Decremented(p) : p \in LeavingBy(i)} \cup {Report(p) : p \in CameBy(i)}
LeavingAt(i) == OnWire(i) \cup Requests \cup Answers

PerInterface(f) == f = [i \in Interfaces |-> f[i]]
InputsRight == /\ PerInterface(m_input_queue)
               /\ \A i \in Interfaces : m_input_queue[i] \in Seq(EnteringAt(i))
SwitchRight == m_switch_queue \in Seq(Entering)
WaitersRight == \A h \in DOMAIN m_arpreq_queue : m_arpreq_queue[h] \in Seq(WaitersFor(h))
OutputsRight == /\ PerInterface(m_output_queue)
                /\ \A i \in Interfaces : m_output_queue[i] \in Seq(LeavingAt(i))
WireRight == /\ PerInterface(wire)
             /\ \A i \in Interfaces : wire[i] \in Seq(OnWire(i))
HistoryRight == /\ arrived \in Seq(IpPackets) /\ Len(arrived) <= MaxPackets
                /\ \A n \in DOMAIN arrived : arrived[n].id = n
GivenUpRight == \A n \in given_up : n \in DOMAIN arrived /\ arrived[n].ip_ttl > 1

PlacesRight == /\ HistoryRight /\ InputsRight /\ SwitchRight /\ WaitersRight
               /\ OutputsRight /\ WireRight /\ GivenUpRight

-----------------------------------------------------------------------------
\* While nothing arrives, the same packets may be at each place; an arrival adds one.
LEMMA SamePlaces ==
  ASSUME UNCHANGED arrived
  PROVE  /\ Came' = Came /\ Entering' = Entering
         /\ \A i : EnteringAt(i)' = EnteringAt(i) /\ WaitersFor(i)' = WaitersFor(i)
         /\ \A i : OnWire(i)' = OnWire(i) /\ LeavingAt(i)' = LeavingAt(i)
         /\ HistoryRight => HistoryRight'
<1>1. Came' = Came
  BY DEF Came
<1>2. Entering' = Entering
  BY <1>1 DEF Entering
<1>3. ASSUME NEW i
      PROVE  /\ EnteringAt(i)' = EnteringAt(i) /\ WaitersFor(i)' = WaitersFor(i)
             /\ OnWire(i)' = OnWire(i) /\ LeavingAt(i)' = LeavingAt(i)
  <2>1. EnteringAt(i)' = EnteringAt(i)
    BY <1>2 DEF EnteringAt
  <2>2. WaitersFor(i)' = WaitersFor(i)
    BY <1>1 DEF WaitersFor, GoingTo
  <2>3. OnWire(i)' = OnWire(i)
    BY <1>1 DEF OnWire, LeavingBy, CameBy
  <2>4. LeavingAt(i)' = LeavingAt(i)
    BY <2>3 DEF LeavingAt
  <2>. QED  BY <2>1, <2>2, <2>3, <2>4
<1>4. HistoryRight => HistoryRight'
  BY DEF HistoryRight
<1>. QED  BY <1>1, <1>2, <1>3, <1>4

\* What may stand at each place after a packet came in.
LEMMA MorePlaces ==
  ASSUME Came \subseteq Came'
  PROVE  /\ Entering \subseteq Entering'
         /\ \A i : EnteringAt(i) \subseteq EnteringAt(i)' /\ WaitersFor(i) \subseteq WaitersFor(i)'
         /\ \A i : OnWire(i) \subseteq OnWire(i)' /\ LeavingAt(i) \subseteq LeavingAt(i)'
<1>1. Entering \subseteq Entering'
  BY DEF Entering
<1>2. ASSUME NEW i
      PROVE  /\ EnteringAt(i) \subseteq EnteringAt(i)' /\ WaitersFor(i) \subseteq WaitersFor(i)'
             /\ OnWire(i) \subseteq OnWire(i)' /\ LeavingAt(i) \subseteq LeavingAt(i)'
  <2>1. EnteringAt(i) \subseteq EnteringAt(i)'
    BY <1>1 DEF EnteringAt
  <2>2. WaitersFor(i) \subseteq WaitersFor(i)'
    BY DEF WaitersFor, GoingTo
  <2>3. OnWire(i) \subseteq OnWire(i)'
    <3>1. LeavingBy(i) \subseteq LeavingBy(i)' /\ CameBy(i) \subseteq CameBy(i)'
      BY DEF LeavingBy, CameBy
    <3>. QED  BY <3>1 DEF OnWire
  <2>4. LeavingAt(i) \subseteq LeavingAt(i)'
    BY <2>3 DEF LeavingAt
  <2>. QED  BY <2>1, <2>2, <2>3, <2>4
<1>. QED  BY <1>1, <1>2

\* Each place keeps what may be there when it is not touched.
LEMMA PlacesKept ==
  ASSUME PlacesRight, Came \subseteq Came'
  PROVE  /\ UNCHANGED m_input_queue => InputsRight'
         /\ UNCHANGED m_switch_queue => SwitchRight'
         /\ UNCHANGED m_arpreq_queue => WaitersRight'
         /\ UNCHANGED m_output_queue => OutputsRight'
         /\ UNCHANGED wire => WireRight'
<1>0. /\ Entering \subseteq Entering'
      /\ \A i : EnteringAt(i) \subseteq EnteringAt(i)' /\ WaitersFor(i) \subseteq WaitersFor(i)'
      /\ \A i : OnWire(i) \subseteq OnWire(i)' /\ LeavingAt(i) \subseteq LeavingAt(i)'
  BY MorePlaces
<1>1. ASSUME UNCHANGED m_input_queue
      PROVE  InputsRight'
  <2>1. ASSUME NEW i \in Interfaces
        PROVE  m_input_queue[i] \in Seq(EnteringAt(i)')
    <3>1. m_input_queue[i] \in Seq(EnteringAt(i)) /\ EnteringAt(i) \subseteq EnteringAt(i)'
      BY <1>0 DEF PlacesRight, InputsRight
    <3>. QED  BY <3>1, SeqMonotonic
  <2>. QED  BY <1>1, <2>1 DEF PlacesRight, InputsRight, PerInterface
<1>2. ASSUME UNCHANGED m_switch_queue
      PROVE  SwitchRight'
  BY <1>0, <1>2, SeqMonotonic DEF PlacesRight, SwitchRight
<1>3. ASSUME UNCHANGED m_arpreq_queue
      PROVE  WaitersRight'
  <2>1. ASSUME NEW h \in DOMAIN m_arpreq_queue
        PROVE  m_arpreq_queue[h] \in Seq(WaitersFor(h)')
    <3>1. m_arpreq_queue[h] \in Seq(WaitersFor(h)) /\ WaitersFor(h) \subseteq WaitersFor(h)'
      BY <1>0 DEF PlacesRight, WaitersRight
    <3>. QED  BY <3>1, SeqMonotonic
  <2>. QED  BY <1>3, <2>1 DEF WaitersRight
<1>4. ASSUME UNCHANGED m_output_queue
      PROVE  OutputsRight'
  <2>1. ASSUME NEW i \in Interfaces
        PROVE  m_output_queue[i] \in Seq(LeavingAt(i)')
    <3>1. m_output_queue[i] \in Seq(LeavingAt(i)) /\ LeavingAt(i) \subseteq LeavingAt(i)'
      BY <1>0 DEF PlacesRight, OutputsRight
    <3>. QED  BY <3>1, SeqMonotonic
  <2>. QED  BY <1>4, <2>1 DEF PlacesRight, OutputsRight, PerInterface
<1>5. ASSUME UNCHANGED wire
      PROVE  WireRight'
  <2>1. ASSUME NEW i \in Interfaces
        PROVE  wire[i] \in Seq(OnWire(i)')
    <3>1. wire[i] \in Seq(OnWire(i)) /\ OnWire(i) \subseteq OnWire(i)'
      BY <1>0 DEF PlacesRight, WireRight
    <3>. QED  BY <3>1, SeqMonotonic
  <2>. QED  BY <1>5, <2>1 DEF PlacesRight, WireRight, PerInterface
<1>. QED  BY <1>1, <1>2, <1>3, <1>4, <1>5

\* A packet pushed to an input queue, and one added to an output queue.
LEMMA PushRight ==
  ASSUME PlacesRight, Came \subseteq Came', NEW p \in Entering', p.from \in Interfaces, Push(p)
  PROVE  InputsRight'
<1>1. PerInterface(m_input_queue)'
  BY DEF Push, PlacesRight, InputsRight, PerInterface
<1>2. ASSUME NEW i \in Interfaces
      PROVE  m_input_queue'[i] \in Seq(EnteringAt(i)')
  <2>1. m_input_queue[i] \in Seq(EnteringAt(i)) /\ EnteringAt(i) \subseteq EnteringAt(i)'
    BY MorePlaces DEF PlacesRight, InputsRight
  <2>2. m_input_queue[i] \in Seq(EnteringAt(i)')
    BY <2>1, SeqMonotonic
  <2>3. CASE i = p.from
    <3>1. p \in EnteringAt(i)'
      BY <2>3 DEF EnteringAt
    <3>2. m_input_queue'[i] = Append(m_input_queue[i], p)
      BY <2>3 DEF Push, PlacesRight, InputsRight, PerInterface
    <3>. QED  BY <2>2, <3>1, <3>2, AppendProperties
  <2>4. CASE i # p.from
    <3>1. m_input_queue'[i] = m_input_queue[i]
      BY <2>4 DEF Push, PlacesRight, InputsRight, PerInterface
    <3>. QED  BY <2>2, <3>1
  <2>. QED  BY <2>3, <2>4
<1>. QED  BY <1>1, <1>2 DEF InputsRight

\* A packet added to the output queue of an interface it may leave by.
LEMMA AddRight ==
  ASSUME PlacesRight, UNCHANGED arrived, NEW i \in Interfaces, NEW p \in LeavingAt(i),
         AddPacketToOutputQueue(p, i)
  PROVE  OutputsRight'
<1>1. PerInterface(m_output_queue)'
  BY DEF AddPacketToOutputQueue, PlacesRight, OutputsRight, PerInterface
<1>2. ASSUME NEW j \in Interfaces
      PROVE  m_output_queue'[j] \in Seq(LeavingAt(j)')
  <2>1. m_output_queue[j] \in Seq(LeavingAt(j)) /\ LeavingAt(j)' = LeavingAt(j)
    BY SamePlaces DEF PlacesRight, OutputsRight
  <2>2. CASE j = i
    <3>1. m_output_queue'[j] = Append(m_output_queue[j], p)
      BY <2>2 DEF AddPacketToOutputQueue, PlacesRight, OutputsRight, PerInterface
    <3>2. Append(m_output_queue[j], p) \in Seq(LeavingAt(j))
      BY <2>1, <2>2, AppendProperties
    <3>. QED  BY <2>1, <3>1, <3>2
  <2>3. CASE j # i
    <3>1. m_output_queue'[j] = m_output_queue[j]
      BY <2>3 DEF AddPacketToOutputQueue, PlacesRight, OutputsRight, PerInterface
    <3>. QED  BY <2>1, <3>1
  <2>. QED  BY <2>2, <2>3
<1>. QED  BY <1>1, <1>2 DEF OutputsRight

\* What comes off the switch queue, and what that says of its route.
LEMMA PoppedRight ==
  ASSUME PlacesRight, NEW type, Switching(type)
  PROVE  popped \in Entering /\ popped.type = type /\ SwitchRight' /\ InputsRight' /\ WireRight'
         /\ HistoryRight' /\ GivenUpRight' /\ UNCHANGED arrived
         /\ m_switch_queue # <<>> /\ m_switch_queue' = Tail(m_switch_queue)
<1>1. /\ m_switch_queue # <<>> /\ m_switch_queue' = Tail(m_switch_queue)
      /\ UNCHANGED <<m_input_queue, wire, arrived, given_up>> /\ popped.type = type
  BY DEF Switching, wireVars
<1>2. m_switch_queue \in Seq(Entering)
  BY DEF PlacesRight, SwitchRight
<1>3. Head(m_switch_queue) \in Entering /\ Tail(m_switch_queue) \in Seq(Entering)
  BY <1>1, <1>2, HeadTailProperties
<1>4. Entering' = Entering /\ Came' = Came /\ HistoryRight'
  BY <1>1, SamePlaces DEF PlacesRight
<1>5. InputsRight' /\ WireRight'
  BY <1>1, <1>4, PlacesKept
<1>6. GivenUpRight'
  BY <1>1 DEF PlacesRight, GivenUpRight
<1>. QED  BY <1>1, <1>3, <1>4, <1>5, <1>6 DEF SwitchRight, popped

\* The packets that came in, each found under its number.
LEMMA CameType ==
  ASSUME PlacesRight, NEW p \in Came
  PROVE  /\ p \in IpPackets /\ p.type = "ip" /\ p.from \in Interfaces /\ p.dst \in Destinations
         /\ p.id \in DOMAIN arrived /\ arrived[p.id] = p /\ p.ip_ttl \in 0..255 /\ p.id \in 1..MaxPackets
<1>1. PICK n \in DOMAIN arrived : p = arrived[n]
  BY DEF Came
<1>2. arrived[n] \in IpPackets /\ arrived[n].id = n
  BY <1>1, ElementOfSeq, LenProperties DEF PlacesRight, HistoryRight
<1>. QED  BY <1>1, <1>2 DEF IpPackets

\* Only packets that came in have the type ip at a place where packets enter.
LEMMA EnteringTypes ==
  ASSUME PlacesRight, NEW p \in Entering
  PROVE  /\ p.type = "ip" => p \in Came
         /\ p.type = "request" => p \in ArpRequests
         /\ p.type = "reply" => p \in ArpReplies
<1>1. \A q \in Came : q.type = "ip"
  BY CameType
<1>2. (\A q \in ArpRequests : q.type = "request") /\ \A q \in ArpReplies : q.type = "reply"
  BY DEF ArpRequests, ArpReplies
<1>3. p \in Came \/ p \in ArpRequests \/ p \in ArpReplies
  BY DEF Entering
<1>. QED  BY <1>1, <1>2, <1>3

\* The route of a packet: its interface is the one of its next hop.
LEMMA RouteRight ==
  ASSUME NEW p \in IpPackets
  PROVE  /\ RouteOf(p) \in Routes
         /\ RouteOf(p).next_hop \in Hops /\ RouteOf(p).interface_name \in Interfaces
         /\ InterfaceTo(RouteOf(p).next_hop) = RouteOf(p).interface_name
<1> PICK d : d = p.dst
  OBVIOUS
<1> PICK r : r = RoutingTable[d]
  OBVIOUS
<1>1. d \in Destinations /\ RouteOf(p) = r
  BY DEF IpPackets, RouteOf
<1>2. r \in Routes
  BY <1>1, RoutingTableAssumption
<1>3. /\ r.next_hop \in Hops /\ r.interface_name \in Interfaces
      /\ r = [next_hop |-> r.next_hop, interface_name |-> r.interface_name]
  BY <1>2 DEF Routes
<1>4. ASSUME NEW i \in Interfaces, NEW e \in Destinations,
             RoutingTable[e] = [next_hop |-> r.next_hop, interface_name |-> i]
      PROVE  i = r.interface_name
  <2>1. RoutingTable[e].next_hop = r.next_hop /\ RoutingTable[e].interface_name = i
    BY <1>4
  <2>2. RoutingTable[e] = r
    BY <1>1, <1>2, <1>4, <2>1, OneInterfacePerHop
  <2>. QED  BY <2>1, <2>2
<1>5. InterfaceTo(r.next_hop) = r.interface_name
  BY <1>1, <1>2, <1>3, <1>4 DEF InterfaceTo
<1>. QED  BY <1>1, <1>2, <1>3, <1>5

-----------------------------------------------------------------------------
(* Every step keeps each packet where it may be.                           *)

\* At first every place is empty.
LEMMA InitPlaces == Init => PlacesRight
<1> SUFFICES ASSUME Init
             PROVE  PlacesRight
  OBVIOUS
<1>1. HistoryRight
  BY LimitAssumption DEF Init, HistoryRight
<1>2. InputsRight /\ SwitchRight
  BY DEF Init, InputsRight, SwitchRight, PerInterface
<1>3. WaitersRight
  BY DEF Init, WaitersRight, Empty
<1>4. OutputsRight /\ WireRight
  BY DEF Init, OutputsRight, WireRight, PerInterface
<1>5. GivenUpRight
  BY DEF Init, GivenUpRight
<1>. QED  BY <1>1, <1>2, <1>3, <1>4, <1>5 DEF PlacesRight

\* The packet that comes in, and what it adds to the history.
Arrival(from, dst, ttl) == [type |-> "ip", id |-> Len(arrived) + 1, from |-> from,
                            dst |-> dst, ip_ttl |-> ttl]

Arrives(p) == /\ Push(p) /\ p \in IpPackets /\ p.id = Len(arrived) + 1
              /\ Len(arrived) \in Nat /\ DOMAIN arrived = 1..Len(arrived)
              /\ Len(arrived)' = Len(arrived) + 1 /\ DOMAIN arrived' = 1..(Len(arrived) + 1)
              /\ arrived'[Len(arrived) + 1] = p
              /\ \A m \in DOMAIN arrived : m \in DOMAIN arrived' /\ arrived'[m] = arrived[m]
              /\ Came \subseteq Came' /\ p \in Came' /\ HistoryRight'
              /\ UNCHANGED <<m_switch_queue, m_output_queue, m_arpreq_queue, wire, given_up>>

LEMMA ArrivalFacts ==
  ASSUME PlacesRight, NEW from \in Interfaces, NEW dst \in Destinations, NEW ttl \in 0..255,
         PacketArrives(from, dst, ttl)
  PROVE  Arrives(Arrival(from, dst, ttl))
<1> PICK p : p = Arrival(from, dst, ttl)
  OBVIOUS
<1> DEFINE n == Len(arrived) + 1
<1>1. /\ Len(arrived) < MaxPackets /\ Push(p) /\ arrived' = Append(arrived, p)
      /\ UNCHANGED <<m_switch_queue, m_output_queue, m_arpreq_queue, wire, given_up>>
  BY DEF PacketArrives, arpVars, Arrival
<1>2. arrived \in Seq(IpPackets) /\ Len(arrived) \in Nat /\ MaxPackets \in Nat
  BY LimitAssumption DEF PlacesRight, HistoryRight
<1>3. n \in 1..MaxPackets /\ p \in IpPackets /\ p.id = n /\ p.from = from
  BY <1>1, <1>2 DEF IpPackets, Arrival
<1>4. /\ arrived' \in Seq(IpPackets) /\ Len(arrived') = n /\ DOMAIN arrived' = 1..n
      /\ DOMAIN arrived = 1..Len(arrived)
      /\ arrived'[n] = p /\ \A m \in 1..Len(arrived) : arrived'[m] = arrived[m]
  <2>1. /\ Append(arrived, p) \in Seq(IpPackets) /\ Len(Append(arrived, p)) = n
        /\ \A m \in 1..Len(arrived) : Append(arrived, p)[m] = arrived[m]
        /\ Append(arrived, p)[n] = p
    BY <1>2, <1>3, AppendProperties
  <2>. QED  BY <1>1, <1>2, <2>1
<1>5. \A m \in DOMAIN arrived : m \in DOMAIN arrived' /\ arrived'[m] = arrived[m]
  BY <1>2, <1>4
<1>6. Came \subseteq Came' /\ p \in Came'
  BY <1>2, <1>4, <1>5 DEF Came
<1>7. HistoryRight'
  <2>1. \A m \in 1..n : m = n \/ m \in DOMAIN arrived
    BY <1>2, <1>4
  <2>2. \A m \in DOMAIN arrived : arrived[m].id = m
    BY DEF PlacesRight, HistoryRight
  <2>3. \A m \in DOMAIN arrived' : arrived'[m].id = m
    BY <1>3, <1>4, <1>5, <2>1, <2>2
  <2>. QED  BY <1>2, <1>3, <1>4, <2>3 DEF HistoryRight
<1>8. Arrives(p)
  BY <1>1, <1>2, <1>3, <1>4, <1>5, <1>6, <1>7 DEF Arrives
<1>. QED  BY <1>8

\* The neighbours: packets, requests and replies that come in.
LEMMA ArrivalPlaces ==
  ASSUME PlacesRight, NEW from \in Interfaces, NEW dst \in Destinations, NEW ttl \in 0..255,
         PacketArrives(from, dst, ttl)
  PROVE  PlacesRight'
<1>0. Arrives(Arrival(from, dst, ttl))
  BY ArrivalFacts
<1> PICK p : Arrives(p)
  BY ONLY <1>0
<1>1. /\ Push(p) /\ p.from \in Interfaces /\ Came \subseteq Came' /\ p \in Came' /\ HistoryRight'
      /\ \A m \in DOMAIN arrived : m \in DOMAIN arrived' /\ arrived'[m] = arrived[m]
      /\ UNCHANGED <<m_switch_queue, m_output_queue, m_arpreq_queue, wire, given_up>>
  BY DEF Arrives, IpPackets
<1>2. InputsRight'
  BY <1>1, PushRight DEF Entering
<1>3. SwitchRight' /\ WaitersRight' /\ OutputsRight' /\ WireRight'
  BY <1>1, PlacesKept
<1>4. GivenUpRight'
  BY <1>1 DEF PlacesRight, GivenUpRight
<1>. QED  BY <1>1, <1>2, <1>3, <1>4 DEF PlacesRight

LEMMA NeighbourPlaces ==
  ASSUME PlacesRight, NEW p \in ArpRequests \cup ArpReplies, p.from \in Interfaces, Push(p),
         UNCHANGED <<m_switch_queue, m_output_queue, m_arpreq_queue, wire, arrived, given_up>>
  PROVE  PlacesRight'
<1>1. Came' = Came /\ Entering' = Entering /\ HistoryRight'
  BY SamePlaces DEF PlacesRight
<1>2. InputsRight'
  BY <1>1, PushRight DEF Entering
<1>3. SwitchRight' /\ WaitersRight' /\ OutputsRight' /\ WireRight'
  BY <1>1, PlacesKept
<1>. QED  BY <1>1, <1>2, <1>3 DEF PlacesRight, GivenUpRight

LEMMA NetworkPlaces ==
  ASSUME PlacesRight, Network
  PROVE  PlacesRight'
<1>1. CASE \E flow \in Flows, ttl \in TTLs : PacketArrives(flow[1], flow[2], ttl)
  <2>1. PICK flow \in Flows, ttl \in TTLs : PacketArrives(flow[1], flow[2], ttl)
    BY <1>1
  <2>2. flow[1] \in Interfaces /\ flow[2] \in Destinations /\ ttl \in 0..255
    BY <2>1, LimitAssumption
  <2>. QED  BY <2>1, <2>2, ArrivalPlaces
<1>2. CASE \E i \in Neighbours : RequestArrives(i)
  <2>1. PICK i \in Neighbours : RequestArrives(i)
    BY <1>2
  <2> PICK p : p = [type |-> "request", from |-> i]
    OBVIOUS
  <2>2. p \in ArpRequests /\ p.from \in Interfaces
    BY <2>1, LimitAssumption DEF ArpRequests
  <2>3. /\ Push(p)
        /\ UNCHANGED <<m_switch_queue, m_output_queue, m_arpreq_queue, wire, arrived, given_up>>
    BY <2>1 DEF RequestArrives, arpVars, wireVars
  <2>. QED  BY <2>2, <2>3, NeighbourPlaces
<1>3. CASE \E h \in Hops : HopAnswers(h)
  <2>1. PICK h \in Hops : HopAnswers(h)
    BY <1>3
  <2> PICK p : p = [type |-> "reply", from |-> InterfaceTo(h), ar_sip |-> h]
    OBVIOUS
  <2>2. p \in ArpReplies /\ p.from \in Interfaces
    BY <2>1, InterfaceToType DEF ArpReplies
  <2>3. /\ Push(p)
        /\ UNCHANGED <<m_switch_queue, m_output_queue, m_arpreq_queue, wire, arrived, given_up>>
    BY <2>1 DEF HopAnswers, arpVars
  <2>. QED  BY <2>2, <2>3, NeighbourPlaces
<1>. QED  BY <1>1, <1>2, <1>3 DEF Network

\* The intake moves an input queue behind the switch queue.
LEMMA IntakePlaces ==
  ASSUME PlacesRight, NEW i \in Interfaces, Intake(i)
  PROVE  PlacesRight'
<1>1. /\ m_switch_queue' = m_switch_queue \o m_input_queue[i]
      /\ m_input_queue' = [m_input_queue EXCEPT ![i] = <<>>]
      /\ UNCHANGED <<m_output_queue, m_arpreq_queue, wire, arrived, given_up>>
  BY DEF Intake, arpVars, wireVars
<1>2. /\ Came' = Came /\ Entering' = Entering /\ HistoryRight'
      /\ \A j : EnteringAt(j)' = EnteringAt(j)
  BY <1>1, SamePlaces DEF PlacesRight
<1>3. SwitchRight'
  <2>1. m_input_queue[i] \in Seq(EnteringAt(i)) /\ EnteringAt(i) \subseteq Entering
    BY DEF PlacesRight, InputsRight, EnteringAt
  <2>2. m_input_queue[i] \in Seq(Entering) /\ m_switch_queue \in Seq(Entering)
    BY <2>1, SeqMonotonic DEF PlacesRight, SwitchRight
  <2>. QED  BY <1>1, <1>2, <2>2, ConcatProperties DEF SwitchRight
<1>4. InputsRight'
  BY <1>1, <1>2 DEF PlacesRight, InputsRight, PerInterface
<1>5. WaitersRight' /\ OutputsRight' /\ WireRight'
  BY <1>1, <1>2, PlacesKept
<1>. QED  BY <1>1, <1>2, <1>3, <1>4, <1>5 DEF PlacesRight, GivenUpRight

\* A packet that is routed, and what becomes of it.
LEMMA RoutedRight ==
  ASSUME PlacesRight, NEW p \in Came, Lives(p)
  PROVE  /\ p \in IpPackets /\ RouteOf(p).next_hop \in Hops /\ RouteOf(p).interface_name \in Interfaces
         /\ p \in GoingTo(RouteOf(p).next_hop) /\ Waiting(p) \in WaitersFor(RouteOf(p).next_hop)
         /\ p \in LeavingBy(RouteOf(p).interface_name)
         /\ Decremented(p) \in LeavingAt(RouteOf(p).interface_name)
<1>1. p \in IpPackets
  BY CameType
<1>2. RouteOf(p).next_hop \in Hops /\ RouteOf(p).interface_name \in Interfaces
  BY <1>1, RouteRight
<1>3. p \in GoingTo(RouteOf(p).next_hop) /\ p \in LeavingBy(RouteOf(p).interface_name)
  BY DEF GoingTo, LeavingBy
<1>. QED  BY <1>1, <1>2, <1>3 DEF WaitersFor, LeavingAt, OnWire

ReleasedBy(h, i) == {Decremented(p) : p \in {q \in GoingTo(h) : RouteOf(q).interface_name = i}}

\* A queue of packets that wait, and what is released of it to one interface.
LEMMA ReleasedRight ==
  ASSUME NEW h, NEW waiting \in Seq(WaitersFor(h)), NEW i
  PROVE  /\ For(i, waiting) \in Seq({w \in WaitersFor(h) : w.iface = i})
         /\ Released(For(i, waiting)) \in Seq(ReleasedBy(h, i))
         /\ Len(Released(For(i, waiting))) = Len(For(i, waiting))
         /\ \A k \in 1..Len(For(i, waiting)) :
              Released(For(i, waiting))[k] = Decremented(For(i, waiting)[k].packet)
<1> PICK places : places = {k \in DOMAIN waiting : waiting[k].iface = i}
  OBVIOUS
<1> PICK these : these = {w \in WaitersFor(h) : w.iface = i}
  OBVIOUS
<1> PICK out : out = ReleasedBy(h, i)
  OBVIOUS
<1> PICK sel : sel = For(i, waiting)
  OBVIOUS
<1>1. Len(waiting) \in Nat /\ DOMAIN waiting = 1..Len(waiting)
  OBVIOUS
<1>2. Within(places, Len(waiting))
  BY <1>1 DEF Within
<1>3. AllIn(waiting, places, these)
  BY <1>1, ElementOfSeq DEF AllIn
<1>4. sel \in Seq(these)
  BY <1>2, <1>3, AtType DEF For
<1> PICK n : n = Len(sel)
  OBVIOUS
<1>5. n \in Nat /\ \A k \in 1..n : sel[k] \in these
  BY <1>4
<1>6. \A w \in these : Decremented(w.packet) \in out
  <2>1. TAKE w \in these
  <2>2. PICK p \in GoingTo(h) : w = Waiting(p)
    BY DEF WaitersFor
  <2>3. w.packet = p /\ RouteOf(p).interface_name = i
    BY <2>2 DEF Waiting
  <2>. QED  BY <2>2, <2>3 DEF ReleasedBy
<1>7. Released(sel) = [k \in 1..n |-> Decremented(sel[k].packet)]
  BY DEF Released
<1>8. Released(sel) \in Seq(out) /\ Len(Released(sel)) = n
  <2>1. [k \in 1..n |-> Decremented(sel[k].packet)] \in [1..n -> out]
    BY <1>5, <1>6
  <2>. QED  BY ONLY <1>5, <1>7, <2>1, ListOf
<1>. QED  BY <1>4, <1>7, <1>8

\* handlePacket, but for a packet that waits and a reply that releases them.
LEMMA SwitchingPlaces ==
  ASSUME PlacesRight,
         TTLExpired \/ LPMMiss \/ CacheHit \/ HandleArpRequestToMe \/ UnexpectedArpReply
  PROVE  PlacesRight'
<1>1. PICK type \in {"ip", "request", "reply"} : Switching(type) /\ UNCHANGED m_arpreq_queue
  BY DEF TTLExpired, LPMMiss, CacheHit, HandleArpRequestToMe, UnexpectedArpReply, arpVars
<1>2. /\ popped \in Entering /\ popped.type = type /\ SwitchRight' /\ InputsRight' /\ WireRight'
      /\ HistoryRight' /\ GivenUpRight' /\ UNCHANGED arrived
  BY <1>1, PoppedRight
<1>3. Came' = Came
  BY <1>2, SamePlaces
<1>4. WaitersRight'
  BY <1>1, <1>3, PlacesKept
<1>5. OutputsRight'
  <2>1. CASE TTLExpired \/ UnexpectedArpReply
    BY <1>3, <2>1, PlacesKept DEF TTLExpired, UnexpectedArpReply
  <2>2. CASE LPMMiss
    <3>1. /\ popped.type = "ip" /\ popped.ip_ttl > 1
          /\ AddPacketToOutputQueue(Report(popped), popped.from)
      BY <2>2 DEF LPMMiss, Switching, Report
    <3>2. popped \in Came
      BY <1>2, <3>1, EnteringTypes
    <3>3. popped.from \in Interfaces
      BY <3>2, CameType
    <3>4. Report(popped) \in LeavingAt(popped.from)
      BY <3>1, <3>2 DEF LeavingAt, OnWire, CameBy, Lives
    <3>. QED  BY <1>2, <3>1, <3>3, <3>4, AddRight
  <2>3. CASE CacheHit
    <3>1. /\ popped.type = "ip" /\ Lives(popped)
          /\ AddPacketToOutputQueue(Decremented(popped), RouteOf(popped).interface_name)
      BY <2>3 DEF CacheHit, Switching, LPMHit, Lives
    <3>2. popped \in Came
      BY <1>2, <3>1, EnteringTypes
    <3>3. /\ RouteOf(popped).interface_name \in Interfaces
          /\ Decremented(popped) \in LeavingAt(RouteOf(popped).interface_name)
      BY <3>1, <3>2, RoutedRight
    <3>. QED  BY <1>2, <3>1, <3>3, AddRight
  <2>4. CASE HandleArpRequestToMe
    <3>1. /\ popped.type = "request"
          /\ AddPacketToOutputQueue([type |-> "answer"], popped.from)
      BY <2>4 DEF HandleArpRequestToMe, Switching
    <3>2. popped \in ArpRequests
      BY <1>2, <3>1, EnteringTypes
    <3>3. popped.from \in Interfaces
      BY <3>2 DEF ArpRequests
    <3>4. [type |-> "answer"] \in LeavingAt(popped.from)
      BY DEF LeavingAt, Answers
    <3>. QED  BY <1>2, <3>1, <3>3, <3>4, AddRight
  <2>. QED  BY <2>1, <2>2, <2>3, <2>4
<1>. QED  BY <1>2, <1>4, <1>5 DEF PlacesRight

\* arpCacheQueueReq: a packet joins those that wait for its next hop.
LEMMA CacheMissPlaces ==
  ASSUME PlacesRight, CacheMiss
  PROVE  PlacesRight'
<1> DEFINE hop == RouteOf(popped).next_hop
           w == Waiting(popped)
<1>1. /\ Switching("ip") /\ Lives(popped) /\ ArpCacheQueueReq(hop, popped)
      /\ UNCHANGED m_output_queue
  BY DEF CacheMiss, LPMHit, Lives
<1>2. /\ popped \in Entering /\ popped.type = "ip" /\ SwitchRight' /\ InputsRight' /\ WireRight'
      /\ HistoryRight' /\ GivenUpRight' /\ UNCHANGED arrived
  BY <1>1, PoppedRight
<1>3. Came' = Came /\ \A h : WaitersFor(h)' = WaitersFor(h)
  BY <1>2, SamePlaces
<1>4. OutputsRight'
  BY <1>1, <1>3, PlacesKept
<1>5. w \in WaitersFor(hop)
  BY <1>1, <1>2, EnteringTypes, RoutedRight
<1>6. WaitersRight'
  <2> HIDE DEF hop, w
  <2>1. CASE hop \in DOMAIN m_arpreq_queue
    <3>1. m_arpreq_queue' = [m_arpreq_queue EXCEPT ![hop] = Append(@, w)]
      BY <1>1, <2>1 DEF ArpCacheQueueReq, w
    <3>2. m_arpreq_queue[hop] \in Seq(WaitersFor(hop))
      BY <2>1 DEF PlacesRight, WaitersRight
    <3>3. Append(m_arpreq_queue[hop], w) \in Seq(WaitersFor(hop))
      BY <1>5, <3>2, AppendProperties
    <3>4. \A h \in DOMAIN m_arpreq_queue : h # hop => m_arpreq_queue'[h] = m_arpreq_queue[h]
      BY <3>1
    <3>5. m_arpreq_queue'[hop] = Append(m_arpreq_queue[hop], w) /\ DOMAIN m_arpreq_queue' = DOMAIN m_arpreq_queue
      BY <2>1, <3>1
    <3>. QED  BY <1>3, <3>3, <3>4, <3>5 DEF PlacesRight, WaitersRight
  <2>2. CASE hop \notin DOMAIN m_arpreq_queue
    <3>1. m_arpreq_queue' = Put(m_arpreq_queue, hop, <<w>>)
      BY <1>1, <2>2 DEF ArpCacheQueueReq, w
    <3>2. <<w>> \in Seq(WaitersFor(hop))
      BY <1>5
    <3>3. \A h \in DOMAIN m_arpreq_queue' :
            \/ h = hop /\ m_arpreq_queue'[h] = <<w>>
            \/ h \in DOMAIN m_arpreq_queue /\ m_arpreq_queue'[h] = m_arpreq_queue[h]
      BY <3>1 DEF Put
    <3>. QED  BY <1>3, <3>2, <3>3 DEF PlacesRight, WaitersRight
  <2>. QED  BY <2>1, <2>2
<1>. QED  BY <1>2, <1>4, <1>6 DEF PlacesRight

\* handleArpReplyToMe: the packets that waited go out, each where it should.
LEMMA ReplyPlaces ==
  ASSUME PlacesRight, HandleArpReplyToMe
  PROVE  PlacesRight'
<1> PICK hop : hop = popped.ar_sip
  OBVIOUS
<1> PICK waiting : waiting = m_arpreq_queue[hop]
  OBVIOUS
<1>1. /\ Switching("reply") /\ hop \in DOMAIN m_arpreq_queue
      /\ m_output_queue' = [i \in Interfaces |-> m_output_queue[i] \o Released(For(i, waiting))]
      /\ m_arpreq_queue' = Erase(m_arpreq_queue, hop)
  BY DEF HandleArpReplyToMe
<1>2. /\ SwitchRight' /\ InputsRight' /\ WireRight'
      /\ HistoryRight' /\ GivenUpRight' /\ UNCHANGED arrived
  BY <1>1, PoppedRight
<1>3. /\ \A h : WaitersFor(h)' = WaitersFor(h)
      /\ \A i : LeavingAt(i)' = LeavingAt(i)
  BY <1>2, SamePlaces
<1>4. WaitersRight'
  BY <1>1, <1>3 DEF PlacesRight, WaitersRight, Erase
<1>5. waiting \in Seq(WaitersFor(hop))
  BY <1>1 DEF PlacesRight, WaitersRight
<1>6. ASSUME NEW i \in Interfaces
      PROVE  m_output_queue'[i] \in Seq(LeavingAt(i))
  <2> PICK more : more = Released(For(i, waiting))
    OBVIOUS
  <2>0. Released(For(i, waiting)) \in Seq(ReleasedBy(hop, i))
    BY ONLY <1>5, ReleasedRight
  <2>1. more \in Seq(ReleasedBy(hop, i))
    BY <2>0
  <2>2. ReleasedBy(hop, i) \subseteq LeavingAt(i)
    BY DEF ReleasedBy, GoingTo, LeavingAt, OnWire, LeavingBy
  <2>3. more \in Seq(LeavingAt(i)) /\ m_output_queue[i] \in Seq(LeavingAt(i))
    BY <2>1, <2>2, SeqMonotonic DEF PlacesRight, OutputsRight
  <2>4. m_output_queue'[i] = m_output_queue[i] \o more
    BY <1>1
  <2>. QED  BY ONLY <2>3, <2>4, ConcatProperties
<1>7. OutputsRight'
  BY <1>1, <1>3, <1>6 DEF OutputsRight, PerInterface
<1>. QED  BY <1>2, <1>4, <1>7 DEF PlacesRight

\* sweepArpReqs: a request goes out, or the packets that wait are dropped.
LEMMA SweepPlaces ==
  ASSUME PlacesRight, NEW hop \in DOMAIN m_arpreq_queue, hop \in Hops,
         TooEarly(hop) \/ SendArpRequest(hop) \/ GiveUp(hop)
  PROVE  PlacesRight'
<1>1. UNCHANGED <<m_input_queue, m_switch_queue, wire, arrived>>
  BY DEF TooEarly, SendArpRequest, GiveUp, Sweeping, wireVars
<1>2. Came' = Came /\ HistoryRight' /\ \A h : WaitersFor(h)' = WaitersFor(h)
  BY <1>1, SamePlaces DEF PlacesRight
<1>3. InputsRight' /\ SwitchRight' /\ WireRight'
  BY <1>1, <1>2, PlacesKept
<1>4. CASE TooEarly(hop)
  BY <1>1, <1>2, <1>3, <1>4, PlacesKept DEF TooEarly, PlacesRight, GivenUpRight
<1>5. CASE SendArpRequest(hop)
  <2> PICK p : p = [type |-> "ask", ar_tip |-> hop]
    OBVIOUS
  <2> PICK i : i = m_arpreq_times_list[hop].iface
    OBVIOUS
  <2>1. AddPacketToOutputQueue(p, i) /\ UNCHANGED <<m_arpreq_queue, given_up>>
    BY <1>5 DEF SendArpRequest
  <2>2. WaitersRight'
    BY <1>2, <2>1, PlacesKept
  <2>3. \A j : p \in LeavingAt(j)
    BY DEF LeavingAt, Requests
  <2>4. OutputsRight'
    <3>1. CASE i \in Interfaces
      BY <1>1, <2>1, <2>3, <3>1, AddRight
    <3>2. CASE i \notin Interfaces
      <4>1. UNCHANGED m_output_queue
        BY <2>1, <3>2 DEF AddPacketToOutputQueue, PlacesRight, OutputsRight, PerInterface
      <4>. QED  BY <1>2, <4>1, PlacesKept
    <3>. QED  BY <3>1, <3>2
  <2>. QED  BY <1>1, <1>2, <1>3, <2>1, <2>2, <2>4 DEF PlacesRight, GivenUpRight
<1>6. CASE GiveUp(hop)
  <2>1. /\ given_up' = given_up \cup WaitingIds(hop)
        /\ m_arpreq_queue' = Erase(m_arpreq_queue, hop) /\ UNCHANGED m_output_queue
    BY <1>6 DEF GiveUp
  <2>2. WaitersRight'
    BY <1>2, <2>1 DEF PlacesRight, WaitersRight, Erase
  <2>3. OutputsRight'
    BY <1>2, <2>1, PlacesKept
  <2>4. ASSUME NEW n \in WaitingIds(hop)
        PROVE  n \in DOMAIN arrived /\ arrived[n].ip_ttl > 1
    <3>1. PICK k \in DOMAIN m_arpreq_queue[hop] : n = m_arpreq_queue[hop][k].packet.id
      BY DEF WaitingIds
    <3>2. m_arpreq_queue[hop][k] \in WaitersFor(hop)
      BY ElementOfSeq, LenProperties DEF PlacesRight, WaitersRight
    <3>3. PICK p \in GoingTo(hop) : m_arpreq_queue[hop][k] = Waiting(p)
      BY <3>2 DEF WaitersFor
    <3>4. p \in Came /\ p.ip_ttl > 1 /\ n = p.id
      BY <3>1, <3>3 DEF GoingTo, Lives, Waiting
    <3>. QED  BY <3>4, CameType
  <2>5. GivenUpRight'
    BY <1>1, <2>1, <2>4 DEF PlacesRight, GivenUpRight
  <2>. QED  BY <1>2, <1>3, <2>2, <2>3, <2>5 DEF PlacesRight
<1>. QED  BY <1>4, <1>5, <1>6

\* What leaves is what stood in the output queues, less the ARP packets.
LEMMA WithoutArpRight ==
  ASSUME NEW i, NEW queue \in Seq(LeavingAt(i)), PlacesRight
  PROVE  WithoutArp(queue) \in Seq(OnWire(i))
<1> PICK places : places = {k \in DOMAIN queue : queue[k].type \in {"ip", "icmp"}}
  OBVIOUS
<1>1. Within(places, Len(queue))
  BY DEF Within
<1>2. \A p \in LeavingAt(i) : p.type \in {"ip", "icmp"} => p \in OnWire(i)
  BY DEF LeavingAt, Requests, Answers
<1>3. AllIn(queue, places, OnWire(i))
  BY <1>2, ElementOfSeq, LenProperties DEF AllIn
<1>. QED  BY <1>1, <1>3, AtType DEF WithoutArp

\* sendToTheNextHop: what is not ARP goes from the output queues to the wire.
LEMMA SendPlaces ==
  ASSUME PlacesRight, SendToTheNextHop
  PROVE  PlacesRight'
<1>1. /\ m_output_queue' = [i \in Interfaces |-> <<>>]
      /\ wire' = [i \in Interfaces |-> wire[i] \o WithoutArp(m_output_queue[i])]
      /\ UNCHANGED <<m_input_queue, m_switch_queue, m_arpreq_queue, arrived, given_up>>
  BY DEF SendToTheNextHop, arpVars
<1>2. Came' = Came /\ HistoryRight' /\ \A i : OnWire(i)' = OnWire(i)
  BY <1>1, SamePlaces DEF PlacesRight
<1>3. InputsRight' /\ SwitchRight' /\ WaitersRight'
  BY <1>1, <1>2, PlacesKept
<1>4. OutputsRight'
  BY <1>1 DEF OutputsRight, PerInterface
<1>5. ASSUME NEW i \in Interfaces
      PROVE  wire'[i] \in Seq(OnWire(i))
  <2> PICK more : more = WithoutArp(m_output_queue[i])
    OBVIOUS
  <2>1. more \in Seq(OnWire(i)) /\ wire[i] \in Seq(OnWire(i))
    BY WithoutArpRight DEF PlacesRight, OutputsRight, WireRight
  <2>2. wire'[i] = wire[i] \o more
    BY <1>1
  <2>. QED  BY ONLY <2>1, <2>2, ConcatProperties
<1>6. WireRight'
  BY <1>1, <1>2, <1>5 DEF WireRight, PerInterface
<1>. QED  BY <1>1, <1>2, <1>3, <1>4, <1>6 DEF PlacesRight, GivenUpRight

\* The steps that touch no queue.
LEMMA OtherPlaces ==
  ASSUME PlacesRight,
         \/ Tick \/ (\E h \in Hops : CleanEntry(h))
         \/ EndCleaning \/ EndIntake \/ EndSwitching \/ EndSweeping
         \/ RouteChange \/ UNCHANGED vars
  PROVE  PlacesRight'
<1>1. UNCHANGED <<m_input_queue, m_switch_queue, m_output_queue, m_arpreq_queue, wire, arrived, given_up>>
  BY DEF RouteChange, SetInUse, Tick, CleanEntry, EndCleaning, EndIntake, EndSwitching, EndSweeping, vars, queueVars, arpVars, wireVars
<1>2. Came' = Came /\ HistoryRight'
  BY <1>1, SamePlaces DEF PlacesRight
<1>. QED  BY <1>1, <1>2, PlacesKept DEF PlacesRight, GivenUpRight

-----------------------------------------------------------------------------
(* The tables and the loop, and with them the types.                       *)

TablesRight ==
  /\ pc \in {"cleaning", "intake", "switching", "sweeping", "sending"}
  /\ to_visit \subseteq Hops \cup Interfaces
  /\ DOMAIN m_arp_cache \subseteq Hops
  /\ \A h \in DOMAIN m_arp_cache : m_arp_cache[h] \in 0..(CacheExpired + 1)
  /\ DOMAIN m_arpreq_queue \subseteq Hops
  /\ DOMAIN m_arpreq_times_list \subseteq Hops
  /\ \A h \in DOMAIN m_arpreq_times_list :
       m_arpreq_times_list[h] \in [times_sent : 0..(MaxTimesSent + 1),
                                   elapsed : -1..(RetryAfter + 1), iface : Interfaces]
  /\ aborted \in BOOLEAN
  /\ asked \in [Hops -> Nat]
  \* While it runs, the loop of sweepArpReqs has only entries of the map before it.
  /\ ~aborted /\ pc = "sweeping" => to_visit \subseteq DOMAIN m_arpreq_times_list

TypesRight == ArpInv /\ PlacesRight /\ TablesRight

LEMMA InitTables == Init => TablesRight
<1> SUFFICES ASSUME Init
             PROVE  TablesRight
  OBVIOUS
<1>1. /\ pc = "cleaning" /\ to_visit = {} /\ aborted = FALSE
      /\ asked = [h \in Hops |-> 0]
  BY DEF Init
<1>2. DOMAIN m_arp_cache = {} /\ DOMAIN m_arpreq_queue = {} /\ DOMAIN m_arpreq_times_list = {}
  BY DEF Init, Empty
<1>3. asked \in [Hops -> Nat]
  BY <1>1
<1>. QED  BY <1>1, <1>2, <1>3 DEF TablesRight

\* A step that leaves the tables and the loop alone.
LEMMA TablesKept ==
  ASSUME TablesRight, ~aborted, aborted' \in BOOLEAN,
         UNCHANGED <<pc, to_visit, m_arp_cache, m_arpreq_queue, m_arpreq_times_list>>,
         asked' \in [Hops -> Nat]
  PROVE  TablesRight'
BY DEF TablesRight

\* The neighbours touch only the count of the requests to be answered.
LEMMA NetworkTables ==
  ASSUME TablesRight, ~aborted, Network
  PROVE  TablesRight'
<1>1. /\ UNCHANGED <<pc, to_visit, m_arp_cache, m_arpreq_queue, m_arpreq_times_list, aborted>>
      /\ UNCHANGED asked \/ \E h \in Hops : HopAnswers(h)
  BY DEF Network, PacketArrives, RequestArrives, HopAnswers, arpVars, wireVars
<1>2. asked' \in [Hops -> Nat]
  <2>1. CASE UNCHANGED asked
    BY <2>1 DEF TablesRight
  <2>2. CASE \E h \in Hops : HopAnswers(h)
    <3>1. PICK h \in Hops : asked[h] > 0 /\ asked' = [asked EXCEPT ![h] = @ - 1]
      BY <2>2 DEF HopAnswers
    <3>2. asked[h] - 1 \in Nat /\ asked \in [Hops -> Nat]
      BY <3>1 DEF TablesRight
    <3>. QED  BY <3>1, <3>2
  <2>. QED  BY <1>1, <2>1, <2>2
<1>. QED  BY <1>1, <1>2, TablesKept DEF TablesRight

Record == [times_sent : 0..(MaxTimesSent + 1), elapsed : -1..(RetryAfter + 1), iface : Interfaces]

\* No age passes the last one a comparison can tell apart.
LEMMA TickTables ==
  ASSUME TablesRight, Tick
  PROVE  TablesRight'
<1>1. /\ m_arp_cache' = [h \in DOMAIN m_arp_cache |-> Older(m_arp_cache[h], CacheExpired)]
      /\ m_arpreq_times_list' =
           [h \in DOMAIN m_arpreq_times_list |->
              [m_arpreq_times_list[h] EXCEPT !.elapsed = Older(@, RetryAfter)]]
      /\ UNCHANGED <<pc, to_visit, m_arpreq_queue, aborted, asked>>
  BY DEF Tick, wireVars
<1>2. ASSUME NEW h \in DOMAIN m_arp_cache
      PROVE  m_arp_cache'[h] \in 0..(CacheExpired + 1)
  <2>1. m_arp_cache[h] \in 0..(CacheExpired + 1) /\ CacheExpired \in Nat
    BY LimitAssumption DEF TablesRight
  <2>2. m_arp_cache'[h] = Older(m_arp_cache[h], CacheExpired)
    BY <1>1
  <2>. QED  BY <2>1, <2>2 DEF Older
<1>3. ASSUME NEW h \in DOMAIN m_arpreq_times_list
      PROVE  m_arpreq_times_list'[h] \in Record
  <2> PICK r : r = m_arpreq_times_list[h]
    OBVIOUS
  <2>1. r \in Record /\ RetryAfter \in Nat
    BY LimitAssumption DEF TablesRight, Record
  <2>2. m_arpreq_times_list'[h] = [r EXCEPT !.elapsed = Older(r.elapsed, RetryAfter)]
    BY <1>1
  <2>3. r.elapsed \in -1..(RetryAfter + 1)
    BY <2>1 DEF Record
  <2>4. Older(r.elapsed, RetryAfter) \in -1..(RetryAfter + 1)
    BY <2>1, <2>3 DEF Older
  <2>. QED  BY <2>1, <2>2, <2>4 DEF Record
<1>4. DOMAIN m_arp_cache' = DOMAIN m_arp_cache /\ DOMAIN m_arpreq_times_list' = DOMAIN m_arpreq_times_list
  BY <1>1
<1>. QED  BY <1>1, <1>2, <1>3, <1>4 DEF TablesRight, Record

\* The parts of the loop that only go on to the next.
LEMMA LoopTables ==
  ASSUME TablesRight, ~aborted,
         \/ EndCleaning \/ EndIntake \/ EndSwitching \/ EndSweeping
         \/ \E i \in Interfaces : Intake(i)
  PROVE  TablesRight'
<1>1. UNCHANGED <<m_arp_cache, m_arpreq_queue, m_arpreq_times_list, aborted, asked>>
  BY DEF EndCleaning, EndIntake, EndSwitching, EndSweeping, Intake, arpVars, wireVars
<1>2. /\ to_visit' \subseteq Hops \cup Interfaces
      /\ pc' \in {"cleaning", "intake", "switching", "sweeping", "sending"}
      /\ pc' = "sweeping" => to_visit' \subseteq DOMAIN m_arpreq_times_list
  BY DEF EndCleaning, EndIntake, EndSwitching, EndSweeping, Intake, TablesRight
<1>. QED  BY <1>1, <1>2 DEF TablesRight

\* Requests that leave are counted for their next hop.
LEMMA SendTables ==
  ASSUME TypesRight, ~aborted, SendToTheNextHop
  PROVE  TablesRight'
<1>1. /\ pc' = "cleaning" /\ to_visit' = DOMAIN m_arp_cache
      /\ asked' = [h \in Hops |-> asked[h] + Cardinality(Asks(h))]
      /\ UNCHANGED <<m_arp_cache, m_arpreq_queue, m_arpreq_times_list, aborted>>
  BY DEF SendToTheNextHop, arpVars
<1>2. ASSUME NEW h \in Hops
      PROVE  asked[h] + Cardinality(Asks(h)) \in Nat
  <2> PICK queue : queue = m_output_queue[InterfaceTo(h)]
    OBVIOUS
  <2>1. queue \in Seq(LeavingAt(InterfaceTo(h)))
    BY InterfaceToType DEF TypesRight, PlacesRight, OutputsRight
  <2>2. DOMAIN queue = 1..Len(queue) /\ Len(queue) \in Nat
    BY <2>1
  <2>3. Asks(h) \in SUBSET (1..Len(queue))
    BY <2>2 DEF Asks
  <2>4. Cardinality(Asks(h)) \in Nat
    BY <2>2, <2>3, Ranks
  <2>. QED  BY <2>4 DEF TypesRight, TablesRight
<1>. QED  BY <1>1, <1>2 DEF TypesRight, TablesRight

\* arpCacheCleaning only takes entries out.
LEMMA CleanTables ==
  ASSUME TablesRight, ~aborted, NEW hop \in Hops, CleanEntry(hop)
  PROVE  TablesRight'
<1>1. /\ pc = "cleaning" /\ to_visit' \subseteq to_visit /\ aborted' \in BOOLEAN
      /\ m_arp_cache' = m_arp_cache \/ m_arp_cache' = Erase(m_arp_cache, hop)
      /\ UNCHANGED <<pc, m_arpreq_queue, m_arpreq_times_list, asked>>
  BY DEF CleanEntry, AfterErasing, TablesRight, wireVars
<1>2. /\ DOMAIN m_arp_cache' \subseteq DOMAIN m_arp_cache
      /\ \A h \in DOMAIN m_arp_cache' : m_arp_cache'[h] = m_arp_cache[h]
  BY <1>1 DEF Erase
<1>. QED  BY <1>1, <1>2 DEF TablesRight

\* A reply is learnt with age 0.
LEMMA LearntType ==
  ASSUME TablesRight, NEW hop \in Hops, m_arp_cache' = Learnt(hop)
  PROVE  /\ DOMAIN m_arp_cache' \subseteq Hops
         /\ \A h \in DOMAIN m_arp_cache' : m_arp_cache'[h] \in 0..(CacheExpired + 1)
BY LimitAssumption DEF TablesRight, Learnt, Put

\* handlePacket but for a packet that waits.
LEMMA SwitchingTables ==
  ASSUME TypesRight, ~aborted,
         \/ TTLExpired \/ LPMMiss \/ CacheHit \/ HandleArpRequestToMe
         \/ UnexpectedArpReply \/ HandleArpReplyToMe
  PROVE  TablesRight'
<1>1. CASE TTLExpired \/ LPMMiss \/ CacheHit \/ HandleArpRequestToMe
  <2>1. UNCHANGED <<pc, to_visit, m_arp_cache, m_arpreq_queue, m_arpreq_times_list, aborted, asked>>
    BY <1>1 DEF TTLExpired, LPMMiss, CacheHit, HandleArpRequestToMe, Switching, arpVars, wireVars
  <2>. QED  BY <2>1, TablesKept DEF TypesRight, TablesRight
<1>2. ASSUME Switching("reply")
      PROVE  popped.ar_sip \in Hops /\ UNCHANGED <<pc, to_visit, asked>> /\ pc = "switching"
  <2>1. popped \in Entering /\ popped.type = "reply"
    BY <1>2, PoppedRight DEF TypesRight
  <2>2. popped \in ArpReplies
    BY <2>1, EnteringTypes DEF TypesRight
  <2>. QED  BY <1>2, <2>2 DEF ArpReplies, Switching, wireVars
<1>3. CASE UnexpectedArpReply
  <2>1. /\ Switching("reply") /\ m_arp_cache' = Learnt(popped.ar_sip) /\ aborted' = TRUE
        /\ UNCHANGED <<m_arpreq_queue, m_arpreq_times_list>>
    BY <1>3 DEF UnexpectedArpReply
  <2>2. /\ DOMAIN m_arp_cache' \subseteq Hops
        /\ \A h \in DOMAIN m_arp_cache' : m_arp_cache'[h] \in 0..(CacheExpired + 1)
    BY <1>2, <2>1, LearntType DEF TypesRight
  <2>. QED  BY <1>2, <2>1, <2>2 DEF TypesRight, TablesRight
<1>4. CASE HandleArpReplyToMe
  <2> PICK hop : hop = popped.ar_sip
    OBVIOUS
  <2>1. /\ Switching("reply") /\ m_arp_cache' = Learnt(hop) /\ UNCHANGED aborted
        /\ m_arpreq_queue' = Erase(m_arpreq_queue, hop)
        /\ m_arpreq_times_list' = Erase(m_arpreq_times_list, hop)
    BY <1>4 DEF HandleArpReplyToMe
  <2>2. /\ DOMAIN m_arp_cache' \subseteq Hops
        /\ \A h \in DOMAIN m_arp_cache' : m_arp_cache'[h] \in 0..(CacheExpired + 1)
    BY <1>2, <2>1, LearntType DEF TypesRight
  <2>3. /\ DOMAIN m_arpreq_queue' \subseteq DOMAIN m_arpreq_queue
        /\ DOMAIN m_arpreq_times_list' \subseteq DOMAIN m_arpreq_times_list
        /\ \A h \in DOMAIN m_arpreq_times_list' : m_arpreq_times_list'[h] = m_arpreq_times_list[h]
    BY <2>1 DEF Erase
  <2>. QED  BY <1>2, <2>1, <2>2, <2>3 DEF TypesRight, TablesRight
<1>. QED  BY <1>1, <1>3, <1>4

\* A new record counts no request, and the first packet's interface is its own.
LEMMA CacheMissTables ==
  ASSUME TypesRight, ~aborted, CacheMiss
  PROVE  TablesRight'
<1> PICK hop : hop = RouteOf(popped).next_hop
  OBVIOUS
<1> PICK out : out = RouteOf(popped).interface_name
  OBVIOUS
<1>1. /\ Switching("ip") /\ Lives(popped) /\ ArpCacheQueueReq(hop, popped)
      /\ UNCHANGED <<m_arp_cache, aborted>>
  BY DEF CacheMiss, LPMHit, Lives
<1>2. popped \in Came
  BY <1>1, PoppedRight, EnteringTypes DEF TypesRight
<1>3. hop \in Hops /\ out \in Interfaces
  BY <1>1, <1>2, RoutedRight DEF TypesRight
<1>4. UNCHANGED <<pc, to_visit, asked>> /\ pc = "switching"
  BY <1>1 DEF Switching, wireVars
<1>5. CASE hop \in DOMAIN m_arpreq_queue
  <2>1. DOMAIN m_arpreq_queue' = DOMAIN m_arpreq_queue /\ UNCHANGED m_arpreq_times_list
    BY <1>1, <1>5 DEF ArpCacheQueueReq
  <2>. QED  BY <1>1, <1>4, <2>1 DEF TypesRight, TablesRight
<1>6. CASE hop \notin DOMAIN m_arpreq_queue
  <2>1. PICK e \in -1..(RetryAfter + 1) :
          /\ m_arpreq_queue' = Put(m_arpreq_queue, hop, <<Waiting(popped)>>)
          /\ m_arpreq_times_list' =
               Put(m_arpreq_times_list, hop, [times_sent |-> 0, elapsed |-> e, iface |-> out])
    BY <1>1, <1>6 DEF ArpCacheQueueReq, Waiting
  <2>2. [times_sent |-> 0, elapsed |-> e, iface |-> out] \in Record
    BY <1>3, LimitAssumption DEF Record
  <2>3. /\ DOMAIN m_arpreq_queue' = DOMAIN m_arpreq_queue \cup {hop}
        /\ DOMAIN m_arpreq_times_list' = DOMAIN m_arpreq_times_list \cup {hop}
        /\ \A h \in DOMAIN m_arpreq_times_list' :
             \/ m_arpreq_times_list'[h] = [times_sent |-> 0, elapsed |-> e, iface |-> out]
             \/ h \in DOMAIN m_arpreq_times_list /\ m_arpreq_times_list'[h] = m_arpreq_times_list[h]
    BY <2>1 DEF Put
  <2>. QED  BY <1>1, <1>3, <1>4, <2>2, <2>3 DEF TypesRight, TablesRight, Record
<1>. QED  BY <1>5, <1>6

\* A request that is counted is one that was not one too many.
LEMMA CountedRecord ==
  ASSUME NEW r \in Record, r.times_sent <= MaxTimesSent
  PROVE  [r EXCEPT !.times_sent = r.times_sent + 1, !.elapsed = 0] \in Record
<1> DEFINE s == [r EXCEPT !.times_sent = r.times_sent + 1]
           c == [s EXCEPT !.elapsed = 0]
<1>0. RetryAfter \in Nat /\ MaxTimesSent \in Nat
  BY LimitAssumption
<1>1. s \in Record
  BY <1>0 DEF Record
<1>. HIDE DEF s
<1>2. c \in Record
  BY <1>0, <1>1 DEF Record
<1>3. c = [r EXCEPT !.times_sent = r.times_sent + 1, !.elapsed = 0]
  BY DEF s
<1>. QED  BY <1>2, <1>3

LEMMA SweepTables ==
  ASSUME TablesRight, ~aborted, NEW hop \in Hops,
         TooEarly(hop) \/ SendArpRequest(hop) \/ GiveUp(hop)
  PROVE  TablesRight' /\ hop \in DOMAIN m_arpreq_times_list
<1>1. /\ pc = "sweeping" /\ hop \in to_visit /\ UNCHANGED <<pc, m_arp_cache, asked>>
  BY DEF TooEarly, SendArpRequest, GiveUp, Sweeping, wireVars
<1>2. hop \in DOMAIN m_arpreq_times_list /\ to_visit \subseteq DOMAIN m_arpreq_times_list
  BY <1>1 DEF TablesRight
<1>3. CASE TooEarly(hop)
  BY <1>1, <1>2, <1>3 DEF TooEarly, TablesRight
<1>4. CASE SendArpRequest(hop)
  <2> PICK r : r = m_arpreq_times_list[hop]
    OBVIOUS
  <2>1. /\ to_visit' \subseteq to_visit /\ UNCHANGED <<m_arpreq_queue, aborted>>
        /\ m_arpreq_times_list' =
             [m_arpreq_times_list EXCEPT ![hop].times_sent = @ + 1, ![hop].elapsed = 0]
        /\ ~(MaxTimesSent < r.times_sent)
    BY <1>4 DEF SendArpRequest, OutOfTries
  <2>2. r \in Record /\ MaxTimesSent \in Nat
    BY <1>2, LimitAssumption DEF TablesRight, Record
  <2>3. r.times_sent <= MaxTimesSent
    BY <2>1, <2>2 DEF Record
  <2>4. m_arpreq_times_list'[hop] = [r EXCEPT !.times_sent = r.times_sent + 1, !.elapsed = 0]
    BY <1>2, <2>1
  <2>5. m_arpreq_times_list'[hop] \in Record
    BY <2>2, <2>3, <2>4, CountedRecord
  <2>6. /\ DOMAIN m_arpreq_times_list' = DOMAIN m_arpreq_times_list
        /\ \A h \in DOMAIN m_arpreq_times_list :
             h # hop => m_arpreq_times_list'[h] = m_arpreq_times_list[h]
    BY <2>1
  <2>. QED  BY <1>1, <1>2, <2>1, <2>5, <2>6 DEF TablesRight, Record
<1>5. CASE GiveUp(hop)
  <2>1. /\ m_arpreq_queue' = Erase(m_arpreq_queue, hop)
        /\ m_arpreq_times_list' = Erase(m_arpreq_times_list, hop)
        /\ aborted' \in BOOLEAN
        /\ ~aborted' => to_visit' \subseteq to_visit \ {hop}
        /\ to_visit' \subseteq to_visit
    BY <1>5 DEF GiveUp, AfterErasing, TablesRight
  <2>2. /\ DOMAIN m_arpreq_queue' \subseteq DOMAIN m_arpreq_queue
        /\ DOMAIN m_arpreq_times_list' = DOMAIN m_arpreq_times_list \ {hop}
        /\ \A h \in DOMAIN m_arpreq_times_list' : m_arpreq_times_list'[h] = m_arpreq_times_list[h]
    BY <2>1 DEF Erase
  <2>. QED  BY <1>1, <1>2, <2>1, <2>2 DEF TablesRight
<1>. QED  BY <1>2, <1>3, <1>4, <1>5

-----------------------------------------------------------------------------
\* The types hold at first and after every step, and say what TypeOK says.
LEMMA InitTypes == Init => TypesRight
BY InitArpInv, InitPlaces, InitTables DEF TypesRight

LEMMA RouterThreadTypes ==
  ASSUME TypesRight, ~aborted, RouterThread
  PROVE  PlacesRight' /\ TablesRight'
<1>0. ArpInv /\ PlacesRight /\ TablesRight
  BY DEF TypesRight
<1>1. ASSUME NEW h \in Hops, CleanEntry(h)  PROVE PlacesRight' /\ TablesRight'
  BY <1>0, <1>1, OtherPlaces, CleanTables
<1>2. ASSUME NEW i \in Interfaces, Intake(i)  PROVE PlacesRight' /\ TablesRight'
  BY <1>0, <1>2, IntakePlaces, LoopTables
<1>3. ASSUME NEW h \in Hops, TooEarly(h) \/ SendArpRequest(h) \/ GiveUp(h)
      PROVE  PlacesRight' /\ TablesRight'
  <2>1. TablesRight' /\ h \in DOMAIN m_arpreq_times_list
    BY <1>0, <1>3, SweepTables
  <2>2. h \in DOMAIN m_arpreq_queue
    BY <1>0, <2>1 DEF ArpInv, ArpTablesAgree
  <2>. QED  BY <1>0, <1>3, <2>1, <2>2, SweepPlaces
<1>4. ASSUME TTLExpired \/ LPMMiss \/ CacheHit \/ HandleArpRequestToMe \/ UnexpectedArpReply
      PROVE  PlacesRight' /\ TablesRight'
  BY <1>0, <1>4, SwitchingPlaces, SwitchingTables
<1>5. ASSUME CacheMiss  PROVE PlacesRight' /\ TablesRight'
  BY <1>0, <1>5, CacheMissPlaces, CacheMissTables
<1>6. ASSUME HandleArpReplyToMe  PROVE PlacesRight' /\ TablesRight'
  BY <1>0, <1>6, ReplyPlaces, SwitchingTables
<1>7. ASSUME EndCleaning \/ EndIntake \/ EndSwitching \/ EndSweeping
      PROVE  PlacesRight' /\ TablesRight'
  BY <1>0, <1>7, OtherPlaces, LoopTables
<1>8. ASSUME SendToTheNextHop  PROVE PlacesRight' /\ TablesRight'
  BY <1>0, <1>8, SendPlaces, SendTables
<1>. QED  BY <1>1, <1>2, <1>3, <1>4, <1>5, <1>6, <1>7, <1>8 DEF RouterThread

LEMMA TypesStep == TypesRight /\ [Next]_vars => TypesRight'
<1> SUFFICES ASSUME TypesRight, [Next]_vars
             PROVE  TypesRight'
  OBVIOUS
<1>1. ArpInv'
  BY ArpInvStep DEF TypesRight
<1>2. CASE ~aborted /\ RouterThread
  BY <1>1, <1>2, RouterThreadTypes DEF TypesRight
<1>3. CASE ~aborted /\ Network
  BY <1>1, <1>3, NetworkPlaces, NetworkTables DEF TypesRight
<1>4. CASE Tick
  BY <1>1, <1>4, OtherPlaces, TickTables DEF TypesRight
<1>5. CASE RouteChange \/ UNCHANGED vars
  <2>1. TablesRight'
    BY <1>5 DEF RouteChange, SetInUse, TypesRight, TablesRight, vars, arpVars, wireVars
  <2>. QED  BY <1>1, <1>5, <2>1, OtherPlaces DEF TypesRight
<1>. QED  BY <1>2, <1>3, <1>4, <1>5 DEF Next

\* The routes in use are rows of the table, which only the ASes touch.
RoutesRight == in_use \subseteq Destinations

LEMMA RoutesStep == RoutesRight /\ [Next]_vars => RoutesRight'
<1> SUFFICES ASSUME RoutesRight, [Next]_vars
             PROVE  RoutesRight'
  OBVIOUS
<1>1. CASE RouterThread
  <2>1. UNCHANGED in_use
    BY <1>1 DEF RouterThread, CleanEntry, EndCleaning, Intake, EndIntake, Switching, TTLExpired,
         LPMMiss, CacheHit, CacheMiss, HandleArpRequestToMe, HandleArpReplyToMe,
         UnexpectedArpReply, EndSwitching, Sweeping, TooEarly, SendArpRequest, GiveUp,
         EndSweeping, SendToTheNextHop
  <2>. QED  BY <2>1 DEF RoutesRight
<1>2. CASE Network \/ Tick
  <2>1. UNCHANGED in_use
    BY <1>2 DEF Network, PacketArrives, RequestArrives, HopAnswers, Tick
  <2>. QED  BY <2>1 DEF RoutesRight
<1>3. CASE RouteChange
  BY <1>3, LimitAssumption DEF RouteChange, SetInUse, RoutesRight
<1>4. CASE UNCHANGED vars
  BY <1>4 DEF vars, RoutesRight
<1>. QED  BY <1>1, <1>2, <1>3, <1>4 DEF Next

\* The queues hold what may come in and go out.
LEMMA QueuesMean ==
  ASSUME PlacesRight
  PROVE  /\ m_input_queue \in [Interfaces -> Seq(Incoming)]
         /\ m_switch_queue \in Seq(Incoming)
         /\ m_output_queue \in [Interfaces -> Seq(Outgoing)]
         /\ wire \in [Interfaces -> Seq(IpPackets \cup IcmpMessages)]
<1>0. PlacesRight
  OBVIOUS
<1>1. Came \subseteq IpPackets /\ Entering \subseteq Incoming
  BY <1>0, CameType DEF Entering, Incoming
<1>2. \A i : EnteringAt(i) \subseteq Incoming
  BY <1>1 DEF EnteringAt
<1>3. ASSUME NEW i
      PROVE  OnWire(i) \subseteq IpPackets \cup IcmpMessages /\ LeavingAt(i) \subseteq Outgoing
  <2>1. ASSUME NEW p \in LeavingBy(i)
        PROVE  Decremented(p) \in IpPackets
    <3>1. p \in IpPackets /\ p.ip_ttl > 1
      BY <1>1 DEF LeavingBy, Lives
    <3>2. p.ip_ttl \in 0..255
      BY <3>1 DEF IpPackets
    <3>3. p.ip_ttl - 1 \in 0..255
      BY <3>1, <3>2
    <3>. QED  BY <3>1, <3>3 DEF Decremented, IpPackets
  <2>2. ASSUME NEW p \in CameBy(i)
        PROVE  Report(p) \in IcmpMessages
    <3>1. p \in Came
      BY DEF CameBy
    <3>2. p.id \in 1..MaxPackets
      BY <1>0, <3>1, CameType
    <3>. QED  BY <3>2 DEF Report, IcmpMessages
  <2>3. OnWire(i) \subseteq IpPackets \cup IcmpMessages
    BY <2>1, <2>2 DEF OnWire
  <2>. QED  BY <2>3 DEF LeavingAt, Outgoing
<1>4. m_input_queue \in [Interfaces -> Seq(Incoming)]
  <2>1. \A i \in Interfaces : m_input_queue[i] \in Seq(Incoming)
    BY <1>0, <1>2, SeqMonotonic DEF PlacesRight, InputsRight
  <2>. QED  BY <1>0, <2>1 DEF PlacesRight, InputsRight, PerInterface
<1>5. m_switch_queue \in Seq(Incoming)
  BY <1>0, <1>1, SeqMonotonic DEF PlacesRight, SwitchRight
<1>6. m_output_queue \in [Interfaces -> Seq(Outgoing)]
  <2>1. \A i \in Interfaces : m_output_queue[i] \in Seq(Outgoing)
    BY <1>0, <1>3, SeqMonotonic DEF PlacesRight, OutputsRight
  <2>. QED  BY <1>0, <2>1 DEF PlacesRight, OutputsRight, PerInterface
<1>7. wire \in [Interfaces -> Seq(IpPackets \cup IcmpMessages)]
  <2>1. \A i \in Interfaces : wire[i] \in Seq(IpPackets \cup IcmpMessages)
    BY <1>0, <1>3, SeqMonotonic DEF PlacesRight, WireRight
  <2>. QED  BY <1>0, <2>1 DEF PlacesRight, WireRight, PerInterface
<1>. QED  BY <1>4, <1>5, <1>6, <1>7

LEMMA TypesMean == TypesRight /\ RoutesRight => TypeOK
<1> SUFFICES ASSUME TypesRight, RoutesRight
             PROVE  TypeOK
  OBVIOUS
<1>0. PlacesRight /\ TablesRight
  BY DEF TypesRight
<1>1. \A h : WaitersFor(h) \subseteq [packet : IpPackets, iface : Interfaces]
  <2>1. ASSUME NEW h, NEW p \in GoingTo(h)
        PROVE  Waiting(p) \in [packet : IpPackets, iface : Interfaces]
    BY <1>0, <2>1, RoutedRight DEF GoingTo, Waiting
  <2>. QED  BY <2>1 DEF WaitersFor
<1>2. \A h \in DOMAIN m_arpreq_queue :
        m_arpreq_queue[h] \in Seq([packet : IpPackets, iface : Interfaces])
  BY <1>0, <1>1, SeqMonotonic DEF PlacesRight, WaitersRight
<1>3. arrived \in Seq(IpPackets)
  BY <1>0 DEF PlacesRight, HistoryRight
<1>4. given_up \subseteq 1..MaxPackets
  <2>1. ASSUME NEW n \in given_up
        PROVE  n \in 1..MaxPackets
    <3>1. n \in DOMAIN arrived
      BY <1>0 DEF PlacesRight, GivenUpRight
    <3>2. arrived[n] \in Came /\ arrived[n].id = n
      BY <1>0, <3>1 DEF Came, PlacesRight, HistoryRight
    <3>. QED  BY <1>0, <3>2, CameType
  <2>. QED  BY <2>1
<1>. QED  BY <1>0, <1>2, <1>3, <1>4, QueuesMean DEF TypeOK, TablesRight, RoutesRight

\* The tables and queues of the router keep their types: at each place are only the
\* packets that may be there, so a request is counted no more often than sweepArpReqs
\* allows and no age passes the last one a comparison can tell apart.
THEOREM TypeCorrect == Spec => []TypeOK
<1>1. Init => RoutesRight
  BY DEF Init, RoutesRight
<1>. QED  BY <1>1, RoutesStep, InitTypes, TypesStep, TypesMean, PTL DEF Spec

-----------------------------------------------------------------------------
(* Lists, and joining them.                                                *)

\* Lists of numbers, and joining them: what the proofs about streams use of them.
IsList(s) == s \in Seq(Nat)
Join(s, t) == s \o t
JoinLaws ==
  /\ IsList(<<>>)
  /\ \A s, t : IsList(s) /\ IsList(t) => IsList(Join(s, t))
  /\ \A s : IsList(s) => Join(s, <<>>) = s /\ Join(<<>>, s) = s
  /\ \A s, t, u : IsList(s) /\ IsList(t) /\ IsList(u) => Join(Join(s, t), u) = Join(s, Join(t, u))

\* Joining is associative, with the empty list as its unit.
LEMMA JoinLawsHold == JoinLaws
<1>1. IsList(<<>>)
  BY DEF IsList
<1>2. ASSUME NEW s, NEW t, IsList(s), IsList(t)
      PROVE  IsList(Join(s, t))
  BY <1>2, ConcatProperties DEF IsList, Join
<1>3. ASSUME NEW s, IsList(s)
      PROVE  Join(s, <<>>) = s /\ Join(<<>>, s) = s
  BY <1>3, ConcatEmptySeq DEF IsList, Join
<1>4. ASSUME NEW s, NEW t, NEW u, IsList(s), IsList(t), IsList(u)
      PROVE  Join(Join(s, t), u) = Join(s, Join(t, u))
  <2>1. s \in Seq(Nat) /\ t \in Seq(Nat) /\ u \in Seq(Nat)
    BY ONLY <1>4 DEF IsList
  <2>2. (s \o t) \o u = s \o (t \o u)
    BY ONLY <2>1, ConcatAssociative
  <2>. QED  BY ONLY <2>2 DEF Join
<1>. QED  BY <1>1, <1>2, <1>3, <1>4 DEF JoinLaws

AmongLaws ==
  /\ \A n : ~Among(n, <<>>)
  /\ \A n, s : IsList(s) /\ Among(n, s) => n \in Nat
  /\ \A n, m : Among(n, <<m>>) <=> n = m
  /\ \A s, t, n : IsList(s) /\ IsList(t) => (Among(n, Join(s, t)) <=> Among(n, s) \/ Among(n, t))
RiseLaws ==
  /\ RisingList(<<>>)
  /\ \A n \in Nat : IsList(<<n>>) /\ RisingList(<<n>>)
  /\ \A s, t : IsList(s) /\ IsList(t) =>
       (RisingList(Join(s, t)) <=> RisingList(s) /\ RisingList(t) /\ Before(s, t))

\* What is among the elements of a list, and when it rises.
LEMMA AmongLawsHold == AmongLaws
<1>1. \A n : ~Among(n, <<>>)
  BY DEF Among
<1>2. \A n, m : Among(n, <<m>>) <=> n = m
  BY DEF Among
<1>3. ASSUME NEW s, NEW t, NEW n, IsList(s), IsList(t)
      PROVE  Among(n, Join(s, t)) <=> Among(n, s) \/ Among(n, t)
  BY <1>3, JoinAmong DEF IsList, Join
<1>4. \A n, s : IsList(s) /\ Among(n, s) => n \in Nat
  BY DEF Among, IsList
<1>. QED  BY <1>1, <1>2, <1>3, <1>4 DEF AmongLaws

LEMMA RiseLawsHold == RiseLaws
<1>1. RisingList(<<>>)
  BY DEF RisingList, Rises
<1>2. \A n \in Nat : IsList(<<n>>) /\ RisingList(<<n>>)
  BY DEF RisingList, Rises, IsList
<1>3. ASSUME NEW s, NEW t, IsList(s), IsList(t)
      PROVE  RisingList(Join(s, t)) <=> RisingList(s) /\ RisingList(t) /\ Before(s, t)
  BY <1>3, JoinRises DEF IsList, Join
<1>. QED  BY <1>1, <1>2, <1>3 DEF RiseLaws

\* Lists without repetition: rising ones, and what is made of them or they are made of.
LEMMA RisingUnrepeated ==
  ASSUME NEW s, IsList(s), RisingList(s)
  PROVE  Unrepeated(s)
<1>1. ASSUME NEW j \in DOMAIN s, NEW k \in DOMAIN s, s[j] = s[k]
      PROVE  j = k
  <2>1. DOMAIN s = 1..Len(s) /\ s[j] \in Nat /\ j \in Nat /\ k \in Nat
    BY ElementOfSeq, LenProperties DEF IsList
  <2>2. ~(j < k) /\ ~(k < j)
    BY <1>1, <2>1 DEF RisingList, Rises
  <2>. QED  BY <2>1, <2>2
<1>. QED  BY <1>1 DEF Unrepeated

LEMMA UnrepeatedMore ==
  ASSUME NEW s, IsList(s), Unrepeated(s), NEW n \in Nat, ~Among(n, s)
  PROVE  Unrepeated(Join(s, <<n>>))
<1> PICK l : l = Len(s)
  OBVIOUS
<1> PICK u : u = Join(s, <<n>>)
  OBVIOUS
<1>1. l \in Nat /\ DOMAIN s = 1..l /\ s \in Seq(Nat)
  BY LenProperties DEF IsList
<1>2. u = Append(s, n)
  BY <1>1 DEF Join
<1>3. DOMAIN u = 1..(l + 1) /\ u[l + 1] = n /\ \A j \in 1..l : u[j] = s[j]
  BY <1>1, <1>2, AppendProperties
<1>4. \A j \in 1..l : s[j] # n
  BY <1>1 DEF Among
<1>5. \A j, k \in 1..l : s[j] = s[k] => j = k
  BY <1>1 DEF Unrepeated
<1>6. ASSUME NEW j \in 1..(l + 1), NEW k \in 1..(l + 1), u[j] = u[k]
      PROVE  j = k
  <2>1. (j \in 1..l \/ j = l + 1) /\ (k \in 1..l \/ k = l + 1)
    BY ONLY <1>1, j \in 1..(l + 1), k \in 1..(l + 1)
  <2>. QED  BY ONLY <1>3, <1>4, <1>5, <1>6, <2>1
<1>. QED  BY <1>3, <1>6 DEF Unrepeated

LEMMA UnrepeatedParts ==
  ASSUME NEW s, NEW t, IsList(s), IsList(t), Unrepeated(Join(s, t))
  PROVE  /\ Unrepeated(s) /\ Unrepeated(t)
         /\ \A n : ~(Among(n, s) /\ Among(n, t))
<1> PICK l : l = Len(s)
  OBVIOUS
<1> PICK m : m = Len(t)
  OBVIOUS
<1> PICK u : u = Join(s, t)
  OBVIOUS
<1>1. /\ l \in Nat /\ DOMAIN s = 1..l /\ s \in Seq(Nat)
      /\ m \in Nat /\ DOMAIN t = 1..m /\ t \in Seq(Nat)
  BY LenProperties DEF IsList
<1>2. /\ DOMAIN u = 1..(l + m)
      /\ \A j \in 1..(l + m) : u[j] = IF j <= l THEN s[j] ELSE t[j - l]
  BY <1>1, ConcatProperties DEF Join
<1>3. \A j, k \in 1..(l + m) : u[j] = u[k] => j = k
  BY <1>2 DEF Unrepeated
<1>4. \A j \in 1..l : j \in 1..(l + m) /\ u[j] = s[j]
  BY ONLY <1>1, <1>2
<1>5. ASSUME NEW j \in 1..m
      PROVE  l + j \in 1..(l + m) /\ u[l + j] = t[j] /\ l + j \notin 1..l
  <2>1. l + j \in 1..(l + m) /\ ~(l + j <= l) /\ (l + j) - l = j
    BY ONLY <1>1, j \in 1..m
  <2>. QED  BY ONLY <1>2, <2>1, <1>1
<1>6. \A j, k \in 1..l : s[j] = s[k] => j = k
  BY ONLY <1>3, <1>4
<1>7. ASSUME NEW j \in 1..m, NEW k \in 1..m, t[j] = t[k]
      PROVE  j = k
  <2>1. l + j = l + k
    BY ONLY <1>3, <1>5, <1>7
  <2>. QED  BY ONLY <1>1, <2>1, j \in 1..m, k \in 1..m
<1>8. ASSUME NEW j \in 1..l, NEW k \in 1..m
      PROVE  s[j] # t[k]
  <2>1. s[j] = t[k] => j = l + k
    BY ONLY <1>3, <1>4, <1>5, j \in 1..l, k \in 1..m
  <2>. QED  BY <1>5, <2>1
<1>. QED  BY <1>1, <1>6, <1>7, <1>8 DEF Unrepeated, Among

\* Four lists one behind the other, as what is inside a line is made up.
Chain(b, c, d, e) == Join(Join(Join(b, c), d), e)

\* The chain with the brackets to the right.
LEMMA ChainForms ==
  ASSUME NEW b, NEW c, NEW d, NEW e, IsList(b), IsList(c), IsList(d), IsList(e)
  PROVE  /\ IsList(Chain(b, c, d, e))
         /\ Chain(b, c, d, e) = Join(b, Join(c, Join(d, e)))
         /\ Chain(b, <<>>, d, e) = Join(b, Join(d, e))
BY ONLY IsList(b), IsList(c), IsList(d), IsList(e), JoinLawsHold DEF JoinLaws, Chain

\* Moving between neighbouring stages changes nothing in the whole.
LEMMA ChainShifts ==
  ASSUME NEW b, NEW c, NEW d, NEW e, NEW m,
         IsList(b), IsList(c), IsList(d), IsList(e), IsList(m)
  PROVE  /\ Chain(Join(b, m), <<>>, d, e) = Chain(b, <<>>, Join(m, d), e)
         /\ Chain(b, Join(c, m), d, e) = Chain(b, c, Join(m, d), e)
         /\ Chain(Join(b, c), <<>>, d, e) = Chain(b, c, d, e)
         /\ Chain(b, c, Join(d, e), <<>>) = Chain(b, c, d, e)
         /\ Chain(b, c, d, e) = Join(b, Chain(<<>>, c, d, e))
         /\ Chain(b, c, d, Join(e, m)) = Join(Chain(b, c, d, e), m)
         /\ Chain(b, c, Join(m, d), e) = Join(Join(b, c), Join(m, Join(d, e)))
         /\ Chain(b, c, d, e) = Join(Join(b, c), Join(d, e))
<1>0. IsList(b) /\ IsList(c) /\ IsList(d) /\ IsList(e) /\ IsList(m) /\ JoinLaws
  BY JoinLawsHold
<1>1. /\ Chain(Join(b, m), <<>>, d, e) = Chain(b, <<>>, Join(m, d), e)
      /\ Chain(b, Join(c, m), d, e) = Chain(b, c, Join(m, d), e)
      /\ Chain(Join(b, c), <<>>, d, e) = Chain(b, c, d, e)
      /\ Chain(b, c, Join(d, e), <<>>) = Chain(b, c, d, e)
  BY ONLY <1>0 DEF JoinLaws, Chain
<1>2. /\ Chain(b, c, d, e) = Join(b, Chain(<<>>, c, d, e))
      /\ Chain(b, c, d, Join(e, m)) = Join(Chain(b, c, d, e), m)
  BY ONLY <1>0 DEF JoinLaws, Chain
<1>3. /\ Chain(b, c, Join(m, d), e) = Join(Join(b, c), Join(m, Join(d, e)))
      /\ Chain(b, c, d, e) = Join(Join(b, c), Join(d, e))
  BY ONLY <1>0 DEF JoinLaws, Chain
<1>. QED  BY ONLY <1>1, <1>2, <1>3

-----------------------------------------------------------------------------
(* The stages of a stream, and what a step may do to it.                   *)

\* The streams of packets the router keeps in order, from one interface to one next hop,
\* and the streams of reports it sends back through one interface, which only leave.
RoutedMine(from, hop) == {p \in IpPackets : OnLine(p, <<from, hop>>)}
RoutedTrack(from, hop) ==
  [mine |-> RoutedMine(from, hop), from |-> from, hop |-> hop, exit |-> InterfaceTo(hop)]
NoHop == CHOOSE h : h \notin Hops
ReportTrack(i) == [mine |-> IcmpMessages, from |-> i, hop |-> NoHop, exit |-> i]
RoutedTracks == {RoutedTrack(i, h) : i \in Interfaces, h \in Hops}
ReportTracks == {ReportTrack(i) : i \in Interfaces}
Tracks == RoutedTracks \cup ReportTracks

Sent(t) == Take(wire[t.exit], t.mine)
Out(t) == Take(m_output_queue[t.exit], t.mine)
Held(t) == Take(WaitingPackets(t.hop), t.mine)
Switched(t) == Take(m_switch_queue, t.mine)
Coming(t) == Take(m_input_queue[t.from], t.mine)
In(t) == Chain(Out(t), Held(t), Switched(t), Coming(t))
Mark(p, t) == IF p \in t.mine THEN <<Number(p)>> ELSE <<>>

LEMMA NoHopIsNone == NoHop \notin Hops
<1>1. \E h : h \notin Hops
  BY NoSetContainsEverything
<1>. QED  BY <1>1 DEF NoHop

\* Its packets came in at one interface, and leave by one.
LEMMA TrackFacts ==
  ASSUME NEW t \in Tracks
  PROVE  /\ Numbered(t.mine) /\ t.from \in Interfaces /\ t.exit \in Interfaces
         /\ t.mine \subseteq IpPackets \cup IcmpMessages
         /\ \A p \in IpPackets : p \in t.mine =>
              p.from = t.from /\ t.hop = RouteOf(p).next_hop /\ t.exit = RouteOf(p).interface_name
         /\ t \in RoutedTracks => t.mine \subseteq IpPackets
         /\ t \in ReportTracks => t.mine = IcmpMessages /\ t.exit = t.from /\ t = ReportTrack(t.from)
<1>1. ASSUME NEW i \in Interfaces, NEW h \in Hops, t = RoutedTrack(i, h)
      PROVE  /\ t.mine \subseteq IpPackets /\ t.from = i /\ t.exit \in Interfaces
             /\ \A p \in t.mine : p.from = t.from /\ t.hop = RouteOf(p).next_hop
                                  /\ t.exit = RouteOf(p).interface_name
  <2>1. t.mine = RoutedMine(i, h) /\ t.from = i /\ t.hop = h /\ t.exit = InterfaceTo(h)
    BY <1>1 DEF RoutedTrack
  <2>2. t.exit \in Interfaces
    BY <2>1, InterfaceToType
  <2>3. ASSUME NEW p \in t.mine
        PROVE  /\ p \in IpPackets /\ p.from = i
               /\ RouteOf(p).next_hop = h /\ InterfaceTo(h) = RouteOf(p).interface_name
    <3>1. p \in IpPackets /\ p.from = i /\ RouteOf(p).next_hop = h
      BY <2>1 DEF RoutedMine, OnLine
    <3>. QED  BY <3>1, RouteRight
  <2>. QED  BY <2>1, <2>2, <2>3
<1>2. ASSUME NEW i \in Interfaces, t = ReportTrack(i)
      PROVE  t.mine = IcmpMessages /\ t.from = i /\ t.exit = i
  BY <1>2 DEF ReportTrack
<1>3. \A p \in IpPackets : p.type = "ip" /\ p.id \in Nat
  BY DEF IpPackets
<1>4. \A p \in IcmpMessages : p.type = "icmp" /\ p.about \in Nat
  BY DEF IcmpMessages
<1>5. t.mine \subseteq IpPackets \cup IcmpMessages => Numbered(t.mine)
  BY <1>3, <1>4 DEF Numbered, Number
<1>6. CASE \E i \in Interfaces, h \in Hops : t = RoutedTrack(i, h)
  <2>1. PICK i \in Interfaces, h \in Hops : t = RoutedTrack(i, h)
    BY <1>6
  <2>2. /\ t.mine \subseteq IpPackets /\ t.from = i /\ t.exit \in Interfaces
        /\ \A p \in t.mine : p.from = t.from /\ t.hop = RouteOf(p).next_hop
                             /\ t.exit = RouteOf(p).interface_name
    BY <1>1, <2>1
  <2>3. t.hop # NoHop
    <3>1. t.hop \in Hops
      BY <2>1 DEF RoutedTrack
    <3>. QED  BY <3>1, NoHopIsNone
  <2>4. t \notin ReportTracks
    BY <2>3 DEF ReportTracks, ReportTrack
  <2>. QED  BY <1>5, <2>2, <2>4
<1>7. CASE \E i \in Interfaces : t = ReportTrack(i)
  <2>1. PICK i \in Interfaces : t = ReportTrack(i)
    BY <1>7
  <2>2. t.mine = IcmpMessages /\ t.from = i /\ t.exit = i /\ t.hop = NoHop
    BY <2>1 DEF ReportTrack
  <2>3. t \notin RoutedTracks
    <3>1. \A u \in RoutedTracks : u.hop \in Hops
      BY DEF RoutedTracks, RoutedTrack
    <3>. QED  BY <2>2, <3>1, NoHopIsNone
  <2>4. \A p \in IpPackets : p \notin t.mine
    BY <1>3, <1>4, <2>2
  <2>. QED  BY <1>5, <2>1, <2>2, <2>3, <2>4
<1>. QED  BY <1>6, <1>7 DEF Tracks, RoutedTracks, ReportTracks

\* What of the other packets is not in any stream, and what a router does to a packet
\* does not take it from its stream.
LEMMA TrackKeeps ==
  ASSUME NEW t \in Tracks
  PROVE  /\ \A p \in ArpRequests \cup ArpReplies \cup Requests \cup Answers : p \notin t.mine
         /\ \A p \in IpPackets : p.ip_ttl > 1 =>
              (Decremented(p) \in t.mine <=> p \in t.mine) /\ Number(Decremented(p)) = Number(p)
<1>1. \A p \in IpPackets \cup IcmpMessages : p.type \in {"ip", "icmp"}
  BY DEF IpPackets, IcmpMessages
<1>2. \A p \in ArpRequests \cup ArpReplies \cup Requests \cup Answers : p.type \notin {"ip", "icmp"}
  BY DEF ArpRequests, ArpReplies, Requests, Answers
<1>3. t.mine \subseteq IpPackets \cup IcmpMessages
  BY TrackFacts
<1>4. ASSUME NEW p \in IpPackets, p.ip_ttl > 1
      PROVE  (Decremented(p) \in t.mine <=> p \in t.mine) /\ Number(Decremented(p)) = Number(p)
  <2> PICK d : d = Decremented(p)
    OBVIOUS
  <2>1. /\ d \in IpPackets /\ d.type = p.type /\ d.id = p.id /\ d.from = p.from /\ d.dst = p.dst
    <3>1. p.ip_ttl - 1 \in 0..255
      BY <1>4 DEF IpPackets
    <3>. QED  BY <3>1 DEF Decremented, IpPackets
  <2>2. RouteOf(d) = RouteOf(p) /\ d.type = "ip" /\ p.type = "ip"
    BY <2>1 DEF RouteOf, IpPackets
  <2>3. \A i, h : d \in RoutedMine(i, h) <=> p \in RoutedMine(i, h)
    BY <2>1, <2>2 DEF RoutedMine, OnLine, IsIp
  <2>4. d \notin IcmpMessages /\ p \notin IcmpMessages
    BY <2>2 DEF IcmpMessages
  <2>5. (\E i, h : t.mine = RoutedMine(i, h)) \/ t.mine = IcmpMessages
    BY DEF Tracks, RoutedTracks, ReportTracks, RoutedTrack, ReportTrack
  <2>6. d \in t.mine <=> p \in t.mine
    BY <2>3, <2>4, <2>5
  <2>. QED  BY <2>1, <2>2, <2>6 DEF Number
<1>. QED  BY <1>1, <1>2, <1>3, <1>4

\* What waits for a next hop goes to it.
LEMMA WaitingType ==
  ASSUME PlacesRight, NEW h
  PROVE  WaitingPackets(h) \in Seq(GoingTo(h))
<1>1. CASE h \in DOMAIN m_arpreq_queue
  <2> PICK queue : queue = m_arpreq_queue[h]
    OBVIOUS
  <2> PICK n : n = Len(queue)
    OBVIOUS
  <2>1. queue \in Seq(WaitersFor(h))
    BY <1>1 DEF PlacesRight, WaitersRight
  <2>2. n \in Nat /\ DOMAIN queue = 1..n /\ \A k \in 1..n : queue[k] \in WaitersFor(h)
    BY <2>1, ElementOfSeq
  <2>3. \A w \in WaitersFor(h) : w.packet \in GoingTo(h)
    BY DEF WaitersFor, Waiting
  <2>4. [k \in 1..n |-> queue[k].packet] \in [1..n -> GoingTo(h)]
    BY <2>2, <2>3
  <2>5. WaitingPackets(h) = [k \in 1..n |-> queue[k].packet]
    BY <1>1, <2>2 DEF WaitingPackets
  <2>. QED  BY ONLY <2>2, <2>4, <2>5, ListOf
<1>2. CASE h \notin DOMAIN m_arpreq_queue
  BY <1>2 DEF WaitingPackets
<1>. QED  BY <1>1, <1>2

\* Each stage of a stream, and the mark of a packet, is a list of numbers.
LEMMA StageTypes ==
  ASSUME PlacesRight, NEW t \in Tracks
  PROVE  /\ IsList(Sent(t)) /\ IsList(Out(t)) /\ IsList(Held(t))
         /\ IsList(Switched(t)) /\ IsList(Coming(t)) /\ IsList(In(t))
<1>1. Numbered(t.mine) /\ t.from \in Interfaces /\ t.exit \in Interfaces
  BY TrackFacts
<1>2. IsList(Sent(t))
  BY <1>1, TakeType DEF PlacesRight, WireRight, Sent, IsList
<1>3. IsList(Out(t))
  BY <1>1, TakeType DEF PlacesRight, OutputsRight, Out, IsList
<1>4. IsList(Held(t))
  BY <1>1, TakeType, WaitingType DEF Held, IsList
<1>5. IsList(Switched(t))
  BY <1>1, TakeType DEF PlacesRight, SwitchRight, Switched, IsList
<1>6. IsList(Coming(t))
  BY <1>1, TakeType DEF PlacesRight, InputsRight, Coming, IsList
<1>7. IsList(In(t))
  BY <1>3, <1>4, <1>5, <1>6, ChainForms DEF In
<1>. QED  BY <1>2, <1>3, <1>4, <1>5, <1>6, <1>7

LEMMA MarkIs ==
  ASSUME NEW t \in Tracks, NEW p
  PROVE  Take(<<p>>, t.mine) = Mark(p, t) /\ IsList(Mark(p, t))
<1>1. Numbered(t.mine)
  BY TrackFacts
<1>2. Take(<<p>>, t.mine) = Mark(p, t)
  BY <1>1, TakeOne DEF Mark
<1>3. p \in t.mine => Number(p) \in Nat
  BY <1>1 DEF Numbered
<1>. QED  BY <1>2, <1>3 DEF Mark, IsList

\* A packet that comes in, one that is added to an output queue, one that is popped.
LEMMA PushTake ==
  ASSUME PlacesRight, Came \subseteq Came', NEW p \in Entering', Push(p), NEW t \in Tracks,
         p \in t.mine => p.from = t.from
  PROVE  Coming(t)' = Join(Coming(t), Mark(p, t))
<1>1. Numbered(t.mine) /\ t.from \in Interfaces
  BY TrackFacts
<1> PICK queue : queue = m_input_queue[t.from]
  OBVIOUS
<1>2. queue \in Seq(EnteringAt(t.from)') /\ queue \in Seq(Entering')
  <2>1. queue \in Seq(EnteringAt(t.from)) /\ EnteringAt(t.from) \subseteq Entering /\ Entering \subseteq Entering'
    BY <1>1, MorePlaces DEF PlacesRight, InputsRight, EnteringAt
  <2>2. EnteringAt(t.from) \subseteq EnteringAt(t.from)'
    BY MorePlaces
  <2>. QED  BY <2>1, <2>2, SeqMonotonic
<1>3. CASE p.from = t.from
  <2>1. m_input_queue'[t.from] = Append(queue, p)
    BY <1>1, <1>3 DEF Push, PlacesRight, InputsRight, PerInterface
  <2>2. Take(Append(queue, p), t.mine) = Take(queue, t.mine) \o Take(<<p>>, t.mine)
    BY ONLY <1>1, <1>2, p \in Entering', TakeAppend
  <2>. QED  BY <2>1, <2>2, MarkIs DEF Coming, Join
<1>4. CASE p.from # t.from
  <2>1. m_input_queue'[t.from] = queue
    BY <1>1, <1>4 DEF Push, PlacesRight, InputsRight, PerInterface
  <2>2. Mark(p, t) = <<>>
    BY <1>4 DEF Mark
  <2>3. Join(Coming(t), <<>>) = Coming(t)
    BY StageTypes, JoinLawsHold DEF JoinLaws
  <2>. QED  BY <2>1, <2>2, <2>3 DEF Coming
<1>. QED  BY <1>3, <1>4

LEMMA AddTake ==
  ASSUME PlacesRight, NEW i \in Interfaces, NEW p \in LeavingAt(i), AddPacketToOutputQueue(p, i),
         NEW t \in Tracks
  PROVE  Out(t)' = IF i = t.exit THEN Join(Out(t), Mark(p, t)) ELSE Out(t)
<1>1. Numbered(t.mine) /\ t.exit \in Interfaces
  BY TrackFacts
<1> PICK queue : queue = m_output_queue[t.exit]
  OBVIOUS
<1>2. CASE i = t.exit
  <2>0. queue \in Seq(LeavingAt(i))
    BY <1>2 DEF PlacesRight, OutputsRight
  <2>1. m_output_queue'[t.exit] = Append(queue, p)
    BY <1>1, <1>2 DEF AddPacketToOutputQueue, PlacesRight, OutputsRight, PerInterface
  <2>2. Take(Append(queue, p), t.mine) = Take(queue, t.mine) \o Take(<<p>>, t.mine)
    BY ONLY <1>1, <2>0, p \in LeavingAt(i), TakeAppend
  <2>. QED  BY <1>2, <2>1, <2>2, MarkIs DEF Out, Join
<1>3. CASE i # t.exit
  <2>1. m_output_queue'[t.exit] = queue
    BY <1>1, <1>3 DEF AddPacketToOutputQueue, PlacesRight, OutputsRight, PerInterface
  <2>. QED  BY <1>3, <2>1 DEF Out
<1>. QED  BY <1>2, <1>3

LEMMA PopTake ==
  ASSUME PlacesRight, NEW type, Switching(type), NEW t \in Tracks
  PROVE  Switched(t) = Join(Mark(popped, t), Switched(t)') /\ IsList(Switched(t)')
<1>1. /\ m_switch_queue # <<>> /\ m_switch_queue' = Tail(m_switch_queue)
      /\ m_switch_queue \in Seq(Entering) /\ Numbered(t.mine)
  BY TrackFacts DEF Switching, PlacesRight, SwitchRight
<1>2. Take(m_switch_queue, t.mine)
        = Take(<<Head(m_switch_queue)>>, t.mine) \o Take(Tail(m_switch_queue), t.mine)
  BY ONLY <1>1, TakeHead
<1>3. Take(<<popped>>, t.mine) = Mark(popped, t)
  BY MarkIs
<1>4. Tail(m_switch_queue) \in Seq(Entering)
  BY <1>1, HeadTailProperties
<1>5. Take(Tail(m_switch_queue), t.mine) \in Seq(Nat)
  BY <1>1, <1>4, TakeType
<1>. QED  BY <1>1, <1>2, <1>3, <1>5 DEF Switched, popped, Join, IsList

\* The stages of a stream that no step has touched.
LEMMA StagesKept ==
  ASSUME NEW t \in Tracks
  PROVE  /\ UNCHANGED wire => UNCHANGED Sent(t)
         /\ UNCHANGED m_output_queue => UNCHANGED Out(t)
         /\ UNCHANGED m_arpreq_queue => UNCHANGED Held(t)
         /\ UNCHANGED m_switch_queue => UNCHANGED Switched(t)
         /\ UNCHANGED m_input_queue => UNCHANGED Coming(t)
BY DEF Sent, Out, Held, Switched, Coming, WaitingPackets

\* What a step may do to a stream.
Stays(t) == UNCHANGED <<Sent(t), In(t)>>
Enters(t, list) == UNCHANGED Sent(t) /\ In(t)' = Join(In(t), list)
Leaves(t) == Sent(t)' = Join(Sent(t), Out(t)) /\ In(t) = Join(Out(t), In(t)')
Loses(t, list) == /\ UNCHANGED Sent(t)
                  /\ \E x, z : /\ IsList(x) /\ IsList(z)
                              /\ In(t) = Join(x, Join(list, z)) /\ In(t)' = Join(x, z)

\* The ways from one stage to the next, and out of the stages.
LEMMA Moves ==
  ASSUME PlacesRight, NEW t \in Tracks, NEW m, IsList(m)
  PROVE  /\ /\ Coming(t)' = Join(Coming(t), m)
            /\ UNCHANGED <<Out(t), Held(t), Switched(t)>>
            => In(t)' = Join(In(t), m)
         /\ /\ Switched(t)' = Join(Switched(t), Coming(t)) /\ Coming(t)' = <<>>
            /\ UNCHANGED <<Out(t), Held(t)>>
            => In(t)' = In(t)
         /\ /\ Switched(t) = Join(m, Switched(t)') /\ IsList(Switched(t)')
            /\ Held(t) = <<>> /\ Out(t)' = Join(Out(t), m)
            /\ UNCHANGED <<Held(t), Coming(t)>>
            => In(t)' = In(t)
         /\ /\ Switched(t) = Join(m, Switched(t)') /\ IsList(Switched(t)')
            /\ Held(t)' = Join(Held(t), m)
            /\ UNCHANGED <<Out(t), Coming(t)>>
            => In(t)' = In(t)
         /\ /\ Out(t)' = Join(Out(t), Held(t)) /\ Held(t)' = <<>>
            /\ UNCHANGED <<Switched(t), Coming(t)>>
            => In(t)' = In(t)
         /\ /\ Out(t)' = <<>>
            /\ UNCHANGED <<Held(t), Switched(t), Coming(t)>>
            => In(t) = Join(Out(t), In(t)')
<1> PICK b : b = Out(t)
  OBVIOUS
<1> PICK c : c = Held(t)
  OBVIOUS
<1> PICK d : d = Switched(t)
  OBVIOUS
<1> PICK e : e = Coming(t)
  OBVIOUS
<1> PICK f : f = Switched(t)'
  OBVIOUS
<1>1. IsList(b) /\ IsList(c) /\ IsList(d) /\ IsList(e)
  BY StageTypes
<1>2. In(t) = Chain(b, c, d, e)
  BY DEF In
<1>3. In(t)' = Chain(Out(t)', Held(t)', Switched(t)', Coming(t)')
  BY DEF In
<1>4. /\ Chain(b, c, d, Join(e, m)) = Join(Chain(b, c, d, e), m)
      /\ Chain(b, c, Join(d, e), <<>>) = Chain(b, c, d, e)
      /\ Chain(Join(b, c), <<>>, d, e) = Chain(b, c, d, e)
      /\ Chain(b, c, d, e) = Join(b, Chain(<<>>, c, d, e))
  BY ONLY <1>1, IsList(m), ChainShifts
<1>5. IsList(f) => /\ Chain(Join(b, m), <<>>, f, e) = Chain(b, <<>>, Join(m, f), e)
                   /\ Chain(b, Join(c, m), f, e) = Chain(b, c, Join(m, f), e)
  BY ONLY <1>1, IsList(m), ChainShifts
<1>. QED  BY <1>2, <1>3, <1>4, <1>5

\* A stream loses what is popped and put nowhere, or all that waited.
LEMMA LosesOne ==
  ASSUME PlacesRight, NEW t \in Tracks, NEW m, IsList(m), IsList(Switched(t)'),
         Switched(t) = Join(m, Switched(t)'),
         UNCHANGED <<Sent(t), Out(t), Held(t), Coming(t)>>
  PROVE  Loses(t, m)
<1> PICK b : b = Out(t)
  OBVIOUS
<1> PICK c : c = Held(t)
  OBVIOUS
<1> PICK d : d = Switched(t)'
  OBVIOUS
<1> PICK e : e = Coming(t)
  OBVIOUS
<1>1. IsList(b) /\ IsList(c) /\ IsList(d) /\ IsList(e)
  BY StageTypes
<1>2. In(t) = Chain(b, c, Join(m, d), e) /\ In(t)' = Chain(b, c, d, e)
  BY DEF In
<1>3. /\ Chain(b, c, Join(m, d), e) = Join(Join(b, c), Join(m, Join(d, e)))
      /\ Chain(b, c, d, e) = Join(Join(b, c), Join(d, e))
  BY ONLY <1>1, IsList(m), ChainShifts
<1>4. IsList(Join(b, c)) /\ IsList(Join(d, e))
  BY ONLY <1>1, JoinLawsHold DEF JoinLaws
<1>. QED  BY <1>2, <1>3, <1>4 DEF Loses

LEMMA LosesHeld ==
  ASSUME PlacesRight, NEW t \in Tracks, Held(t)' = <<>>,
         UNCHANGED <<Sent(t), Out(t), Switched(t), Coming(t)>>
  PROVE  Loses(t, Held(t))
<1> PICK b : b = Out(t)
  OBVIOUS
<1> PICK c : c = Held(t)
  OBVIOUS
<1> PICK d : d = Switched(t)
  OBVIOUS
<1> PICK e : e = Coming(t)
  OBVIOUS
<1>1. IsList(b) /\ IsList(c) /\ IsList(d) /\ IsList(e)
  BY StageTypes
<1>2. In(t) = Chain(b, c, d, e) /\ In(t)' = Chain(b, <<>>, d, e)
  BY DEF In
<1>3. Chain(b, c, d, e) = Join(b, Join(c, Join(d, e))) /\ Chain(b, <<>>, d, e) = Join(b, Join(d, e))
  BY ONLY <1>1, ChainForms
<1>4. IsList(Join(d, e))
  BY ONLY <1>1, JoinLawsHold DEF JoinLaws
<1>. QED  BY <1>1, <1>2, <1>3, <1>4 DEF Loses

\* A packet that comes in enters its streams; ARP packets enter none.
LEMMA ArrivalEnters ==
  ASSUME PlacesRight, NEW p, Arrives(p), NEW t \in Tracks
  PROVE  Enters(t, Mark(p, t))
<1>1. /\ Push(p) /\ p \in IpPackets /\ Came \subseteq Came' /\ p \in Entering'
      /\ UNCHANGED <<m_switch_queue, m_output_queue, m_arpreq_queue, wire>>
  BY DEF Arrives, Entering
<1>2. p \in t.mine => p.from = t.from
  BY <1>1, TrackFacts
<1>3. Coming(t)' = Join(Coming(t), Mark(p, t))
  BY <1>1, <1>2, PushTake
<1>4. UNCHANGED <<Sent(t), Out(t), Held(t), Switched(t)>>
  BY <1>1, StagesKept
<1>. QED  BY <1>3, <1>4, MarkIs, Moves DEF Enters

LEMMA NeighbourStays ==
  ASSUME PlacesRight, NEW p \in ArpRequests \cup ArpReplies, Push(p),
         UNCHANGED <<m_switch_queue, m_output_queue, m_arpreq_queue, wire, arrived>>,
         NEW t \in Tracks
  PROVE  Stays(t)
<1>1. p \in Entering' /\ Came \subseteq Came'
  BY SamePlaces DEF Entering
<1>2. p \notin t.mine
  BY TrackKeeps
<1>3. Coming(t)' = Join(Coming(t), Mark(p, t)) /\ Mark(p, t) = <<>>
  BY <1>1, <1>2, PushTake DEF Mark
<1>4. Coming(t)' = Coming(t)
  BY <1>3, StageTypes, JoinLawsHold DEF JoinLaws
<1>5. UNCHANGED <<Sent(t), Out(t), Held(t), Switched(t)>>
  BY StagesKept
<1>. QED  BY <1>4, <1>5 DEF Stays, In

\* The intake moves a stream from one stage to the next.
LEMMA IntakeStays ==
  ASSUME PlacesRight, NEW i \in Interfaces, Intake(i), NEW t \in Tracks
  PROVE  Stays(t)
<1>1. /\ m_switch_queue' = m_switch_queue \o m_input_queue[i]
      /\ m_input_queue' = [m_input_queue EXCEPT ![i] = <<>>]
      /\ UNCHANGED <<m_output_queue, m_arpreq_queue, wire>>
  BY DEF Intake, arpVars, wireVars
<1>2. UNCHANGED <<Sent(t), Out(t), Held(t)>>
  BY <1>1, StagesKept
<1> PICK queue : queue = m_input_queue[i]
  OBVIOUS
<1>3. queue \in Seq(EnteringAt(i)) /\ EnteringAt(i) \subseteq Entering /\ m_switch_queue \in Seq(Entering)
  BY DEF PlacesRight, InputsRight, SwitchRight, EnteringAt
<1>4. queue \in Seq(Entering)
  BY <1>3, SeqMonotonic
<1>5. Numbered(t.mine) /\ t.from \in Interfaces
  BY TrackFacts
<1>6. Take(m_switch_queue \o queue, t.mine) = Take(m_switch_queue, t.mine) \o Take(queue, t.mine)
  BY ONLY <1>3, <1>4, <1>5, TakeJoin
<1>7. CASE i = t.from
  <2>1. m_input_queue'[t.from] = <<>>
    BY <1>1, <1>5, <1>7 DEF PlacesRight, InputsRight, PerInterface
  <2>2. Coming(t)' = <<>>
    BY <2>1, TakeNone DEF Coming
  <2>3. Switched(t)' = Join(Switched(t), Coming(t))
    BY <1>1, <1>6, <1>7 DEF Switched, Coming, Join
  <2>4. IsList(<<>>)
    BY JoinLawsHold DEF JoinLaws
  <2>. QED  BY <1>2, <2>2, <2>3, <2>4, Moves DEF Stays
<1>8. CASE i # t.from
  <2>1. UNCHANGED Coming(t)
    BY <1>1, <1>5, <1>8 DEF PlacesRight, InputsRight, PerInterface, Coming
  <2>2. ASSUME NEW k \in DOMAIN queue
        PROVE  queue[k] \notin t.mine
    <3>1. queue[k] \in Entering /\ queue[k].from = i
      BY <1>3, ElementOfSeq, LenProperties DEF EnteringAt
    <3>2. queue[k] \in IpPackets \/ queue[k] \in ArpRequests \/ queue[k] \in ArpReplies
      BY <3>1, CameType DEF Entering
    <3>. QED  BY <1>8, <3>1, <3>2, TrackFacts, TrackKeeps
  <2>3. Take(queue, t.mine) = <<>>
    BY <2>2, TakeNone
  <2>4. Switched(t)' = Switched(t)
    <3>1. Switched(t)' = Join(Switched(t), <<>>)
      BY <1>1, <1>6, <2>3 DEF Switched, Join
    <3>. QED  BY <3>1, StageTypes, JoinLawsHold DEF JoinLaws
  <2>. QED  BY <1>2, <2>1, <2>4 DEF Stays, In
<1>. QED  BY <1>7, <1>8

-----------------------------------------------------------------------------
(* What each action does to a stream.                                      *)

\* No report stands where packets come in.
LEMMA EnteringNoReport ==
  ASSUME PlacesRight, NEW p \in Entering
  PROVE  p.type # "icmp"
<1>1. \A q \in Came : q.type = "ip"
  BY CameType
<1>2. (\A q \in ArpRequests : q.type = "request") /\ \A q \in ArpReplies : q.type = "reply"
  BY DEF ArpRequests, ArpReplies
<1>. QED  BY <1>1, <1>2 DEF Entering

\* What waits for a next hop is in no stream but one through it.
LEMMA HeldNone ==
  ASSUME PlacesRight, NEW t \in Tracks,
         \/ t.hop \notin DOMAIN m_arpreq_queue
         \/ \A p \in GoingTo(t.hop) : p \notin t.mine
  PROVE  Held(t) = <<>>
<1> PICK queue : queue = WaitingPackets(t.hop)
  OBVIOUS
<1>1. queue \in Seq(GoingTo(t.hop))
  BY WaitingType
<1>2. \A k \in DOMAIN queue : queue[k] \in GoingTo(t.hop)
  BY <1>1, ElementOfSeq
<1>3. t.hop \notin DOMAIN m_arpreq_queue => queue = <<>>
  BY DEF WaitingPackets
<1>4. \A k \in DOMAIN queue : queue[k] \notin t.mine
  BY <1>2, <1>3
<1>5. Take(queue, t.mine) = <<>>
  BY ONLY <1>4, TakeNone
<1>. QED  BY <1>5 DEF Held

\* A packet that goes to a next hop is in a stream only if that goes there too.
LEMMA GoingMine ==
  ASSUME PlacesRight, NEW t \in Tracks, NEW h, NEW p \in GoingTo(h), p \in t.mine
  PROVE  /\ p \in IpPackets /\ t.hop = h /\ h \in Hops /\ t.exit = InterfaceTo(h)
         /\ RouteOf(p).interface_name = t.exit
<1>1. p \in Came /\ RouteOf(p).next_hop = h
  BY DEF GoingTo
<1>2. p \in IpPackets
  BY <1>1, CameType
<1>. QED  BY <1>1, <1>2, TrackFacts, RouteRight

\* Reports are written where they leave: a stream of reports has no other stage.
LEMMA ReportsOnly ==
  ASSUME PlacesRight, NEW t \in ReportTracks
  PROVE  In(t) = Out(t)
<1>1. t \in Tracks
  BY DEF Tracks
<1>2. t.mine = IcmpMessages
  BY <1>1, TrackFacts
<1>3. \A p \in Entering : p \notin t.mine
  <2>1. \A p \in Entering : p.type # "icmp"
    BY EnteringNoReport
  <2>. QED  BY <1>2, <2>1 DEF IcmpMessages
<1>4. Held(t) = <<>>
  <2>1. \A p \in GoingTo(t.hop) : p \in Entering
    BY DEF GoingTo, Entering
  <2>. QED  BY <1>1, <1>3, <2>1, HeldNone
<1>5. Switched(t) = <<>>
  <2>1. \A k \in DOMAIN m_switch_queue : m_switch_queue[k] \in Entering
    BY ElementOfSeq DEF PlacesRight, SwitchRight
  <2>2. \A k \in DOMAIN m_switch_queue : m_switch_queue[k] \notin t.mine
    BY ONLY <1>3, <2>1
  <2>. QED  BY <2>2, TakeNone DEF Switched
<1>6. Coming(t) = <<>>
  <2> PICK queue : queue = m_input_queue[t.from]
    OBVIOUS
  <2>1. queue \in Seq(EnteringAt(t.from))
    BY <1>1, TrackFacts DEF PlacesRight, InputsRight
  <2>2. \A k \in DOMAIN queue : queue[k] \in Entering
    BY <2>1, ElementOfSeq DEF EnteringAt
  <2>3. \A k \in DOMAIN queue : queue[k] \notin t.mine
    BY ONLY <1>3, <2>2
  <2>4. Take(queue, t.mine) = <<>>
    BY ONLY <2>3, TakeNone
  <2>. QED  BY <2>4 DEF Coming
<1>7. In(t) = Chain(Out(t), <<>>, <<>>, <<>>)
  BY <1>4, <1>5, <1>6 DEF In
<1>8. IsList(Out(t))
  BY <1>1, StageTypes
<1>. QED  BY <1>7, <1>8, JoinLawsHold DEF JoinLaws, Chain

ReportsLeave == PlacesRight => \A t \in ReportTracks : In(t) = Out(t)

LEMMA ReportsNow == ReportsLeave
BY ReportsOnly DEF ReportsLeave

LEMMA ReportsNext == ReportsLeave'
BY ReportsNow, PTL

\* The packet on top goes straight to an output queue, changed or as a report.
LEMMA PassesStays ==
  ASSUME PlacesRight, NEW type, Switching(type), UNCHANGED m_arpreq_queue,
         NEW i \in Interfaces, NEW q \in LeavingAt(i), AddPacketToOutputQueue(q, i),
         NEW t \in Tracks,
         popped \in t.mine => i = t.exit /\ Mark(q, t) = Mark(popped, t) /\ Held(t) = <<>>,
         popped \notin t.mine /\ i = t.exit => q \notin t.mine
  PROVE  Stays(t)
<1>1. UNCHANGED <<m_input_queue, wire>>
  BY DEF Switching, wireVars
<1>2. UNCHANGED <<Sent(t), Held(t), Coming(t)>>
  BY <1>1, StagesKept
<1> PICK m : m = Mark(popped, t)
  OBVIOUS
<1>3. Switched(t) = Join(m, Switched(t)') /\ IsList(Switched(t)') /\ IsList(m)
  BY PopTake, MarkIs
<1>4. Out(t)' = IF i = t.exit THEN Join(Out(t), Mark(q, t)) ELSE Out(t)
  BY AddTake
<1>5. CASE popped \in t.mine
  BY <1>2, <1>3, <1>4, <1>5, Moves DEF Stays
<1>6. CASE popped \notin t.mine
  <2>1. m = <<>> /\ (i = t.exit => Mark(q, t) = <<>>)
    BY <1>6 DEF Mark
  <2>2. Switched(t) = Switched(t)'
    BY <1>3, <2>1, JoinLawsHold DEF JoinLaws
  <2>3. Out(t)' = Out(t)
    BY <1>4, <2>1, StageTypes, JoinLawsHold DEF JoinLaws
  <2>. QED  BY <1>2, <2>2, <2>3 DEF Stays, In
<1>. QED  BY <1>5, <1>6

\* A packet that is only popped.
LEMMA PoppedOnly ==
  ASSUME PlacesRight, NEW type, Switching(type), UNCHANGED m_arpreq_queue,
         NEW t \in Tracks, UNCHANGED Out(t)
  PROVE  Loses(t, Mark(popped, t)) /\ (popped \notin t.mine => Stays(t))
<1>1. UNCHANGED <<m_input_queue, wire>>
  BY DEF Switching, wireVars
<1>2. UNCHANGED <<Sent(t), Out(t), Held(t), Coming(t)>>
  BY <1>1, StagesKept
<1> PICK m : m = Mark(popped, t)
  OBVIOUS
<1>3. Switched(t) = Join(m, Switched(t)') /\ IsList(Switched(t)') /\ IsList(m)
  BY PopTake, MarkIs
<1>4. Loses(t, m)
  BY <1>2, <1>3, LosesOne
<1>5. ASSUME popped \notin t.mine
      PROVE  Stays(t)
  <2>1. m = <<>>
    BY <1>5 DEF Mark
  <2>2. Switched(t) = Switched(t)'
    BY <1>3, <2>1, JoinLawsHold DEF JoinLaws
  <2>. QED  BY <1>2, <2>2 DEF Stays, In
<1>. QED  BY <1>4, <1>5

\* A packet whose route is not in use leaves its stream, and the stream of reports of
\* the interface it came from gets one about it.
LEMMA LPMMissReports ==
  ASSUME PlacesRight, PlacesRight', LPMMiss, NEW t \in Tracks
  PROVE  /\ popped \in Came /\ Lives(popped)
         /\ t \in RoutedTracks => Loses(t, Mark(popped, t)) /\ (popped \notin t.mine => Stays(t))
         /\ t \in ReportTracks => IF t = ReportTrack(popped.from) THEN Enters(t, <<popped.id>>)
                                  ELSE Stays(t)
<1>1. /\ Switching("ip") /\ UNCHANGED m_arpreq_queue
      /\ popped.ip_ttl > 1
      /\ AddPacketToOutputQueue(Report(popped), popped.from)
  BY DEF LPMMiss, arpVars, Report
<1>2. popped \in Came
  BY <1>1, PoppedRight, EnteringTypes
<1>3. popped \in IpPackets /\ popped.from \in Interfaces /\ popped.type = "ip" /\ popped.id \in 1..MaxPackets
  BY <1>2, CameType
<1> PICK q : q = Report(popped)
  OBVIOUS
<1>4. q \in LeavingAt(popped.from)
  BY <1>1, <1>2 DEF LeavingAt, OnWire, CameBy, Lives
<1>5. q \in IcmpMessages /\ q.type = "icmp" /\ popped \notin IcmpMessages
  BY <1>3 DEF Report, IcmpMessages
<1>6. UNCHANGED <<m_input_queue, wire>>
  BY <1>1 DEF Switching, wireVars
<1>7. UNCHANGED <<Sent(t), Held(t), Coming(t)>>
  BY <1>1, <1>6, StagesKept
<1>8. Out(t)' = IF popped.from = t.exit THEN Join(Out(t), Mark(q, t)) ELSE Out(t)
  BY <1>1, <1>3, <1>4, AddTake
<1>9. ASSUME t \in RoutedTracks
      PROVE  Loses(t, Mark(popped, t)) /\ (popped \notin t.mine => Stays(t))
  <2>1. q \notin t.mine
    <3>1. \A p \in IpPackets : p.type = "ip"
      BY DEF IpPackets
    <3>. QED  BY <1>5, <1>9, <3>1, TrackFacts
  <2>2. Mark(q, t) = <<>>
    BY <2>1 DEF Mark
  <2>3. Out(t)' = Out(t)
    BY <1>8, <2>2, StageTypes, JoinLawsHold DEF JoinLaws
  <2>. QED  BY <1>1, <1>7, <2>3, PoppedOnly
<1>10. ASSUME t \in ReportTracks
       PROVE  IF t = ReportTrack(popped.from) THEN Enters(t, <<popped.id>>) ELSE Stays(t)
  <2>1. t.exit = t.from /\ (t = ReportTrack(popped.from) <=> t.from = popped.from)
    BY <1>10, TrackFacts DEF ReportTrack
  <2>3. Mark(q, t) = <<popped.id>>
    BY <1>5, <1>10, TrackFacts DEF Mark, Number, Report
  <2>2. In(t) = Out(t) /\ In(t)' = Out(t)'
    BY <1>10, ReportsNow, ReportsNext DEF ReportsLeave
  <2>. QED  BY <1>7, <1>8, <2>1, <2>2, <2>3 DEF Enters, Stays
<1>. QED  BY <1>1, <1>2, <1>9, <1>10 DEF Lives

\* A packet that finds the address cannot pass others: none is waiting.
LEMMA CacheHitStays ==
  ASSUME PlacesRight, ArpTablesAgree, ~aborted, CacheHit, NEW t \in Tracks
  PROVE  Stays(t)
<1> PICK i : i = RouteOf(popped).interface_name
  OBVIOUS
<1>1. /\ Switching("ip") /\ UNCHANGED m_arpreq_queue /\ Lives(popped)
      /\ RouteOf(popped).next_hop \in DOMAIN m_arp_cache
      /\ AddPacketToOutputQueue(Decremented(popped), i)
  BY DEF CacheHit, LPMHit, Lives, arpVars
<1>2. popped \in Came
  BY <1>1, PoppedRight, EnteringTypes
<1>3. popped \in IpPackets /\ i \in Interfaces /\ Decremented(popped) \in LeavingAt(i)
  BY <1>1, <1>2, RoutedRight
<1>4. (Decremented(popped) \in t.mine <=> popped \in t.mine) /\ Number(Decremented(popped)) = Number(popped)
  BY <1>1, <1>3, TrackKeeps DEF Lives
<1>5. ASSUME popped \in t.mine
      PROVE  i = t.exit /\ Held(t) = <<>>
  <2>1. t.hop = RouteOf(popped).next_hop /\ t.exit = i
    BY <1>1, <1>3, <1>5, TrackFacts DEF Lives
  <2>2. t.hop \notin DOMAIN m_arpreq_queue
    BY <1>1, <2>1 DEF ArpTablesAgree
  <2>. QED  BY <2>1, <2>2, HeldNone
<1>6. Mark(Decremented(popped), t) = Mark(popped, t)
  BY <1>4 DEF Mark
<1>. QED  BY <1>1, <1>3, <1>4, <1>5, <1>6, PassesStays

LEMMA ArpRequestStays ==
  ASSUME PlacesRight, HandleArpRequestToMe, NEW t \in Tracks
  PROVE  Stays(t)
<1> PICK q : q = [type |-> "answer"]
  OBVIOUS
<1>1. Switching("request") /\ UNCHANGED m_arpreq_queue /\ AddPacketToOutputQueue(q, popped.from)
  BY DEF HandleArpRequestToMe, arpVars
<1>2. popped \in ArpRequests
  BY <1>1, PoppedRight, EnteringTypes
<1>3. popped.from \in Interfaces /\ q \in Answers
  BY <1>2 DEF ArpRequests, Answers
<1>4. popped \notin t.mine /\ q \notin t.mine
  BY <1>2, <1>3, TrackKeeps
<1>5. q \in LeavingAt(popped.from)
  BY <1>3 DEF LeavingAt
<1>. QED  BY <1>1, <1>3, <1>4, <1>5, PassesStays

LEMMA TTLExpiredLoses ==
  ASSUME PlacesRight, TTLExpired, NEW t \in Tracks
  PROVE  Loses(t, Mark(popped, t)) /\ (popped \notin t.mine => Stays(t))
<1>1. Switching("ip") /\ UNCHANGED <<m_arpreq_queue, m_output_queue>>
  BY DEF TTLExpired, arpVars
<1>2. UNCHANGED Out(t)
  BY <1>1, StagesKept
<1>. QED  BY <1>1, <1>2, PoppedOnly

LEMMA UnexpectedStays ==
  ASSUME PlacesRight, UnexpectedArpReply, NEW t \in Tracks
  PROVE  Stays(t)
<1>1. Switching("reply") /\ UNCHANGED <<m_arpreq_queue, m_output_queue>>
  BY DEF UnexpectedArpReply
<1>2. popped \in ArpReplies
  BY <1>1, PoppedRight, EnteringTypes
<1>3. UNCHANGED Out(t)
  BY <1>1, StagesKept
<1>. QED  BY <1>1, <1>2, <1>3, TrackKeeps, PoppedOnly

\* A packet that has to wait goes behind those that wait already.
LEMMA CacheMissStays ==
  ASSUME PlacesRight, CacheMiss, NEW t \in Tracks
  PROVE  Stays(t)
<1> PICK hop : hop = RouteOf(popped).next_hop
  OBVIOUS
<1> PICK w : w = Waiting(popped)
  OBVIOUS
<1> PICK p : p = popped
  OBVIOUS
<1>1. /\ Switching("ip") /\ Lives(p) /\ UNCHANGED m_output_queue
      /\ IF hop \in DOMAIN m_arpreq_queue
         THEN m_arpreq_queue' = [m_arpreq_queue EXCEPT ![hop] = Append(@, w)]
         ELSE m_arpreq_queue' = Put(m_arpreq_queue, hop, <<w>>)
  BY DEF CacheMiss, LPMHit, Lives, ArpCacheQueueReq
<1>2. UNCHANGED <<m_input_queue, wire>>
  BY <1>1 DEF Switching, wireVars
<1>3. p \in Came
  BY <1>1, PoppedRight, EnteringTypes
<1>4. p \in IpPackets /\ p \in GoingTo(hop) /\ w \in WaitersFor(hop) /\ w.packet = p
  BY <1>1, <1>3, RoutedRight DEF Waiting
<1>5. UNCHANGED <<Sent(t), Out(t), Coming(t)>>
  BY <1>1, <1>2, StagesKept
<1>6. Held(t)' = Join(Held(t), Mark(p, t))
  <2>1. CASE t.hop = hop
    <3> PICK s : s = WaitingPackets(hop)
      OBVIOUS
    <3>1. s \in Seq(GoingTo(hop))
      BY WaitingType
    <3>2. WaitingPackets(hop)' = Append(s, p)
      <4>1. CASE hop \in DOMAIN m_arpreq_queue
        <5> PICK queue : queue = m_arpreq_queue[hop]
          OBVIOUS
        <5> PICK more : more = Append(queue, w)
          OBVIOUS
        <5> PICK n : n = Len(queue)
          OBVIOUS
        <5>1. queue \in Seq(WaitersFor(hop))
          BY <4>1 DEF PlacesRight, WaitersRight
        <5>2. /\ n \in Nat /\ DOMAIN queue = 1..n
              /\ DOMAIN more = 1..(n + 1)
              /\ \A k \in 1..n : more[k] = queue[k]
              /\ more[n + 1] = w
          BY <1>4, <5>1, AppendProperties
        <5>3. m_arpreq_queue'[hop] = more /\ hop \in DOMAIN m_arpreq_queue'
          BY <1>1, <4>1
        <5>4. WaitingPackets(hop)' = [k \in 1..(n + 1) |-> more[k].packet]
          BY <5>2, <5>3 DEF WaitingPackets
        <5>5. s = [k \in 1..n |-> queue[k].packet]
          BY <4>1, <5>2 DEF WaitingPackets
        <5>6. Len(s) = n /\ Append(s, p) = [k \in 1..(n + 1) |-> IF k <= n THEN s[k] ELSE p]
          BY <5>2, <5>5
        <5>7. \A k \in 1..(n + 1) : more[k].packet = IF k <= n THEN s[k] ELSE p
          BY <1>4, <5>2, <5>5
        <5>. QED  BY <5>4, <5>6, <5>7
      <4>2. CASE hop \notin DOMAIN m_arpreq_queue
        <5>1. m_arpreq_queue'[hop] = <<w>> /\ hop \in DOMAIN m_arpreq_queue'
          BY <1>1, <4>2 DEF Put
        <5>2. WaitingPackets(hop)' = <<p>>
          BY <1>4, <5>1 DEF WaitingPackets
        <5>3. s = <<>>
          BY <4>2 DEF WaitingPackets
        <5>. QED  BY <5>2, <5>3
      <4>. QED  BY <4>1, <4>2
    <3>3. Numbered(t.mine)
      BY TrackFacts
    <3>4. Take(Append(s, p), t.mine) = Take(s, t.mine) \o Take(<<p>>, t.mine)
      BY ONLY <1>4, <3>1, <3>3, TakeAppend
    <3>. QED  BY <2>1, <3>2, <3>4, MarkIs DEF Held, Join
  <2>2. CASE t.hop # hop
    <3>1. \A h : h # hop => WaitingPackets(h)' = WaitingPackets(h)
      <4>1. \A h : h # hop => /\ h \in DOMAIN m_arpreq_queue' <=> h \in DOMAIN m_arpreq_queue
                              /\ h \in DOMAIN m_arpreq_queue => m_arpreq_queue'[h] = m_arpreq_queue[h]
        BY <1>1 DEF Put
      <4>. QED  BY <4>1 DEF WaitingPackets
    <3>2. Held(t)' = Held(t)
      BY <2>2, <3>1 DEF Held
    <3>3. p \notin t.mine
      BY <1>4, <2>2, GoingMine
    <3>4. Mark(p, t) = <<>>
      BY <3>3 DEF Mark
    <3>. QED  BY <3>2, <3>4, StageTypes, JoinLawsHold DEF JoinLaws
  <2>. QED  BY <2>1, <2>2
<1>7. Switched(t) = Join(Mark(p, t), Switched(t)') /\ IsList(Switched(t)') /\ IsList(Mark(p, t))
  BY <1>1, PopTake, MarkIs
<1>. QED  BY <1>5, <1>6, <1>7, Moves DEF Stays

\* What is released for a next hop to the interface of a stream: all of the stream that
\* waited, and nothing of it when the stream goes another way.
LEMMA ReleasedHeld ==
  ASSUME PlacesRight, NEW hop \in DOMAIN m_arpreq_queue, NEW waiting, waiting = m_arpreq_queue[hop],
         NEW t \in Tracks, NEW q \in GoingTo(hop), q \in t.mine
  PROVE  Take(Released(For(t.exit, waiting)), t.mine) = Held(t)
<1> PICK n : n = Len(waiting)
  OBVIOUS
<1>1. waiting \in Seq(WaitersFor(hop))
  BY DEF PlacesRight, WaitersRight
<1>2. n \in Nat /\ DOMAIN waiting = 1..n /\ \A k \in 1..n : waiting[k] \in WaitersFor(hop)
  BY <1>1, ElementOfSeq
<1>3. t.hop = hop /\ t.exit = InterfaceTo(hop)
  BY GoingMine
<1>4. ASSUME NEW k \in 1..n
      PROVE  /\ waiting[k].iface = t.exit
             /\ waiting[k].packet \in IpPackets /\ waiting[k].packet.ip_ttl > 1
  <2>1. PICK p \in GoingTo(hop) : waiting[k] = Waiting(p)
    BY <1>2 DEF WaitersFor
  <2>2. p \in Came /\ p.ip_ttl > 1 /\ RouteOf(p).next_hop = hop
    BY DEF GoingTo, Lives
  <2>3. p \in IpPackets
    BY <2>2, CameType
  <2>4. RouteOf(p).interface_name = InterfaceTo(hop)
    BY <2>2, <2>3, RouteRight
  <2>. QED  BY <1>3, <2>1, <2>2, <2>3, <2>4 DEF Waiting
<1>5. {k \in DOMAIN waiting : waiting[k].iface = t.exit} = 1..Len(waiting)
  BY <1>2, <1>4
<1>6. At(waiting, 1..Len(waiting)) = waiting
  BY ONLY <1>1, AtAll
<1>7. For(t.exit, waiting) = waiting
  BY <1>5, <1>6 DEF For
<1> PICK out : out = Released(waiting)
  OBVIOUS
<1> PICK held : held = WaitingPackets(hop)
  OBVIOUS
<1>8. DOMAIN out = 1..n /\ \A k \in 1..n : out[k] = Decremented(waiting[k].packet)
  BY DEF Released
<1>9. DOMAIN held = 1..n /\ \A k \in 1..n : held[k] = waiting[k].packet
  BY <1>2 DEF WaitingPackets
<1>10. \A k \in 1..n : /\ out[k] \in t.mine <=> held[k] \in t.mine
                       /\ Number(out[k]) = Number(held[k])
  BY <1>4, <1>8, <1>9, TrackKeeps
<1>11. Take(out, t.mine) = Take(held, t.mine)
  BY <1>8, <1>9, <1>10, TakeSame
<1>. QED  BY <1>3, <1>7, <1>11 DEF Held

\* The packets that waited go out before all that come after them.
LEMMA ReplyStays ==
  ASSUME PlacesRight, HandleArpReplyToMe, NEW t \in Tracks
  PROVE  Stays(t)
<1> PICK hop : hop = popped.ar_sip
  OBVIOUS
<1> PICK waiting : waiting = m_arpreq_queue[hop]
  OBVIOUS
<1> PICK more : more = Released(For(t.exit, waiting))
  OBVIOUS
<1> PICK queue : queue = m_output_queue[t.exit]
  OBVIOUS
<1>1. /\ Switching("reply") /\ hop \in DOMAIN m_arpreq_queue
      /\ m_output_queue' = [i \in Interfaces |-> m_output_queue[i] \o Released(For(i, waiting))]
      /\ m_arpreq_queue' = Erase(m_arpreq_queue, hop)
  BY DEF HandleArpReplyToMe
<1>2. UNCHANGED <<m_input_queue, wire>>
  BY <1>1 DEF Switching, wireVars
<1>3. UNCHANGED <<Sent(t), Coming(t)>>
  BY <1>2, StagesKept
<1>4. popped \notin t.mine
  BY <1>1, PoppedRight, EnteringTypes, TrackKeeps
<1>5. UNCHANGED Switched(t)
  <2>1. Mark(popped, t) = <<>>
    BY <1>4 DEF Mark
  <2>2. Switched(t) = Join(<<>>, Switched(t)') /\ IsList(Switched(t)')
    BY <1>1, <2>1, PopTake
  <2>. QED  BY <2>2, JoinLawsHold DEF JoinLaws
<1>6. Numbered(t.mine) /\ t.exit \in Interfaces
  BY TrackFacts
<1>7. waiting \in Seq(WaitersFor(hop))
  BY <1>1 DEF PlacesRight, WaitersRight
<1>8. more \in Seq(ReleasedBy(hop, t.exit))
  <2>1. Released(For(t.exit, waiting)) \in Seq(ReleasedBy(hop, t.exit))
    BY ONLY <1>7, ReleasedRight
  <2>. QED  BY <2>1
<1>9. more \in Seq(LeavingAt(t.exit)) /\ queue \in Seq(LeavingAt(t.exit))
  <2>1. ReleasedBy(hop, t.exit) \subseteq LeavingAt(t.exit)
    BY DEF ReleasedBy, GoingTo, LeavingAt, OnWire, LeavingBy
  <2>. QED  BY <1>6, <1>8, <2>1, SeqMonotonic DEF PlacesRight, OutputsRight
<1>10. Take(queue \o more, t.mine) = Take(queue, t.mine) \o Take(more, t.mine)
  BY ONLY <1>6, <1>9, TakeJoin
<1>11. Out(t)' = Join(Out(t), Take(more, t.mine))
  <2>1. m_output_queue'[t.exit] = queue \o more
    BY <1>1, <1>6
  <2>. QED  BY <1>10, <2>1 DEF Out, Join
<1>12. t.hop = hop => Held(t)' = <<>>
  <2>1. ASSUME t.hop = hop
        PROVE  WaitingPackets(t.hop)' = <<>>
    BY <1>1, <2>1 DEF WaitingPackets, Erase
  <2>2. Take(<<>>, t.mine) = <<>>
    BY TakeNone
  <2>. QED  BY <2>1, <2>2 DEF Held
<1>13. t.hop # hop => Held(t)' = Held(t)
  BY <1>1 DEF Held, WaitingPackets, Erase
<1>14. CASE \E q \in GoingTo(hop) : q \in t.mine
  <2>1. PICK q \in GoingTo(hop) : q \in t.mine
    BY <1>14
  <2>2. t.hop = hop
    BY <2>1, GoingMine
  <2>3. Take(Released(For(t.exit, waiting)), t.mine) = Held(t)
    BY <1>1, <2>1, ReleasedHeld
  <2>. QED  BY <1>3, <1>5, <1>11, <1>12, <2>2, <2>3, Moves, JoinLawsHold DEF Stays, JoinLaws
<1>15. CASE \A q \in GoingTo(hop) : q \notin t.mine
  <2>1. ASSUME NEW k \in DOMAIN more
        PROVE  more[k] \notin t.mine
    <3>1. more[k] \in ReleasedBy(hop, t.exit)
      BY <1>8, ElementOfSeq
    <3>2. PICK q \in GoingTo(hop) : more[k] = Decremented(q)
      BY <3>1 DEF ReleasedBy
    <3>3. q \in Came /\ q.ip_ttl > 1
      BY DEF GoingTo, Lives
    <3>4. q \in IpPackets
      BY <3>3, CameType
    <3>. QED  BY <1>15, <3>2, <3>3, <3>4, TrackKeeps
  <2>2. Take(more, t.mine) = <<>>
    BY <2>1, TakeNone
  <2>3. Out(t)' = Out(t)
    BY <1>11, <2>2, StageTypes, JoinLawsHold DEF JoinLaws
  <2>4. Held(t)' = Held(t)
    BY <1>12, <1>13, <1>15, HeldNone
  <2>. QED  BY <1>3, <1>5, <2>3, <2>4 DEF Stays, In
<1>. QED  BY <1>14, <1>15

LEMMA SendArpStays ==
  ASSUME PlacesRight, NEW hop \in Hops, SendArpRequest(hop), NEW t \in Tracks
  PROVE  Stays(t)
<1> PICK q : q = [type |-> "ask", ar_tip |-> hop]
  OBVIOUS
<1> PICK i : i = m_arpreq_times_list[hop].iface
  OBVIOUS
<1>1. /\ AddPacketToOutputQueue(q, i)
      /\ UNCHANGED <<m_input_queue, m_switch_queue, m_arpreq_queue, wire>>
  BY DEF SendArpRequest, Sweeping, wireVars
<1>2. UNCHANGED <<Sent(t), Held(t), Switched(t), Coming(t)>>
  BY <1>1, StagesKept
<1>3. CASE i \in Interfaces
  <2>1. q \in Requests
    BY DEF Requests
  <2>2. q \in LeavingAt(i) /\ q \notin t.mine
    BY <2>1, TrackKeeps DEF LeavingAt
  <2>3. Mark(q, t) = <<>>
    BY <2>2 DEF Mark
  <2>4. Out(t)' = IF i = t.exit THEN Join(Out(t), <<>>) ELSE Out(t)
    BY <1>1, <1>3, <2>2, <2>3, AddTake
  <2>5. Out(t)' = Out(t)
    BY <2>4, StageTypes, JoinLawsHold DEF JoinLaws
  <2>. QED  BY <1>2, <2>5 DEF Stays, In
<1>4. CASE i \notin Interfaces
  <2>1. UNCHANGED m_output_queue
    BY <1>1, <1>4 DEF AddPacketToOutputQueue, PlacesRight, OutputsRight, PerInterface
  <2>. QED  BY <1>2, <2>1, StagesKept DEF Stays, In
<1>. QED  BY <1>3, <1>4

\* What is given up is all that waited in the streams through that next hop.
LEMMA GiveUpLoses ==
  ASSUME PlacesRight, NEW hop, GiveUp(hop), NEW t \in Tracks
  PROVE  /\ t.hop = hop => Loses(t, Held(t))
         /\ t.hop # hop => Stays(t)
<1>1. /\ m_arpreq_queue' = Erase(m_arpreq_queue, hop)
      /\ UNCHANGED <<m_input_queue, m_switch_queue, m_output_queue, wire>>
  BY DEF GiveUp, Sweeping, wireVars
<1>2. UNCHANGED <<Sent(t), Out(t), Switched(t), Coming(t)>>
  BY <1>1, StagesKept
<1>3. CASE t.hop = hop
  <2>1. WaitingPackets(t.hop)' = <<>>
    BY <1>1, <1>3 DEF WaitingPackets, Erase
  <2>2. Take(<<>>, t.mine) = <<>>
    BY TakeNone
  <2>3. Held(t)' = <<>>
    BY <2>1, <2>2 DEF Held
  <2>. QED  BY <1>2, <1>3, <2>3, LosesHeld
<1>4. CASE t.hop # hop
  <2>1. Held(t)' = Held(t)
    BY <1>1, <1>4 DEF Held, WaitingPackets, Erase
  <2>. QED  BY <1>2, <1>4, <2>1 DEF Stays, In
<1>. QED  BY <1>3, <1>4

\* The sending threads take nothing of a stream out, and leave none of it behind.
LEMMA SendLeaves ==
  ASSUME PlacesRight, SendToTheNextHop, NEW t \in Tracks
  PROVE  Leaves(t)
<1> PICK queue : queue = m_output_queue[t.exit]
  OBVIOUS
<1> PICK more : more = WithoutArp(queue)
  OBVIOUS
<1> PICK places : places = {k \in DOMAIN queue : queue[k].type \in {"ip", "icmp"}}
  OBVIOUS
<1>1. /\ m_output_queue' = [i \in Interfaces |-> <<>>]
      /\ wire' = [i \in Interfaces |-> wire[i] \o WithoutArp(m_output_queue[i])]
      /\ UNCHANGED <<m_input_queue, m_switch_queue, m_arpreq_queue>>
  BY DEF SendToTheNextHop, arpVars
<1>2. UNCHANGED <<Held(t), Switched(t), Coming(t)>>
  BY <1>1, StagesKept
<1>3. Numbered(t.mine) /\ t.exit \in Interfaces
  BY TrackFacts
<1>4. queue \in Seq(LeavingAt(t.exit))
  BY <1>3 DEF PlacesRight, OutputsRight
<1>5. places \in SUBSET DOMAIN queue
  OBVIOUS
<1>6. MineIn(queue, t.mine) \subseteq places
  <2>1. \A p \in IpPackets \cup IcmpMessages : p.type \in {"ip", "icmp"}
    BY DEF IpPackets, IcmpMessages
  <2>2. \A p \in t.mine : p.type \in {"ip", "icmp"}
    BY <2>1, TrackFacts
  <2>. QED  BY <2>2 DEF MineIn
<1>7. Take(At(queue, places), t.mine) = Take(queue, t.mine)
  BY ONLY <1>3, <1>4, <1>5, <1>6, TakeOfPart
<1>8. more = At(queue, places)
  BY DEF WithoutArp
<1>9. wire[t.exit] \in Seq(OnWire(t.exit)) /\ more \in Seq(OnWire(t.exit))
  BY <1>3, <1>4, WithoutArpRight DEF PlacesRight, WireRight
<1> PICK gone : gone = wire[t.exit]
  OBVIOUS
<1>10. Take(gone \o more, t.mine) = Take(gone, t.mine) \o Take(more, t.mine)
  <2>1. gone \in Seq(OnWire(t.exit))
    BY <1>9
  <2>. QED  BY ONLY <1>3, <1>9, <2>1, TakeJoin
<1>11. wire'[t.exit] = gone \o more
  BY <1>1, <1>3
<1>12. Sent(t)' = Join(Sent(t), Out(t))
  BY <1>7, <1>8, <1>10, <1>11 DEF Sent, Out, Join
<1>13. Out(t)' = <<>>
  <2>1. m_output_queue'[t.exit] = <<>>
    BY <1>1, <1>3
  <2>2. Take(<<>>, t.mine) = <<>>
    BY TakeNone
  <2>. QED  BY <2>1, <2>2 DEF Out
<1>14. IsList(<<>>)
  BY JoinLawsHold DEF JoinLaws
<1>. QED  BY <1>2, <1>12, <1>13, <1>14, Moves DEF Leaves

\* A step that moves no packet changes no stream.
LEMMA OtherStays ==
  ASSUME UNCHANGED <<m_input_queue, m_switch_queue, m_output_queue, m_arpreq_queue, wire>>,
         NEW t \in Tracks
  PROVE  Stays(t)
BY StagesKept DEF Stays, In

-----------------------------------------------------------------------------
\* What a step does to all streams at once.
Still == UNCHANGED <<arrived, given_up>>
AllStay == Still /\ \A t \in Tracks : Stays(t)
AllLeave == Still /\ \A t \in Tracks : Leaves(t)
OneEnters(p) == Arrives(p) /\ \A t \in Tracks : Enters(t, Mark(p, t))
OneExpires(p) == /\ Still /\ p \in Came /\ p.ip_ttl <= 1
                 /\ \A t \in Tracks : Loses(t, Mark(p, t)) /\ (p \notin t.mine => Stays(t))
OneReported(p) == /\ Still /\ p \in Came /\ Lives(p)
                  /\ \A t \in RoutedTracks :
                       Loses(t, Mark(p, t)) /\ (p \notin t.mine => Stays(t))
                  /\ \A t \in ReportTracks : IF t = ReportTrack(p.from) THEN Enters(t, <<p.id>>)
                                              ELSE Stays(t)
HeldAreLost(h) == /\ UNCHANGED arrived /\ given_up' = given_up \cup WaitingIds(h)
                  /\ h \in Hops /\ h \in DOMAIN m_arpreq_queue
                  /\ \A t \in Tracks : /\ t.hop = h => Loses(t, Held(t))
                                       /\ t.hop # h => Stays(t)
StreamStep == \/ AllStay \/ AllLeave
              \/ \E p : OneEnters(p)
              \/ \E p : OneExpires(p) \/ OneReported(p)
              \/ \E h : HeldAreLost(h)

\* Every step does one of these: first the network, then the router.
LEMMA NetworkStreams ==
  ASSUME PlacesRight, Network
  PROVE  StreamStep
<1>1. CASE \E flow \in Flows, ttl \in TTLs : PacketArrives(flow[1], flow[2], ttl)
  <2>1. PICK flow \in Flows, ttl \in TTLs : PacketArrives(flow[1], flow[2], ttl)
    BY <1>1
  <2>2. flow[1] \in Interfaces /\ flow[2] \in Destinations /\ ttl \in 0..255
    BY <2>1, LimitAssumption
  <2>3. Arrives(Arrival(flow[1], flow[2], ttl))
    BY <2>1, <2>2, ArrivalFacts
  <2>4. PICK p : Arrives(p)
    BY ONLY <2>3
  <2>5. OneEnters(p)
    BY <2>4, ArrivalEnters DEF OneEnters
  <2>. QED  BY <2>5 DEF StreamStep
<1>2. CASE \E i \in Neighbours : RequestArrives(i)
  <2>1. PICK i \in Neighbours : RequestArrives(i)
    BY <1>2
  <2> PICK p : p = [type |-> "request", from |-> i]
    OBVIOUS
  <2>2. p \in ArpRequests
    BY <2>1, LimitAssumption DEF ArpRequests
  <2>3. /\ Push(p)
        /\ UNCHANGED <<m_switch_queue, m_output_queue, m_arpreq_queue, wire, arrived, given_up>>
    BY <2>1 DEF RequestArrives, arpVars, wireVars
  <2>. QED  BY <2>2, <2>3, NeighbourStays DEF StreamStep, AllStay, Still
<1>3. CASE \E h \in Hops : HopAnswers(h)
  <2>1. PICK h \in Hops : HopAnswers(h)
    BY <1>3
  <2> PICK p : p = [type |-> "reply", from |-> InterfaceTo(h), ar_sip |-> h]
    OBVIOUS
  <2>2. p \in ArpReplies
    BY <2>1, InterfaceToType DEF ArpReplies
  <2>3. /\ Push(p)
        /\ UNCHANGED <<m_switch_queue, m_output_queue, m_arpreq_queue, wire, arrived, given_up>>
    BY <2>1 DEF HopAnswers, arpVars
  <2>. QED  BY <2>2, <2>3, NeighbourStays DEF StreamStep, AllStay, Still
<1>. QED  BY <1>1, <1>2, <1>3 DEF Network

LEMMA RouterThreadStreams ==
  ASSUME TypesRight, PlacesRight', ~aborted, RouterThread
  PROVE  StreamStep
<1>0. PlacesRight /\ ArpTablesAgree /\ TablesRight
  BY DEF TypesRight, ArpInv
<1>1. ASSUME \/ \E h \in Hops : CleanEntry(h) \/ TooEarly(h)
             \/ EndCleaning \/ EndIntake \/ EndSwitching \/ EndSweeping
      PROVE  StreamStep
  <2>1. UNCHANGED <<m_input_queue, m_switch_queue, m_output_queue, m_arpreq_queue, wire, arrived, given_up>>
    BY <1>1 DEF CleanEntry, TooEarly, Sweeping, EndCleaning, EndIntake, EndSwitching, EndSweeping,
                queueVars, arpVars, wireVars
  <2>. QED  BY <2>1, OtherStays DEF StreamStep, AllStay, Still
<1>2. ASSUME NEW i \in Interfaces, Intake(i)
      PROVE  StreamStep
  <2>1. Still
    BY <1>2 DEF Intake, wireVars, Still
  <2>. QED  BY <1>0, <1>2, <2>1, IntakeStays DEF StreamStep, AllStay
<1>3. ASSUME TTLExpired
      PROVE  StreamStep
  <2>1. Switching("ip") /\ popped.ip_ttl <= 1
    BY <1>3 DEF TTLExpired
  <2>2. Still /\ popped \in Came
    BY <1>0, <2>1, PoppedRight, EnteringTypes DEF Switching, wireVars, Still
  <2>3. OneExpires(popped)
    BY <1>0, <1>3, <2>1, <2>2, TTLExpiredLoses DEF OneExpires
  <2>. QED  BY <2>3 DEF StreamStep
<1>4. ASSUME LPMMiss
      PROVE  StreamStep
  <2>1. Still
    BY <1>4 DEF LPMMiss, Switching, wireVars, Still
  <2>2. Switching("ip")
    BY <1>4 DEF LPMMiss
  <2>3. popped \in Came
    BY <1>0, <2>2, PoppedRight, EnteringTypes
  <2>4. Lives(popped)
    BY <1>4 DEF LPMMiss, Lives
  <2>5. ASSUME NEW t \in RoutedTracks
        PROVE  Loses(t, Mark(popped, t)) /\ (popped \notin t.mine => Stays(t))
    <3>1. t \in Tracks
      BY DEF Tracks
    <3>. QED  BY <1>0, <1>4, <3>1, LPMMissReports
  <2>6. ASSUME NEW t \in ReportTracks
        PROVE  IF t = ReportTrack(popped.from) THEN Enters(t, <<popped.id>>) ELSE Stays(t)
    <3>1. t \in Tracks
      BY DEF Tracks
    <3>. QED  BY <1>0, <1>4, <3>1, LPMMissReports
  <2>7. OneReported(popped)
    BY <2>1, <2>3, <2>4, <2>5, <2>6 DEF OneReported
  <2>. QED  BY <2>7 DEF StreamStep
<1>5. ASSUME CacheHit \/ CacheMiss \/ HandleArpRequestToMe \/ HandleArpReplyToMe \/ UnexpectedArpReply
      PROVE  StreamStep
  <2>1. Still
    BY <1>5 DEF CacheHit, CacheMiss, HandleArpRequestToMe, HandleArpReplyToMe,
                UnexpectedArpReply, Switching, wireVars, Still
  <2>2. ASSUME NEW t \in Tracks
        PROVE  Stays(t)
    BY <1>0, <1>5, CacheHitStays, CacheMissStays, ArpRequestStays, ReplyStays, UnexpectedStays
  <2>. QED  BY <2>1, <2>2 DEF StreamStep, AllStay
<1>6. ASSUME NEW h \in Hops, SendArpRequest(h)
      PROVE  StreamStep
  <2>1. Still
    BY <1>6 DEF SendArpRequest, Sweeping, wireVars, Still
  <2>. QED  BY <1>0, <1>6, <2>1, SendArpStays DEF StreamStep, AllStay
<1>7. ASSUME NEW h \in Hops, GiveUp(h)
      PROVE  StreamStep
  <2>1. UNCHANGED arrived /\ given_up' = given_up \cup WaitingIds(h)
    BY <1>7 DEF GiveUp, Sweeping, wireVars
  <2>2. h \in DOMAIN m_arpreq_queue
    BY <1>0, <1>7, SweepTables DEF ArpTablesAgree
  <2>3. HeldAreLost(h)
    BY <1>0, <1>7, <2>1, <2>2, GiveUpLoses DEF HeldAreLost
  <2>. QED  BY <2>3 DEF StreamStep
<1>8. ASSUME SendToTheNextHop
      PROVE  StreamStep
  <2>1. Still
    BY <1>8 DEF SendToTheNextHop, Still
  <2>. QED  BY <1>0, <1>8, <2>1, SendLeaves DEF StreamStep, AllLeave
<1>. QED  BY <1>1, <1>2, <1>3, <1>5, <1>6, <1>7, <1>8, <1>4 DEF RouterThread

LEMMA StreamsStep ==
  ASSUME TypesRight, PlacesRight', [Next]_vars
  PROVE  StreamStep
<1>0. PlacesRight
  BY DEF TypesRight
<1>1. CASE ~aborted /\ RouterThread
  BY <1>1, RouterThreadStreams
<1>2. CASE ~aborted /\ Network
  BY <1>0, <1>2, NetworkStreams
<1>3. CASE RouteChange \/ Tick \/ UNCHANGED vars
  <2>1. UNCHANGED <<m_input_queue, m_switch_queue, m_output_queue, m_arpreq_queue, wire, arrived, given_up>>
    BY <1>3 DEF RouteChange, SetInUse, Tick, vars, queueVars, arpVars, wireVars
  <2>. QED  BY <2>1, OtherStays DEF StreamStep, AllStay, Still
<1>. QED  BY <1>1, <1>2, <1>3 DEF Next

-----------------------------------------------------------------------------
(* The invariant of the streams.                                           *)

\* A whole stream: what left, before what is inside.
Whole(t) == Join(Sent(t), In(t))

Ordered == \A t \in RoutedTracks : RisingList(Whole(t))
Singly == \A t \in ReportTracks : Unrepeated(Whole(t))
Known == \A t \in Tracks : \A n : Among(n, Whole(t)) => n \in DOMAIN arrived
\* What had time to live left is in its stream, or in that of the reports to where it
\* came from, or given up: one of the three.
OneOf(a, b, c) == (a \/ b \/ c) /\ ~(a /\ b) /\ ~(a /\ c) /\ ~(b /\ c)
Kept(n, t) == OneOf(n \in given_up, Among(n, Whole(t)), Among(n, Whole(ReportTrack(t.from))))
Fates == \A n \in DOMAIN arrived, t \in Tracks :
           Lives(arrived[n]) /\ arrived[n] \in t.mine => Kept(n, t)
StreamsRight == Ordered /\ Singly /\ Known /\ Fates

WholeTyped == PlacesRight => \A t \in Tracks : IsList(Sent(t)) /\ IsList(In(t)) /\ IsList(Whole(t))

\* The types of a stream, now and after a step.
LEMMA WholeTypes == WholeTyped
<1> SUFFICES ASSUME PlacesRight, NEW t \in Tracks
             PROVE  IsList(Sent(t)) /\ IsList(In(t)) /\ IsList(Whole(t))
  BY DEF WholeTyped
<1>. QED  BY StageTypes, JoinLawsHold DEF JoinLaws, Whole

LEMMA WholeTypesNext == WholeTyped'
BY WholeTypes, PTL

\* What the steps of one stream make of the whole.
LEMMA WholeSteps ==
  ASSUME PlacesRight, PlacesRight', NEW t \in Tracks, NEW m, IsList(m)
  PROVE  /\ Stays(t) \/ Leaves(t) => Whole(t)' = Whole(t)
         /\ Enters(t, m) => Whole(t)' = Join(Whole(t), m)
         /\ Loses(t, m) => \E x, z : /\ IsList(x) /\ IsList(z)
                                     /\ Whole(t) = Join(x, Join(m, z)) /\ Whole(t)' = Join(x, z)
<1> PICK s : s = Sent(t)
  OBVIOUS
<1> PICK i : i = In(t)
  OBVIOUS
<1> PICK j : j = In(t)'
  OBVIOUS
<1> PICK b : b = Out(t)
  OBVIOUS
<1>0. IsList(s) /\ IsList(i) /\ IsList(j) /\ IsList(b)
  BY WholeTypes, WholeTypesNext, StageTypes DEF WholeTyped
<1>1. Stays(t) => Whole(t)' = Whole(t)
  BY DEF Stays, Whole
<1>2. ASSUME Leaves(t)
      PROVE  Whole(t)' = Whole(t)
  <2>1. Sent(t)' = Join(s, b) /\ i = Join(b, j)
    BY <1>2 DEF Leaves
  <2>2. Join(Join(s, b), j) = Join(s, Join(b, j))
    BY ONLY <1>0, JoinLawsHold DEF JoinLaws
  <2>. QED  BY <2>1, <2>2 DEF Whole
<1>3. ASSUME Enters(t, m)
      PROVE  Whole(t)' = Join(Whole(t), m)
  <2>1. Sent(t)' = s /\ j = Join(i, m)
    BY <1>3 DEF Enters
  <2>2. Join(Join(s, i), m) = Join(s, Join(i, m))
    BY ONLY <1>0, IsList(m), JoinLawsHold DEF JoinLaws
  <2>. QED  BY <2>1, <2>2 DEF Whole
<1>4. ASSUME Loses(t, m)
      PROVE  \E x, z : /\ IsList(x) /\ IsList(z)
                       /\ Whole(t) = Join(x, Join(m, z)) /\ Whole(t)' = Join(x, z)
  <2>1. PICK x, z : /\ Sent(t)' = s /\ IsList(x) /\ IsList(z)
                    /\ i = Join(x, Join(m, z)) /\ j = Join(x, z)
    BY <1>4 DEF Loses
  <2>2. /\ IsList(Join(s, x))
        /\ Join(s, Join(x, Join(m, z))) = Join(Join(s, x), Join(m, z))
        /\ Join(s, Join(x, z)) = Join(Join(s, x), z)
    BY ONLY <1>0, <2>1, IsList(m), JoinLawsHold DEF JoinLaws
  <2>3. Whole(t) = Join(Join(s, x), Join(m, z)) /\ Whole(t)' = Join(Join(s, x), z)
    BY <2>1, <2>2 DEF Whole
  <2>. QED  BY <2>1, <2>2, <2>3
<1>. QED  BY <1>1, <1>2, <1>3, <1>4

\* Leaving out a part of a rising list.
LEMMA LeftOut ==
  ASSUME NEW w, NEW v, NEW m, IsList(m),
         \E x, z : IsList(x) /\ IsList(z) /\ w = Join(x, Join(m, z)) /\ v = Join(x, z)
  PROVE  /\ RisingList(w) => RisingList(v) /\ \A n : Among(n, v) => ~Among(n, m)
         /\ \A n : Among(n, v) => Among(n, w)
         /\ \A n : Among(n, w) => Among(n, v) \/ Among(n, m)
<1> PICK x, z : IsList(x) /\ IsList(z) /\ w = Join(x, Join(m, z)) /\ v = Join(x, z)
  OBVIOUS
<1>1. IsList(Join(m, z))
  BY JoinLawsHold DEF JoinLaws
<1>2. /\ \A n : Among(n, w) <=> Among(n, x) \/ Among(n, m) \/ Among(n, z)
      /\ \A n : Among(n, v) <=> Among(n, x) \/ Among(n, z)
  <2>1. \A n : Among(n, Join(m, z)) <=> Among(n, m) \/ Among(n, z)
    BY AmongLawsHold DEF AmongLaws
  <2>2. \A n : Among(n, w) <=> Among(n, x) \/ Among(n, Join(m, z))
    BY <1>1, AmongLawsHold DEF AmongLaws
  <2>3. \A n : Among(n, v) <=> Among(n, x) \/ Among(n, z)
    BY AmongLawsHold DEF AmongLaws
  <2>. QED  BY <2>1, <2>2, <2>3
<1>3. ASSUME RisingList(w)
      PROVE  RisingList(v) /\ \A n : Among(n, v) => ~Among(n, m)
  <2>1. RisingList(x) /\ RisingList(Join(m, z)) /\ Before(x, Join(m, z))
    BY <1>1, <1>3, RiseLawsHold DEF RiseLaws
  <2>2. RisingList(z) /\ Before(m, z)
    BY <2>1, RiseLawsHold DEF RiseLaws
  <2>3. \A n : Among(n, Join(m, z)) <=> Among(n, m) \/ Among(n, z)
    BY AmongLawsHold DEF AmongLaws
  <2>4. Before(x, z) /\ Before(x, m)
    BY <2>1, <2>3 DEF Before
  <2>5. RisingList(v)
    BY <2>1, <2>2, <2>4, RiseLawsHold DEF RiseLaws
  <2>6. ASSUME NEW n, Among(n, m)
        PROVE  ~Among(n, v)
    <3>0. n \in Nat
      BY <2>6, AmongLawsHold DEF AmongLaws
    <3>1. Among(n, x) => n < n
      BY <2>4, <2>6 DEF Before
    <3>2. Among(n, z) => n < n
      BY <2>2, <2>6 DEF Before
    <3>. QED  BY <1>2, <3>0, <3>1, <3>2
  <2>. QED  BY <2>5, <2>6
<1>. QED  BY <1>2, <1>3

\* The number of a packet that came, and whether it is in the mark of a stream.
LEMMA CameNumber ==
  ASSUME PlacesRight, NEW p \in Came
  PROVE  Number(p) = p.id /\ p.id \in DOMAIN arrived /\ arrived[p.id] = p
BY CameType DEF Number

LEMMA MarkAmong ==
  ASSUME NEW p, NEW t
  PROVE  \A n : Among(n, Mark(p, t)) <=> p \in t.mine /\ n = Number(p)
<1>1. CASE p \in t.mine
  BY <1>1, AmongLawsHold DEF AmongLaws, Mark
<1>2. CASE p \notin t.mine
  BY <1>2, AmongLawsHold DEF AmongLaws, Mark
<1>. QED  BY <1>1, <1>2

\* The streams of packets and of reports that a packet is in.
LEMMA TracksOf ==
  ASSUME NEW p \in IpPackets, NEW t \in Tracks, p \in t.mine
  PROVE  /\ t \in RoutedTracks /\ t.from = p.from
         /\ ReportTrack(t.from) \in ReportTracks /\ ReportTrack(t.from) \in Tracks
         /\ p \notin ReportTrack(t.from).mine
<1>1. p \notin IcmpMessages
  BY DEF IpPackets, IcmpMessages
<1>2. t \in RoutedTracks /\ t.from = p.from /\ t.from \in Interfaces
  BY <1>1, TrackFacts DEF Tracks
<1>. QED  BY <1>1, <1>2 DEF Tracks, ReportTracks, ReportTrack

\* A packet that enters has a higher number than all before it.
LEMMA EntersRight ==
  ASSUME PlacesRight, PlacesRight', StreamsRight, NEW p, OneEnters(p)
  PROVE  StreamsRight'
<1> PICK len : len = Len(arrived)
  OBVIOUS
<1>1. /\ p \in IpPackets /\ p.id = len + 1 /\ len \in Nat /\ DOMAIN arrived = 1..len
      /\ DOMAIN arrived' = 1..(len + 1) /\ arrived'[len + 1] = p
      /\ \A m \in DOMAIN arrived : m \in DOMAIN arrived' /\ arrived'[m] = arrived[m]
      /\ UNCHANGED given_up
  BY DEF OneEnters, Arrives
<1>2. Number(p) = len + 1
  BY <1>1 DEF Number, IpPackets
<1>3. ASSUME NEW t \in Tracks
      PROVE  /\ t \in RoutedTracks => RisingList(Whole(t))'
             /\ p \notin t.mine => Whole(t)' = Whole(t)
             /\ \A n : Among(n, Whole(t))' <=> Among(n, Whole(t)) \/ (p \in t.mine /\ n = len + 1)
  <2> PICK w : w = Whole(t)
    OBVIOUS
  <2> PICK m : m = Mark(p, t)
    OBVIOUS
  <2>1. IsList(w) /\ IsList(m)
    BY MarkIs, WholeTypes DEF WholeTyped
  <2>2. Whole(t)' = Join(w, m)
    BY <2>1, WholeSteps DEF OneEnters
  <2>3. \A n : Among(n, m) <=> p \in t.mine /\ n = len + 1
    BY <1>2, MarkAmong
  <2>4. \A n : Among(n, Join(w, m)) <=> Among(n, w) \/ Among(n, m)
    BY ONLY <2>1, AmongLawsHold DEF AmongLaws
  <2>5. p \notin t.mine => Join(w, m) = w
    BY <2>1, JoinLawsHold DEF JoinLaws, Mark
  <2>6. ASSUME t \in RoutedTracks
        PROVE  RisingList(Join(w, m))
    <3>1. RisingList(w) /\ \A n : Among(n, w) => n \in 1..len
      BY <1>1, <2>6 DEF StreamsRight, Ordered, Known
    <3>2. RisingList(m)
      BY <1>1, <1>2, RiseLawsHold DEF RiseLaws, Mark
    <3>3. Before(w, m)
      BY <1>1, <2>3, <3>1 DEF Before
    <3>. QED  BY ONLY <2>1, <3>1, <3>2, <3>3, RiseLawsHold DEF RiseLaws
  <2>. QED  BY <2>2, <2>3, <2>4, <2>5, <2>6
<1>4. Ordered'
  BY <1>3 DEF Ordered, Tracks
<1>5. Singly'
  <2>1. ASSUME NEW t \in ReportTracks
        PROVE  Whole(t)' = Whole(t)
    <3>1. t \in Tracks /\ t.mine = IcmpMessages
      BY TrackFacts DEF Tracks
    <3>2. p \notin IcmpMessages
      BY <1>1 DEF IpPackets, IcmpMessages
    <3>. QED  BY <1>3, <3>1, <3>2
  <2>. QED  BY <2>1 DEF StreamsRight, Singly
<1>6. Known'
  <2>1. len + 1 \in DOMAIN arrived'
    BY <1>1
  <2>. QED  BY <1>1, <1>3, <2>1 DEF StreamsRight, Known
<1>7. Fates'
  <2>1. ASSUME NEW n \in DOMAIN arrived', NEW t \in Tracks,
               Lives(arrived'[n]), arrived'[n] \in t.mine
        PROVE  Kept(n, t)'
    <3> PICK r : r = ReportTrack(t.from)
      OBVIOUS
    <3>1. CASE n = len + 1
      <4>1. n \notin given_up /\ n \notin DOMAIN arrived
        <5>1. n \notin 1..len
          BY <1>1, <3>1
        <5>. QED  BY <1>1, <5>1 DEF PlacesRight, GivenUpRight
      <4>2. r \in Tracks /\ p \in t.mine /\ p \notin r.mine
        BY <1>1, <2>1, <3>1, TracksOf
      <4>3. ~Among(n, Whole(r))
        BY <4>1, <4>2 DEF StreamsRight, Known
      <4>4. Among(n, Whole(t))' /\ ~Among(n, Whole(r))' /\ n \notin given_up'
        BY <1>1, <1>3, <3>1, <4>1, <4>2, <4>3
      <4>. QED  BY <4>4 DEF Kept, OneOf
    <3>2. CASE n # len + 1
      <4>1. n \in DOMAIN arrived /\ arrived'[n] = arrived[n] /\ arrived[n] \in Came
        BY <1>1, <2>1, <3>2 DEF Came
      <4>2. arrived[n] \in IpPackets
        BY <4>1, CameType
      <4>3. r \in Tracks
        BY <2>1, <4>1, <4>2, TracksOf
      <4>4. Kept(n, t)
        BY <2>1, <4>1 DEF StreamsRight, Fates
      <4>5. /\ Among(n, Whole(t))' <=> Among(n, Whole(t))
            /\ Among(n, Whole(r))' <=> Among(n, Whole(r))
            /\ n \in given_up' <=> n \in given_up
        BY <1>1, <1>3, <3>2, <4>3
      <4>. QED  BY <4>4, <4>5 DEF Kept, OneOf
    <3>. QED  BY <3>1, <3>2
  <2>. QED  BY <2>1 DEF Fates, Kept
<1>. QED  BY <1>4, <1>5, <1>6, <1>7 DEF StreamsRight

\* A packet is in the stream from its interface to its next hop.
LEMMA InOneTrack ==
  ASSUME NEW p \in IpPackets, p.from \in Interfaces, NEW t,
         t = RoutedTrack(p.from, RouteOf(p).next_hop)
  PROVE  t \in RoutedTracks /\ t \in Tracks /\ t.from = p.from /\ p \in t.mine
<1>1. RouteOf(p).next_hop \in Hops /\ p.type = "ip"
  BY RouteRight DEF IpPackets
<1>2. t \in RoutedTracks /\ t \in Tracks
  BY <1>1 DEF RoutedTracks, Tracks
<1>3. t.mine = RoutedMine(p.from, RouteOf(p).next_hop) /\ t.from = p.from
  BY DEF RoutedTrack
<1>. QED  BY <1>1, <1>2, <1>3 DEF RoutedMine, OnLine, IsIp

\* What losing a packet makes of a stream of packets.
LEMMA WholeLoses ==
  ASSUME PlacesRight, PlacesRight', StreamsRight, NEW p \in Came, NEW t \in Tracks,
         t \in RoutedTracks, Loses(t, Mark(p, t)), p \notin t.mine => Stays(t)
  PROVE  /\ RisingList(Whole(t))'
         /\ \A n : Among(n, Whole(t))' <=> Among(n, Whole(t)) /\ ~(p \in t.mine /\ n = p.id)
         /\ p \in t.mine => Among(p.id, Whole(t))
<1> PICK w : w = Whole(t)
  OBVIOUS
<1> PICK v : v = Whole(t)'
  OBVIOUS
<1> PICK m : m = Mark(p, t)
  OBVIOUS
<1>1. IsList(m)
  BY MarkIs
<1>2. \E x, z : IsList(x) /\ IsList(z) /\ w = Join(x, Join(m, z)) /\ v = Join(x, z)
  BY <1>1, WholeSteps
<1>3. /\ RisingList(w) => RisingList(v) /\ \A n : Among(n, v) => ~Among(n, m)
      /\ \A n : Among(n, v) => Among(n, w)
      /\ \A n : Among(n, w) => Among(n, v) \/ Among(n, m)
  BY ONLY <1>1, <1>2, LeftOut
<1>4. \A n : Among(n, m) <=> p \in t.mine /\ n = p.id
  BY MarkAmong, CameNumber
<1>5. RisingList(w)
  BY DEF StreamsRight, Ordered
<1>6. p \in t.mine => Among(p.id, w)
  <2>1. PICK x, z : IsList(x) /\ IsList(z) /\ w = Join(x, Join(m, z))
    BY <1>2
  <2>2. IsList(Join(m, z))
    BY ONLY <1>1, <2>1, JoinLawsHold DEF JoinLaws
  <2>3. Among(p.id, m) => Among(p.id, w)
    BY ONLY <1>1, <2>1, <2>2, AmongLawsHold DEF AmongLaws
  <2>. QED  BY <1>4, <2>3
<1>. QED  BY <1>3, <1>4, <1>5, <1>6

\* A stream of reports is not touched by what a packet loses.
LEMMA ReportsKept ==
  ASSUME PlacesRight, PlacesRight', NEW t \in ReportTracks, Stays(t)
  PROVE  Whole(t)' = Whole(t)
BY DEF Stays, Whole

\* Only a packet whose ip_ttl ran out is lost without being given up.
LEMMA ExpiresRight ==
  ASSUME PlacesRight, PlacesRight', StreamsRight, NEW p, OneExpires(p)
  PROVE  StreamsRight'
<1>1. UNCHANGED <<arrived, given_up>> /\ p \in Came /\ p.ip_ttl <= 1
  BY DEF OneExpires, Still
<1>2. arrived[p.id] = p /\ p.ip_ttl \in 0..255 /\ p \in IpPackets
  BY <1>1, CameNumber, CameType
<1>3. ASSUME NEW t \in RoutedTracks
      PROVE  /\ RisingList(Whole(t))'
             /\ \A n : Among(n, Whole(t))' <=> Among(n, Whole(t)) /\ ~(p \in t.mine /\ n = p.id)
  <2>1. t \in Tracks /\ Loses(t, Mark(p, t)) /\ (p \notin t.mine => Stays(t))
    BY DEF Tracks, OneExpires
  <2>. QED  BY <1>1, <2>1, WholeLoses
<1>4. ASSUME NEW t \in ReportTracks
      PROVE  Whole(t)' = Whole(t)
  <2>1. t \in Tracks
    BY DEF Tracks
  <2>2. p \notin t.mine
    <3>1. p \notin IcmpMessages
      BY <1>2 DEF IpPackets, IcmpMessages
    <3>. QED  BY <2>1, <3>1, TrackFacts
  <2>. QED  BY <2>1, <2>2, ReportsKept DEF OneExpires
<1>5. Ordered'
  BY <1>3 DEF Ordered
<1>6. Singly'
  BY <1>4 DEF StreamsRight, Singly
<1>7. Known'
  BY <1>1, <1>3, <1>4 DEF StreamsRight, Known, Tracks
<1>8. Fates'
  <2>1. ASSUME NEW n \in DOMAIN arrived, NEW t \in Tracks,
               Lives(arrived[n]), arrived[n] \in t.mine
        PROVE  Kept(n, t)'
    <3> PICK r : r = ReportTrack(t.from)
      OBVIOUS
    <3>1. Kept(n, t)
      BY <2>1 DEF StreamsRight, Fates
    <3>2. n # p.id
      BY <1>1, <1>2, <2>1 DEF Lives
    <3>3. t \in RoutedTracks /\ r \in ReportTracks
      <4>1. arrived[n] \in IpPackets
        BY CameType DEF Came
      <4>. QED  BY <2>1, <4>1, TracksOf
    <3>4. /\ Among(n, Whole(t))' <=> Among(n, Whole(t))
          /\ Among(n, Whole(r))' <=> Among(n, Whole(r))
      BY <1>3, <1>4, <3>2, <3>3
    <3>. QED  BY <1>1, <3>1, <3>4 DEF Kept, OneOf
  <2>. QED  BY <1>1, <2>1 DEF Fates
<1>. QED  BY <1>5, <1>6, <1>7, <1>8 DEF StreamsRight

\* A packet without a route in use goes, and one report about it comes.
LEMMA ReportedRight ==
  ASSUME PlacesRight, PlacesRight', StreamsRight, NEW p, OneReported(p)
  PROVE  StreamsRight'
<1>1. UNCHANGED <<arrived, given_up>> /\ p \in Came /\ Lives(p)
  BY DEF OneReported, Still
<1>2. /\ arrived[p.id] = p /\ p.id \in DOMAIN arrived /\ p.id \in Nat
      /\ p \in IpPackets /\ p.from \in Interfaces
  BY <1>1, CameNumber, CameType
<1>3. ASSUME NEW t \in RoutedTracks
      PROVE  /\ RisingList(Whole(t))'
             /\ \A n : Among(n, Whole(t))' <=> Among(n, Whole(t)) /\ ~(p \in t.mine /\ n = p.id)
             /\ p \in t.mine => Among(p.id, Whole(t))
  <2>1. t \in Tracks /\ Loses(t, Mark(p, t)) /\ (p \notin t.mine => Stays(t))
    BY DEF Tracks, OneReported
  <2>. QED  BY <1>1, <2>1, WholeLoses
<1> PICK told : told = ReportTrack(p.from)
  OBVIOUS
<1>4. told \in ReportTracks /\ told \in Tracks
  BY <1>2 DEF ReportTracks, Tracks
<1>5. ~Among(p.id, Whole(told))
  <2> PICK t : t = RoutedTrack(p.from, RouteOf(p).next_hop)
    OBVIOUS
  <2>1. t \in RoutedTracks /\ t \in Tracks /\ t.from = p.from /\ p \in t.mine
    BY <1>2, InOneTrack
  <2>2. Among(p.id, Whole(t))
    BY <1>3, <2>1
  <2>3. Kept(p.id, t)
    BY <1>1, <1>2, <2>1 DEF StreamsRight, Fates
  <2>. QED  BY <2>1, <2>2, <2>3 DEF Kept, OneOf
<1>6. Whole(told)' = Join(Whole(told), <<p.id>>)
  <2>1. Enters(told, <<p.id>>)
    BY <1>4 DEF OneReported
  <2>2. IsList(<<p.id>>)
    BY <1>2, RiseLawsHold DEF RiseLaws
  <2>. QED  BY <1>4, <2>1, <2>2, WholeSteps
<1>7. Unrepeated(Whole(told))'
  <2>1. IsList(Whole(told)) /\ Unrepeated(Whole(told))
    BY <1>4, WholeTypes DEF WholeTyped, StreamsRight, Singly
  <2>. QED  BY <1>2, <1>5, <1>6, <2>1, UnrepeatedMore
<1>8. \A n : Among(n, Whole(told))' <=> Among(n, Whole(told)) \/ n = p.id
  <2>1. IsList(Whole(told)) /\ IsList(<<p.id>>)
    BY <1>2, <1>4, WholeTypes, RiseLawsHold DEF WholeTyped, RiseLaws
  <2>. QED  BY <1>6, <2>1, AmongLawsHold DEF AmongLaws
<1>9. ASSUME NEW t \in ReportTracks, t # told
      PROVE  Whole(t)' = Whole(t)
  BY <1>9, ReportsKept DEF OneReported
<1>10. Ordered'
  BY <1>3 DEF Ordered
<1>11. Singly'
  BY <1>7, <1>9 DEF StreamsRight, Singly
<1>12. Known'
  <2>1. ASSUME NEW t \in Tracks, NEW n, Among(n, Whole(t))'
        PROVE  n \in DOMAIN arrived
    <3>1. CASE t \in RoutedTracks
      BY <1>3, <2>1, <3>1 DEF StreamsRight, Known
    <3>2. CASE t = told
      BY <1>2, <1>4, <1>8, <2>1, <3>2 DEF StreamsRight, Known
    <3>3. CASE t \in ReportTracks /\ t # told
      BY <1>9, <2>1, <3>3 DEF StreamsRight, Known
    <3>. QED  BY <3>1, <3>2, <3>3 DEF Tracks
  <2>. QED  BY <1>1, <2>1 DEF Known
<1>13. Fates'
  <2>1. ASSUME NEW n \in DOMAIN arrived, NEW t \in Tracks,
               Lives(arrived[n]), arrived[n] \in t.mine
        PROVE  Kept(n, t)'
    <3> PICK r : r = ReportTrack(t.from)
      OBVIOUS
    <3>1. Kept(n, t)
      BY <2>1 DEF StreamsRight, Fates
    <3>2. t \in RoutedTracks /\ r \in ReportTracks /\ t.from = arrived[n].from
      <4>1. arrived[n] \in IpPackets
        BY CameType DEF Came
      <4>. QED  BY <2>1, <4>1, TracksOf
    <3>3. CASE n = p.id
      <4>1. p \in t.mine /\ r = told
        BY <1>2, <2>1, <3>2, <3>3
      <4>2. ~Among(n, Whole(t))' /\ Among(n, Whole(r))'
        BY <1>3, <1>8, <3>2, <3>3, <4>1
      <4>3. n \notin given_up
        BY <1>3, <3>1, <3>2, <3>3, <4>1 DEF Kept, OneOf
      <4>. QED  BY <1>1, <4>2, <4>3 DEF Kept, OneOf
    <3>4. CASE n # p.id
      <4>1. Among(n, Whole(t))' <=> Among(n, Whole(t))
        BY <1>3, <3>2, <3>4
      <4>2. Among(n, Whole(r))' <=> Among(n, Whole(r))
        BY <1>8, <1>9, <3>2, <3>4
      <4>. QED  BY <1>1, <3>1, <4>1, <4>2 DEF Kept, OneOf
    <3>. QED  BY <3>3, <3>4
  <2>. QED  BY <1>1, <2>1 DEF Fates
<1>. QED  BY <1>10, <1>11, <1>12, <1>13 DEF StreamsRight

\* The packets that wait for a next hop are those whose numbers its streams hold.
LEMMA WaitingHeld ==
  ASSUME PlacesRight, NEW h \in DOMAIN m_arpreq_queue, NEW t \in Tracks,
         NEW n \in DOMAIN arrived, arrived[n] \in t.mine
  PROVE  /\ n \in WaitingIds(h) => t.hop = h /\ Among(n, Held(t))
         /\ Among(n, Held(t)) /\ t.hop = h => n \in WaitingIds(h)
<1> PICK queue : queue = m_arpreq_queue[h]
  OBVIOUS
<1> PICK held : held = WaitingPackets(h)
  OBVIOUS
<1>1. queue \in Seq(WaitersFor(h))
  BY DEF PlacesRight, WaitersRight
<1>2. DOMAIN held = DOMAIN queue /\ \A k \in DOMAIN queue : held[k] = queue[k].packet
  BY DEF WaitingPackets
<1>3. held \in Seq(GoingTo(h))
  BY WaitingType
<1>4. \A k \in DOMAIN queue : held[k] \in GoingTo(h)
  BY <1>2, <1>3, ElementOfSeq
<1>5. \A k \in DOMAIN queue : held[k] \in Came
  BY <1>4 DEF GoingTo
<1>6. \A k \in DOMAIN queue : Number(held[k]) = held[k].id /\ arrived[held[k].id] = held[k]
  BY <1>5, CameNumber
<1>7. n \in WaitingIds(h) <=> \E k \in DOMAIN queue : held[k].id = n
  BY <1>2 DEF WaitingIds
<1>8. Numbered(t.mine)
  BY TrackFacts
<1>9. Among(n, Take(held, t.mine)) <=> Holds(held, t.mine, n)
  BY ONLY <1>3, <1>8, TakeHolds
<1>10. t.hop = h => Held(t) = Take(held, t.mine)
  BY DEF Held
<1>11. ASSUME n \in WaitingIds(h)
       PROVE  t.hop = h /\ Among(n, Held(t))
  <2>1. PICK k \in DOMAIN queue : held[k].id = n
    BY <1>7, <1>11
  <2>2. held[k] \in t.mine /\ held[k] \in GoingTo(h) /\ Number(held[k]) = n
    BY <1>4, <1>6, <2>1
  <2>3. t.hop = h
    BY <2>2, GoingMine
  <2>4. Holds(held, t.mine, n)
    BY <1>2, <2>1, <2>2 DEF Holds
  <2>. QED  BY <1>9, <1>10, <2>3, <2>4
<1>12. ASSUME Among(n, Held(t)), t.hop = h
       PROVE  n \in WaitingIds(h)
  BY <1>2, <1>6, <1>7, <1>9, <1>10, <1>12 DEF Holds
<1>. QED  BY <1>11, <1>12

\* What is lost with the ARP queue of a next hop is what is given up with it.
LEMMA HeldLostRight ==
  ASSUME PlacesRight, PlacesRight', StreamsRight, NEW h, HeldAreLost(h)
  PROVE  StreamsRight'
<1>1. /\ UNCHANGED arrived /\ given_up' = given_up \cup WaitingIds(h)
      /\ h \in Hops /\ h \in DOMAIN m_arpreq_queue
  BY DEF HeldAreLost
<1>2. ASSUME NEW t \in RoutedTracks, t.hop = h
      PROVE  /\ RisingList(Whole(t))'
             /\ \A n : Among(n, Whole(t))' => Among(n, Whole(t)) /\ ~Among(n, Held(t))
             /\ \A n : Among(n, Whole(t)) => Among(n, Whole(t))' \/ Among(n, Held(t))
             /\ \A n : Among(n, Held(t)) => Among(n, Whole(t))
  <2> PICK w : w = Whole(t)
    OBVIOUS
  <2> PICK v : v = Whole(t)'
    OBVIOUS
  <2> PICK m : m = Held(t)
    OBVIOUS
  <2>0. t \in Tracks
    BY DEF Tracks
  <2>1. IsList(m)
    BY <2>0, StageTypes
  <2>2. \E x, z : IsList(x) /\ IsList(z) /\ w = Join(x, Join(m, z)) /\ v = Join(x, z)
    <3>1. Loses(t, m)
      BY <1>2, <2>0 DEF HeldAreLost
    <3>. QED  BY <2>0, <2>1, <3>1, WholeSteps
  <2>3. /\ RisingList(w) => RisingList(v) /\ \A n : Among(n, v) => ~Among(n, m)
        /\ \A n : Among(n, v) => Among(n, w)
        /\ \A n : Among(n, w) => Among(n, v) \/ Among(n, m)
    BY ONLY <2>1, <2>2, LeftOut
  <2>4. RisingList(w)
    BY DEF StreamsRight, Ordered
  <2>5. \A n : Among(n, m) => Among(n, w)
    <3>1. PICK x, z : IsList(x) /\ IsList(z) /\ w = Join(x, Join(m, z))
      BY <2>2
    <3>2. IsList(Join(m, z))
      BY ONLY <2>1, <3>1, JoinLawsHold DEF JoinLaws
    <3>. QED  BY ONLY <2>1, <3>1, <3>2, AmongLawsHold DEF AmongLaws
  <2>. QED  BY <2>3, <2>4, <2>5
<1>3. ASSUME NEW t \in Tracks, t.hop # h
      PROVE  Whole(t)' = Whole(t)
  <2>1. Stays(t)
    BY <1>3 DEF HeldAreLost
  <2>. QED  BY <2>1 DEF Stays, Whole
<1>4. ASSUME NEW t \in ReportTracks
      PROVE  Whole(t)' = Whole(t)
  <2>1. t \in Tracks /\ t.hop = NoHop
    BY DEF Tracks, ReportTracks, ReportTrack
  <2>. QED  BY <1>1, <1>3, <2>1, NoHopIsNone
<1>5. Ordered'
  BY <1>2, <1>3 DEF StreamsRight, Ordered, Tracks
<1>6. Singly'
  BY <1>4 DEF StreamsRight, Singly
<1>7. Known'
  <2>1. \A t \in Tracks : \A n : Among(n, Whole(t))' => Among(n, Whole(t))
    BY <1>2, <1>3, <1>4 DEF Tracks
  <2>. QED  BY <1>1, <2>1 DEF StreamsRight, Known
<1>8. Fates'
  <2>1. ASSUME NEW n \in DOMAIN arrived, NEW t \in Tracks,
               Lives(arrived[n]), arrived[n] \in t.mine
        PROVE  Kept(n, t)'
    <3> PICK r : r = ReportTrack(t.from)
      OBVIOUS
    <3>1. Kept(n, t)
      BY <2>1 DEF StreamsRight, Fates
    <3>2. /\ n \in WaitingIds(h) => t.hop = h /\ Among(n, Held(t))
          /\ Among(n, Held(t)) /\ t.hop = h => n \in WaitingIds(h)
      BY <1>1, <2>1, WaitingHeld
    <3>3. t \in RoutedTracks /\ r \in ReportTracks
      <4>1. arrived[n] \in IpPackets
        BY CameType DEF Came
      <4>. QED  BY <2>1, <4>1, TracksOf
    <3>4. Whole(r)' = Whole(r)
      BY <1>4, <3>3
    <3>5. CASE t.hop = h
      <4>1. /\ Among(n, Whole(t))' <=> Among(n, Whole(t)) /\ n \notin WaitingIds(h)
            /\ n \in WaitingIds(h) => Among(n, Whole(t))
        BY <1>2, <3>2, <3>3, <3>5
      <4>. QED  BY <1>1, <3>1, <3>4, <4>1 DEF Kept, OneOf
    <3>6. CASE t.hop # h
      <4>1. Whole(t)' = Whole(t) /\ n \notin WaitingIds(h)
        BY <1>3, <3>2, <3>6
      <4>. QED  BY <1>1, <3>1, <3>4, <4>1 DEF Kept, OneOf
    <3>. QED  BY <3>5, <3>6
  <2>. QED  BY <1>1, <2>1 DEF Fates
<1>. QED  BY <1>5, <1>6, <1>7, <1>8 DEF StreamsRight

-----------------------------------------------------------------------------
RouterInv == TypesRight /\ StreamsRight

\* At first the streams are empty.
LEMMA NothingYet ==
  ASSUME Init, NEW t \in Tracks
  PROVE  Sent(t) = <<>> /\ In(t) = <<>>
<1>1. t.from \in Interfaces /\ t.exit \in Interfaces
  BY TrackFacts
<1>2. Take(<<>>, t.mine) = <<>>
  BY TakeNone
<1>3. Sent(t) = <<>> /\ Out(t) = <<>> /\ Switched(t) = <<>> /\ Coming(t) = <<>>
  BY <1>1, <1>2 DEF Init, Sent, Out, Switched, Coming
<1>4. Held(t) = <<>>
  BY <1>2 DEF Init, Empty, Held, WaitingPackets
<1>. QED  BY <1>3, <1>4, JoinLawsHold DEF JoinLaws, In, Chain

LEMMA InitStreams == Init => RouterInv
<1> SUFFICES ASSUME Init
             PROVE  RouterInv
  OBVIOUS
<1>1. TypesRight
  BY InitTypes
<1>2. ASSUME NEW t \in Tracks
      PROVE  Whole(t) = <<>>
  BY NothingYet, JoinLawsHold DEF JoinLaws, Whole
<1>3. Ordered /\ Singly
  BY <1>2, RiseLawsHold DEF Ordered, Singly, RiseLaws, Unrepeated, Tracks
<1>4. Known
  BY <1>2, AmongLawsHold DEF Known, AmongLaws
<1>5. Fates
  BY DEF Init, Fates
<1>. QED  BY <1>1, <1>3, <1>4, <1>5 DEF RouterInv, StreamsRight

\* The invariant of the router is inductive.
LEMMA RouterInvStep == RouterInv /\ [Next]_vars => RouterInv'
<1> SUFFICES ASSUME RouterInv, [Next]_vars
             PROVE  RouterInv'
  OBVIOUS
<1>1. TypesRight /\ TypesRight' /\ StreamsRight
  BY TypesStep DEF RouterInv
<1>2. PlacesRight /\ PlacesRight' /\ StreamStep
  BY <1>1, StreamsStep DEF TypesRight
<1>3. CASE AllStay \/ AllLeave
  <2>0. \A n \in DOMAIN arrived, t \in Tracks :
          arrived[n] \in t.mine => ReportTrack(t.from) \in Tracks
    <3>1. \A n \in DOMAIN arrived : arrived[n] \in IpPackets
      BY <1>2, CameType DEF Came
    <3>. QED  BY <3>1, TracksOf
  <2>1. \A t \in Tracks : Whole(t)' = Whole(t)
    BY <1>2, <1>3, WholeSteps, JoinLawsHold DEF AllStay, AllLeave, JoinLaws
  <2>2. UNCHANGED <<arrived, given_up>>
    BY <1>3 DEF AllStay, AllLeave, Still
  <2>3. Ordered' /\ Singly' /\ Known'
    BY <1>1, <2>1, <2>2 DEF StreamsRight, Ordered, Singly, Known, Tracks
  <2>4. ASSUME NEW n \in DOMAIN arrived, NEW t \in Tracks,
               Lives(arrived[n]), arrived[n] \in t.mine
        PROVE  Kept(n, t)'
    <3>1. Kept(n, t)
      BY <1>1, <2>4 DEF StreamsRight, Fates
    <3>2. Whole(t)' = Whole(t) /\ Whole(ReportTrack(t.from))' = Whole(ReportTrack(t.from))
      BY <2>0, <2>1, <2>4
    <3>. QED  BY <2>2, <3>1, <3>2 DEF Kept
  <2>5. Fates'
    BY <2>2, <2>4 DEF Fates
  <2>. QED  BY <1>1, <2>3, <2>5 DEF RouterInv, StreamsRight
<1>4. CASE (\E p : OneEnters(p)) \/ (\E p : OneExpires(p) \/ OneReported(p)) \/ \E h : HeldAreLost(h)
  BY <1>1, <1>2, <1>4, EntersRight, ExpiresRight, ReportedRight, HeldLostRight DEF RouterInv
<1>. QED  BY <1>2, <1>3, <1>4 DEF StreamStep

-----------------------------------------------------------------------------
(* Packets of a line leave in the order they came.                         *)

\* What is counted on a line is a stream.
LEMMA LineTakes ==
  ASSUME NEW i, NEW h, NEW S, S \subseteq Incoming \cup Outgoing, NEW queue \in Seq(S)
  PROVE  NumbersIn(<<i, h>>, queue) = Take(queue, RoutedMine(i, h))
<1> PICK line : line = <<i, h>>
  OBVIOUS
<1> DEFINE mine == {k \in DOMAIN queue : OnLine(queue[k], line)}
<1>1. ASSUME NEW k \in DOMAIN queue
      PROVE  OnLine(queue[k], line) <=> queue[k] \in RoutedMine(i, h)
  <2>1. queue[k] \in Incoming \cup Outgoing
    BY ElementOfSeq
  <2>2. queue[k].type = "ip" => queue[k] \in IpPackets
    BY <2>1 DEF Incoming, Outgoing, ArpRequests, ArpReplies, IcmpMessages, Requests, Answers
  <2>. QED  BY <2>2 DEF RoutedMine, OnLine, IsIp
<1>2. mine = MineIn(queue, RoutedMine(i, h))
  BY <1>1 DEF MineIn
<1>3. \A k \in mine : Number(queue[k]) = queue[k].id
  BY <1>1 DEF Number, OnLine, IsIp
<1>4. [k \in mine |-> queue[k].id] = NumbersOf(queue, RoutedMine(i, h))
  BY <1>2, <1>3 DEF NumbersOf
<1>5. NumbersIn(line, queue) = At([k \in mine |-> queue[k].id], mine)
  BY DEF NumbersIn
<1> HIDE DEF mine
<1>. QED  BY <1>2, <1>4, <1>5 DEF Take

\* What was delivered on a line and what is inside is what its stream says.
LEMMA LineStream ==
  ASSUME PlacesRight, NEW i \in Interfaces, NEW h \in Hops, NEW t, t = RoutedTrack(i, h)
  PROVE  /\ t \in RoutedTracks /\ t \in Tracks
         /\ Delivered(<<i, h>>) = Sent(t) /\ Inside(<<i, h>>) = In(t)
<1>1. t \in RoutedTracks /\ t \in Tracks
  BY DEF RoutedTracks, Tracks
<1>2. t.mine = RoutedMine(i, h) /\ t.from = i /\ t.hop = h /\ t.exit = InterfaceTo(h) /\ t.exit \in Interfaces
  BY InterfaceToType DEF RoutedTrack
<1>3. NumbersIn(<<i, h>>, wire[t.exit]) = Sent(t)
  <2>1. wire[t.exit] \in Seq(IpPackets \cup IcmpMessages)
    BY <1>2, QueuesMean
  <2>2. IpPackets \cup IcmpMessages \subseteq Incoming \cup Outgoing
    BY DEF Incoming, Outgoing
  <2>. QED  BY <1>2, <2>1, <2>2, LineTakes DEF Sent
<1>4. NumbersIn(<<i, h>>, m_output_queue[t.exit]) = Out(t)
  <2>1. m_output_queue[t.exit] \in Seq(Outgoing)
    BY <1>2, QueuesMean
  <2>. QED  BY <1>2, <2>1, LineTakes DEF Out
<1>5. NumbersIn(<<i, h>>, WaitingPackets(h)) = Held(t)
  <2>1. WaitingPackets(h) \in Seq(GoingTo(h))
    BY WaitingType
  <2>2. GoingTo(h) \subseteq Incoming \cup Outgoing
    BY CameType DEF GoingTo, Incoming
  <2>. QED  BY <1>2, <2>1, <2>2, LineTakes DEF Held
<1>6. NumbersIn(<<i, h>>, m_switch_queue) = Switched(t)
  <2>1. m_switch_queue \in Seq(Incoming)
    BY QueuesMean
  <2>. QED  BY <1>2, <2>1, LineTakes DEF Switched
<1>7. NumbersIn(<<i, h>>, m_input_queue[i]) = Coming(t)
  <2>1. m_input_queue[i] \in Seq(Incoming)
    BY QueuesMean
  <2>. QED  BY <1>2, <2>1, LineTakes DEF Coming
<1>. QED  BY <1>1, <1>2, <1>3, <1>4, <1>5, <1>6, <1>7 DEF Delivered, Inside, In, Chain, Join

LEMMA LinesInOrder == RouterInv => NoOvertaking
<1> SUFFICES ASSUME RouterInv, NEW line \in Lines
             PROVE  \A j, k \in DOMAIN (Delivered(line) \o Inside(line)) :
                      j < k => (Delivered(line) \o Inside(line))[j] < (Delivered(line) \o Inside(line))[k]
  BY DEF NoOvertaking
<1>1. PICK i \in Interfaces, h \in Hops : line = <<i, h>>
  BY DEF Lines
<1> PICK t : t = RoutedTrack(i, h)
  OBVIOUS
<1>2. /\ t \in RoutedTracks /\ t \in Tracks
      /\ Delivered(line) = Sent(t) /\ Inside(line) = In(t)
  BY <1>1, LineStream DEF RouterInv, TypesRight
<1> PICK w : w = Whole(t)
  OBVIOUS
<1>3. w = Delivered(line) \o Inside(line) /\ RisingList(w) /\ IsList(w)
  BY <1>2, WholeTypes DEF RouterInv, TypesRight, StreamsRight, Ordered, Whole, Join, WholeTyped
<1>4. \A j, k \in DOMAIN w : j < k => w[j] < w[k]
  BY <1>3 DEF RisingList, Rises, IsList
<1>. QED  BY <1>3, <1>4

\* Packets from one interface to one next hop never overtake each other, although some
\* wait in m_arpreq_queue while later ones find the MAC address in the cache.
THEOREM InOrder == Spec => []NoOvertaking
BY InitStreams, RouterInvStep, LinesInOrder, PTL DEF Spec

-----------------------------------------------------------------------------
(* Every packet has one fate: counting it where its stream has its number. *)

\* Counting a packet in some queues: none, or one when it is nowhere twice.
Stands(item, queues, q, n) == q \in DOMAIN queues /\ n \in DOMAIN queues[q] /\ queues[q][n] = item
Somewhere(item, queues) == \E q, n : Stands(item, queues, q, n)
Once(item, queues) == \A q, r, n, m : Stands(item, queues, q, n) /\ Stands(item, queues, r, m)
                                        => q = r /\ n = m
Is(fact) == IF fact THEN 1 ELSE 0

\* Copies counts the places.
LEMMA CopiesAre ==
  ASSUME NEW item, NEW queues, Once(item, queues)
  PROVE  Copies(item, queues) = Is(Somewhere(item, queues))
<1> DEFINE places == UNION {{<<q, k>> : k \in {n \in DOMAIN queues[q] : queues[q][n] = item}}
                              : q \in DOMAIN queues}
<1>1. \A x : x \in places <=> \E q, n : Stands(item, queues, q, n) /\ x = <<q, n>>
  BY DEF Stands
<1>2. Copies(item, queues) = Cardinality(places)
  BY DEF Copies
<1> HIDE DEF places
<1>3. CASE ~Somewhere(item, queues)
  <2>1. places = {}
    BY <1>1, <1>3 DEF Somewhere
  <2>. QED  BY <1>2, <1>3, <2>1, FS_EmptySet DEF Is
<1>4. CASE Somewhere(item, queues)
  <2>1. PICK q, n : Stands(item, queues, q, n)
    BY <1>4 DEF Somewhere
  <2>2. places = {<<q, n>>}
    BY <1>1, <2>1 DEF Once
  <2>3. Cardinality({<<q, n>>}) = 1
    BY FS_Singleton
  <2>. QED  BY <1>2, <1>4, <2>2, <2>3 DEF Is
<1>. QED  BY <1>3, <1>4

\* A number in a rising whole stands in exactly one of its stages.
LEMMA OneStage ==
  ASSUME NEW a, NEW b, NEW c, NEW d, NEW e, IsList(a), IsList(b), IsList(c), IsList(d), IsList(e),
         RisingList(Join(a, Chain(b, c, d, e))), NEW n
  PROVE  /\ RisingList(a) /\ RisingList(b) /\ RisingList(c) /\ RisingList(d) /\ RisingList(e)
         /\ Is(Among(n, a)) + Is(Among(n, b)) + Is(Among(n, c)) + Is(Among(n, d)) + Is(Among(n, e))
              = Is(Among(n, Join(a, Chain(b, c, d, e))))
<1>1. /\ IsList(Join(b, c)) /\ IsList(Join(Join(b, c), d)) /\ IsList(Chain(b, c, d, e))
      /\ Chain(b, c, d, e) = Join(Join(Join(b, c), d), e)
  BY JoinLawsHold DEF JoinLaws, Chain
<1> DEFINE bc == Join(b, c)
           bcd == Join(bc, d)
           all == Join(bcd, e)
<1>2. IsList(bc) /\ IsList(bcd) /\ IsList(all) /\ all = Chain(b, c, d, e)
  BY <1>1
<1>3. /\ Among(n, bc) <=> Among(n, b) \/ Among(n, c)
      /\ Among(n, bcd) <=> Among(n, bc) \/ Among(n, d)
      /\ Among(n, all) <=> Among(n, bcd) \/ Among(n, e)
      /\ Among(n, Join(a, all)) <=> Among(n, a) \/ Among(n, all)
  BY ONLY <1>2, IsList(a), IsList(b), IsList(c), IsList(d), IsList(e), AmongLawsHold DEF AmongLaws
<1>4. /\ RisingList(a) /\ RisingList(all) /\ Before(a, all)
      /\ RisingList(bcd) /\ RisingList(e) /\ Before(bcd, e)
      /\ RisingList(bc) /\ RisingList(d) /\ Before(bc, d)
      /\ RisingList(b) /\ RisingList(c) /\ Before(b, c)
  <2>1. RisingList(a) /\ RisingList(all) /\ Before(a, all)
    BY ONLY <1>2, IsList(a), RisingList(Join(a, Chain(b, c, d, e))), RiseLawsHold DEF RiseLaws
  <2>2. RisingList(bcd) /\ RisingList(e) /\ Before(bcd, e)
    BY ONLY <1>2, IsList(e), <2>1, RiseLawsHold DEF RiseLaws
  <2>3. RisingList(bc) /\ RisingList(d) /\ Before(bc, d)
    BY ONLY <1>2, IsList(d), <2>2, RiseLawsHold DEF RiseLaws
  <2>4. RisingList(b) /\ RisingList(c) /\ Before(b, c)
    BY ONLY <1>2, IsList(b), IsList(c), <2>3, RiseLawsHold DEF RiseLaws
  <2>. QED  BY <2>1, <2>2, <2>3, <2>4
<1> HIDE DEF bc, bcd, all
<1>5. \A x, y : Before(x, y) /\ Among(n, x) /\ Among(n, y) /\ IsList(x) => FALSE
  <2>1. ASSUME NEW x, NEW y, Before(x, y), Among(n, x), Among(n, y), IsList(x)
        PROVE  FALSE
    <3>1. n \in Nat /\ n < n
      BY <2>1, AmongLawsHold DEF AmongLaws, Before
    <3>. QED  BY <3>1
  <2>. QED  BY <2>1
<1>6. /\ ~(Among(n, a) /\ Among(n, all)) /\ ~(Among(n, bcd) /\ Among(n, e))
      /\ ~(Among(n, bc) /\ Among(n, d)) /\ ~(Among(n, b) /\ Among(n, c))
  BY <1>2, <1>4, <1>5
<1>7. Is(Among(n, a)) + Is(Among(n, b)) + Is(Among(n, c)) + Is(Among(n, d)) + Is(Among(n, e))
        = Is(Among(n, Join(a, all)))
  BY ONLY <1>3, <1>6 DEF Is
<1>. QED  BY <1>2, <1>4, <1>7

-----------------------------------------------------------------------------
\* The streams of a packet and of the reports about it.
TrackOf(p) == RoutedTrack(p.from, RouteOf(p).next_hop)
ReportsOf(p) == ReportTrack(p.from)

LEMMA TrackOfFacts ==
  ASSUME PlacesRight, NEW p \in Came, NEW t, t = TrackOf(p), NEW r, r = ReportsOf(p)
  PROVE  /\ t \in RoutedTracks /\ t \in Tracks /\ p \in t.mine /\ t.from = p.from
         /\ p.ip_ttl > 1 => Decremented(p) \in t.mine
         /\ r \in ReportTracks /\ r \in Tracks /\ r.exit = p.from /\ Report(p) \in r.mine
         /\ r = ReportTrack(t.from)
<1>1. p \in IpPackets /\ p.from \in Interfaces /\ p.id \in 1..MaxPackets
  BY CameType
<1>2. t \in RoutedTracks /\ t \in Tracks /\ p \in t.mine /\ t.from = p.from
  BY <1>1, InOneTrack DEF TrackOf
<1>3. r = ReportTrack(p.from) /\ r.exit = p.from /\ r.mine = IcmpMessages
  BY DEF ReportsOf, ReportTrack
<1>4. r \in ReportTracks /\ r \in Tracks
  BY <1>1, <1>3 DEF ReportTracks, Tracks
<1>5. Report(p) \in r.mine
  BY <1>1, <1>3 DEF Report, IcmpMessages
<1>. QED  BY <1>1, <1>2, <1>3, <1>4, <1>5, TrackKeeps

\* Packets that came in are told apart by their numbers, at every place.
LEMMA CameOnce ==
  ASSUME PlacesRight, NEW p \in Came, NEW q \in Came, p.id = q.id
  PROVE  p = q
BY CameNumber

\* Where a packet of a stream stands, when no number is there twice.
LEMMA StandsOnce ==
  ASSUME NEW S, NEW queue \in Seq(S), NEW T, Numbered(T), NEW list, list = Take(queue, T),
         Unrepeated(list), NEW item, item \in T,
         \A k \in DOMAIN queue : queue[k] \in T /\ Number(queue[k]) = Number(item) => queue[k] = item
  PROVE  /\ (\E k \in DOMAIN queue : queue[k] = item) <=> Among(Number(item), list)
         /\ \A k, l \in DOMAIN queue : queue[k] = item /\ queue[l] = item => k = l
<1>1. Among(Number(item), list) <=> Holds(queue, T, Number(item))
  BY TakeHolds
<1>2. Holds(queue, T, Number(item)) <=> \E k \in DOMAIN queue : queue[k] = item
  BY DEF Holds
<1>3. \A k, l \in DOMAIN queue : queue[k] = item /\ queue[l] = item => k = l
  BY TakeOnce
<1>. QED  BY <1>1, <1>2, <1>3

\* The same for a family of queues of which only one can hold it.
LEMMA CountedOnce ==
  ASSUME NEW queues, NEW q, NEW S, q \in DOMAIN queues, queues[q] \in Seq(S),
         NEW T, Numbered(T), NEW item, item \in T, NEW list, list = Take(queues[q], T),
         Unrepeated(list),
         \A r \in DOMAIN queues : \A k : k \in DOMAIN queues[r] /\ queues[r][k] = item => r = q,
         \A k \in DOMAIN queues[q] :
           queues[q][k] \in T /\ Number(queues[q][k]) = Number(item) => queues[q][k] = item
  PROVE  Copies(item, queues) = Is(Among(Number(item), list))
<1> PICK queue : queue = queues[q]
  OBVIOUS
<1>1. /\ (\E k \in DOMAIN queue : queue[k] = item) <=> Among(Number(item), list)
      /\ \A k, l \in DOMAIN queue : queue[k] = item /\ queue[l] = item => k = l
  <2>1. queue \in Seq(S) /\ list = Take(queue, T)
    OBVIOUS
  <2>2. \A k \in DOMAIN queue : queue[k] \in T /\ Number(queue[k]) = Number(item) => queue[k] = item
    OBVIOUS
  <2>. QED  BY ONLY <2>1, <2>2, Numbered(T), Unrepeated(list), item \in T, StandsOnce
<1>2. Somewhere(item, queues) <=> Among(Number(item), list)
  BY <1>1 DEF Somewhere, Stands
<1>3. Once(item, queues)
  BY <1>1 DEF Once, Stands
<1>4. Copies(item, queues) = Is(Somewhere(item, queues))
  BY <1>3, CopiesAre
<1>. QED  BY <1>2, <1>4 DEF Is

\* A packet leaves in one form only, which no other packet leaves in.
LEMMA FormFacts ==
  ASSUME PlacesRight, NEW p \in Came
  PROVE  /\ Decremented(p).type = "ip" /\ Decremented(p).id = p.id
         /\ Report(p).type = "icmp" /\ Report(p).about = p.id
         /\ Number(Decremented(p)) = p.id /\ Number(Report(p)) = p.id
<1>1. p \in IpPackets /\ p.type = "ip"
  BY CameType
<1>2. Decremented(p).type = "ip" /\ Decremented(p).id = p.id
  BY <1>1 DEF Decremented, IpPackets
<1>. QED  BY <1>2 DEF Report, Number

\* What stands in an output queue is a packet that came in and is routed that way, or a
\* report about one that came in there, or an ARP packet.
LEMMA LeavingForms ==
  ASSUME PlacesRight, NEW i, NEW e \in LeavingAt(i)
  PROVE  \/ \E q \in Came : Lives(q) /\ RouteOf(q).interface_name = i /\ e = Decremented(q)
         \/ \E q \in Came : Lives(q) /\ q.from = i /\ e = Report(q)
         \/ e \in Requests \cup Answers
BY DEF LeavingAt, OnWire, LeavingBy, CameBy

LEMMA Formed ==
  ASSUME PlacesRight, NEW p \in Came, NEW i, NEW e \in LeavingAt(i)
  PROVE  /\ e = Decremented(p) => Lives(p) /\ RouteOf(p).interface_name = i
         /\ e = Report(p) => Lives(p) /\ p.from = i
         /\ Number(e) = p.id => \/ e = Decremented(p) \/ e = Report(p)
                              \/ e \in Requests \cup Answers
<1>1. ASSUME NEW q \in Came, e = Decremented(q)
      PROVE  (e = Decremented(p) => q = p) /\ e # Report(p) /\ (Number(e) = p.id => q = p)
  BY <1>1, FormFacts, CameOnce
<1>2. ASSUME NEW q \in Came, e = Report(q)
      PROVE  (e = Report(p) => q = p) /\ e # Decremented(p) /\ (Number(e) = p.id => q = p)
  BY <1>2, FormFacts, CameOnce
<1>3. e \in Requests \cup Answers => e # Decremented(p) /\ e # Report(p)
  BY FormFacts DEF Requests, Answers
<1>4. CASE \E q \in Came : Lives(q) /\ RouteOf(q).interface_name = i /\ e = Decremented(q)
  BY <1>1, <1>4
<1>5. CASE \E q \in Came : Lives(q) /\ q.from = i /\ e = Report(q)
  BY <1>2, <1>5
<1>. QED  BY <1>3, <1>4, <1>5, LeavingForms

\* In a stream of packets they leave as packets, in one of reports as reports.
LEMMA FormOfMine ==
  ASSUME PlacesRight, NEW p \in Came, NEW i, NEW e \in LeavingAt(i), NEW t \in Tracks, e \in t.mine,
         Number(e) = p.id
  PROVE  /\ t \in RoutedTracks => e = Decremented(p)
         /\ t \in ReportTracks => e = Report(p)
<1>1. e = Decremented(p) \/ e = Report(p) \/ e \in Requests \cup Answers
  BY Formed
<1>2. e \notin Requests \cup Answers
  BY TrackKeeps
<1>3. t \in RoutedTracks => e.type = "ip"
  BY TrackFacts DEF IpPackets
<1>4. ASSUME t \in ReportTracks
      PROVE  e.type = "icmp"
  <2>1. e \in IcmpMessages
    BY <1>4, TrackFacts
  <2>. QED  BY ONLY <2>1 DEF IcmpMessages
<1>. QED  BY <1>1, <1>2, <1>3, <1>4, FormFacts

-----------------------------------------------------------------------------
\* On its way in a packet stands where its stream has its number.
LEMMA CountComing ==
  ASSUME PlacesRight, NEW p \in Came, NEW t, t = TrackOf(p), Unrepeated(Coming(t))
  PROVE  Copies(p, m_input_queue) = Is(Among(p.id, Coming(t)))
<1> PICK f : f = m_input_queue
  OBVIOUS
<1> PICK q : q = t.from
  OBVIOUS
<1> PICK T : T = t.mine
  OBVIOUS
<1> PICK list : list = Coming(t)
  OBVIOUS
<1>1. /\ t \in Tracks /\ p \in T /\ q = p.from /\ q \in Interfaces /\ Numbered(T)
      /\ Number(p) = p.id
  BY TrackOfFacts, TrackFacts, CameNumber
<1>2. DOMAIN f = Interfaces /\ \A i \in Interfaces : f[i] \in Seq(EnteringAt(i))
  BY DEF PlacesRight, InputsRight, PerInterface
<1>3. \A i \in Interfaces : \A k \in DOMAIN f[i] : f[i][k] \in EnteringAt(i)
  BY <1>2, ElementOfSeq
<1>4. q \in DOMAIN f /\ f[q] \in Seq(EnteringAt(q)) /\ list = Take(f[q], T) /\ Unrepeated(list)
  BY <1>1, <1>2 DEF Coming
<1>5. \A r \in DOMAIN f : \A k : k \in DOMAIN f[r] /\ f[r][k] = p => r = q
  BY <1>1, <1>2, <1>3 DEF EnteringAt
<1>6. ASSUME NEW k \in DOMAIN f[q], f[q][k] \in T, Number(f[q][k]) = Number(p)
      PROVE  f[q][k] = p
  <2>1. f[q][k] \in Came
    BY <1>1, <1>3, <1>6, TrackKeeps DEF EnteringAt, Entering
  <2>. QED  BY <1>1, <1>6, <2>1, CameNumber
<1>7. Copies(p, f) = Is(Among(Number(p), list))
  BY ONLY <1>1, <1>4, <1>5, <1>6, CountedOnce
<1>. QED  BY <1>1, <1>7

LEMMA CountSwitched ==
  ASSUME PlacesRight, NEW p \in Came, NEW t, t = TrackOf(p), Unrepeated(Switched(t))
  PROVE  Copies(p, [q \in {1} |-> m_switch_queue]) = Is(Among(p.id, Switched(t)))
<1> PICK f : f = [q \in {1} |-> m_switch_queue]
  OBVIOUS
<1> PICK T : T = t.mine
  OBVIOUS
<1> PICK list : list = Switched(t)
  OBVIOUS
<1>1. /\ t \in Tracks /\ p \in T /\ Numbered(T) /\ Number(p) = p.id
  BY TrackOfFacts, TrackFacts, CameNumber
<1>2. DOMAIN f = {1} /\ f[1] = m_switch_queue /\ f[1] \in Seq(Entering)
  BY DEF PlacesRight, SwitchRight
<1>3. 1 \in DOMAIN f /\ list = Take(f[1], T) /\ Unrepeated(list)
  BY <1>2 DEF Switched
<1>4. \A r \in DOMAIN f : \A k : k \in DOMAIN f[r] /\ f[r][k] = p => r = 1
  BY <1>2
<1>5. ASSUME NEW k \in DOMAIN f[1], f[1][k] \in T, Number(f[1][k]) = Number(p)
      PROVE  f[1][k] = p
  <2>1. f[1][k] \in Entering
    BY <1>2, ElementOfSeq
  <2>2. f[1][k] \in Came
    BY <1>1, <1>5, <2>1, TrackKeeps DEF Entering
  <2>. QED  BY <1>1, <1>5, <2>2, CameNumber
<1>6. Copies(p, f) = Is(Among(Number(p), list))
  BY ONLY <1>1, <1>2, <1>3, <1>4, <1>5, CountedOnce
<1>. QED  BY <1>1, <1>6

LEMMA CountHeld ==
  ASSUME PlacesRight, NEW p \in Came, NEW t, t = TrackOf(p), Unrepeated(Held(t))
  PROVE  Copies(p, [h \in Hops |-> WaitingPackets(h)]) = Is(Among(p.id, Held(t)))
<1> PICK f : f = [h \in Hops |-> WaitingPackets(h)]
  OBVIOUS
<1> PICK q : q = t.hop
  OBVIOUS
<1> PICK T : T = t.mine
  OBVIOUS
<1> PICK list : list = Held(t)
  OBVIOUS
<1>1. /\ t \in Tracks /\ p \in T /\ Numbered(T) /\ Number(p) = p.id
  BY TrackOfFacts, TrackFacts, CameNumber
<1>2. DOMAIN f = Hops /\ \A h \in Hops : f[h] = WaitingPackets(h)
  OBVIOUS
<1>3. \A h : WaitingPackets(h) \in Seq(GoingTo(h))
  BY WaitingType
<1>4. \A h \in Hops : \A k \in DOMAIN f[h] : f[h][k] \in GoingTo(h)
  BY <1>2, <1>3, ElementOfSeq
<1>5. \A r \in DOMAIN f : \A k : k \in DOMAIN f[r] /\ f[r][k] = p => r = q
  BY <1>1, <1>2, <1>4, GoingMine
<1>6. CASE q \in Hops
  <2>1. q \in DOMAIN f /\ f[q] \in Seq(GoingTo(q)) /\ list = Take(f[q], T) /\ Unrepeated(list)
    BY <1>2, <1>3, <1>6 DEF Held
  <2>2. ASSUME NEW k \in DOMAIN f[q], f[q][k] \in T, Number(f[q][k]) = Number(p)
        PROVE  f[q][k] = p
    <3>1. f[q][k] \in Came
      BY <1>4, <1>6 DEF GoingTo
    <3>. QED  BY <1>1, <2>2, <3>1, CameNumber
  <2>3. Copies(p, f) = Is(Among(Number(p), list))
    BY ONLY <1>1, <1>5, <2>1, <2>2, CountedOnce
  <2>. QED  BY <1>1, <2>3
<1>7. CASE q \notin Hops
  <2>1. \A g \in GoingTo(q) : g \notin T
    BY <1>1, <1>7, GoingMine
  <2>2. list = <<>>
    BY <1>1, <2>1, HeldNone
  <2>3. ~Among(p.id, list)
    BY <2>2, AmongLawsHold DEF AmongLaws
  <2>4. ~Somewhere(p, f) /\ Once(p, f)
    BY <1>2, <1>5, <1>7 DEF Somewhere, Once, Stands
  <2>5. Copies(p, f) = Is(Somewhere(p, f))
    BY <2>4, CopiesAre
  <2>. QED  BY <2>3, <2>4, <2>5 DEF Is
<1>. QED  BY <1>6, <1>7

\* An ip_ttl that is one or less is not more than one.
LEMMA TtlIsOver == \A ttl \in 0..255 : ttl <= 1 => ~(ttl > 1)
  OBVIOUS

\* On its way out, too: as a packet in its stream, as a report in that of the reports.
LEMMA CountLeaving ==
  ASSUME PlacesRight, NEW p \in Came, NEW t \in Tracks, NEW item,
         \/ t = TrackOf(p) /\ item = Decremented(p)
         \/ t = ReportsOf(p) /\ item = Report(p),
         NEW f, PerInterface(f), \A i \in Interfaces : f[i] \in Seq(LeavingAt(i)),
         NEW list, list = Take(f[t.exit], t.mine), Unrepeated(list)
  PROVE  /\ p.ip_ttl > 1 => Copies(item, f) = Is(Among(p.id, list))
         /\ p.ip_ttl <= 1 => Copies(item, f) = 0
<1> PICK q : q = t.exit
  OBVIOUS
<1> PICK T : T = t.mine
  OBVIOUS
<1>1. /\ q \in Interfaces /\ Numbered(T) /\ p \in IpPackets /\ p.ip_ttl \in 0..255
      /\ Number(item) = p.id /\ (p.ip_ttl > 1 => item \in T)
  BY TrackOfFacts, TrackFacts, CameType, FormFacts
<1>2. DOMAIN f = Interfaces
  BY DEF PerInterface
<1>3. \A i \in Interfaces : \A k \in DOMAIN f[i] : f[i][k] \in LeavingAt(i)
  BY ElementOfSeq
<1>4. ASSUME NEW r \in DOMAIN f, NEW k, k \in DOMAIN f[r], f[r][k] = item
      PROVE  r = q /\ Lives(p)
  <2>1. f[r][k] \in LeavingAt(r)
    BY <1>2, <1>3, <1>4
  <2>2. CASE t = TrackOf(p) /\ item = Decremented(p)
    <3>1. Lives(p) /\ RouteOf(p).interface_name = r
      BY <1>4, <2>1, <2>2, Formed
    <3>. QED  BY <1>1, <2>2, <3>1, TrackOfFacts, TrackFacts
  <2>3. CASE t = ReportsOf(p) /\ item = Report(p)
    <3>1. Lives(p) /\ p.from = r
      BY <1>4, <2>1, <2>3, Formed
    <3>. QED  BY <2>3, <3>1, TrackOfFacts
  <2>. QED  BY <2>2, <2>3
<1>5. ASSUME p.ip_ttl <= 1
      PROVE  Copies(item, f) = 0
  <2>1. ~(p.ip_ttl > 1)
    BY <1>1, <1>5, TtlIsOver
  <2>2. ~Lives(p)
    BY <2>1 DEF Lives
  <2>3. ~Somewhere(item, f)
    BY <1>4, <2>2 DEF Somewhere, Stands
  <2>. QED  BY <2>3, CopiesAre DEF Somewhere, Once, Is
<1>6. ASSUME p.ip_ttl > 1
      PROVE  Copies(item, f) = Is(Among(p.id, list))
  <2>1. item \in T /\ Number(item) = p.id
    BY <1>1, <1>6
  <2>2. \A r \in DOMAIN f : \A k : k \in DOMAIN f[r] /\ f[r][k] = item => r = q
    BY <1>4
  <2>3. ASSUME NEW k \in DOMAIN f[q], f[q][k] \in T, Number(f[q][k]) = Number(item)
        PROVE  f[q][k] = item
    <3>1. /\ t \in RoutedTracks => f[q][k] = Decremented(p)
          /\ t \in ReportTracks => f[q][k] = Report(p)
      BY <1>1, <1>3, <2>3, FormOfMine
    <3>. QED  BY <3>1, TrackOfFacts
  <2>4. q \in DOMAIN f /\ f[q] \in Seq(LeavingAt(q)) /\ list = Take(f[q], T) /\ Unrepeated(list)
    BY <1>1, <1>2
  <2>5. Copies(item, f) = Is(Among(Number(item), list))
    BY ONLY <1>1, <2>1, <2>2, <2>3, <2>4, CountedOnce
  <2>. QED  BY <2>1, <2>5
<1>. QED  BY <1>5, <1>6

\* The places a packet is counted in, by the stages of its stream and of the reports.
Tallies(ttl, drop, dO, dW, rO, rW, na, nb, nc, nd, ne, nw, ng, nl, nv) ==
  /\ na + nb + nc + nd + ne = nw
  /\ na \in {0, 1} /\ nb \in {0, 1} /\ nc \in {0, 1} /\ nd \in {0, 1} /\ ne \in {0, 1}
  /\ ng \in {0, 1} /\ nl \in {0, 1} /\ ng + nl = nv
  /\ nw \in {0, 1} /\ drop \in {0, 1} /\ ttl \in 0..255
  /\ ttl > 1 => dO = nb /\ dW = na /\ rO = nl /\ rW = ng /\ drop + nw + nv = 1
  /\ ttl <= 1 => dO = 0 /\ dW = 0 /\ rO = 0 /\ rW = 0 /\ drop = 0

LEMMA TalliesAdd ==
  \A ttl, drop, dO, dW, rO, rW, na, nb, nc, nd, ne, nw, ng, nl, nv :
    Tallies(ttl, drop, dO, dW, rO, rW, na, nb, nc, nd, ne, nw, ng, nl, nv) =>
      IF ttl > 1 THEN (ne + nd + nc) + ((dO + dW) + (rO + rW) + drop) = 1
      ELSE ne + nd + nc <= 1 /\ (dO + dW) + (rO + rW) + drop = 0
  BY DEF Tallies

\* The one place a number has in its stream is the fate of the packet.
LEMMA FatesMean == RouterInv => OneFate
<1> SUFFICES ASSUME RouterInv, NEW id \in DOMAIN arrived, NEW p, p = arrived[id]
             PROVE  LET inside == Copies(p, m_input_queue) + Copies(p, [q \in {1} |-> m_switch_queue])
                                    + Copies(p, [h \in Hops |-> WaitingPackets(h)])
                        forwarded == Copies(Decremented(p), m_output_queue) + Copies(Decremented(p), wire)
                        report == [type |-> "icmp", about |-> id]
                        reported == Copies(report, m_output_queue) + Copies(report, wire)
                        dropped == IF id \in given_up THEN 1 ELSE 0
                        left == forwarded + reported + dropped
                    IN  IF p.ip_ttl > 1 THEN inside + left = 1 ELSE inside <= 1 /\ left = 0
  BY DEF OneFate
<1> PICK t : t = TrackOf(p)
  OBVIOUS
<1>1. PlacesRight /\ StreamsRight
  BY DEF RouterInv, TypesRight
<1>2. p \in Came /\ p.id = id
  BY <1>1 DEF Came, PlacesRight, HistoryRight
<1> PICK r : r = ReportsOf(p)
  OBVIOUS
<1>3. /\ t \in Tracks /\ t \in RoutedTracks /\ p \in t.mine
      /\ r \in Tracks /\ r \in ReportTracks /\ r = ReportTrack(t.from)
  BY <1>1, <1>2, TrackOfFacts
<1>4. Report(p) = [type |-> "icmp", about |-> id] /\ p.ip_ttl \in 0..255
  BY <1>1, <1>2, CameType DEF Report
<1> PICK a : a = Sent(t)
  OBVIOUS
<1> PICK b : b = Out(t)
  OBVIOUS
<1> PICK c : c = Held(t)
  OBVIOUS
<1> PICK d : d = Switched(t)
  OBVIOUS
<1> PICK e : e = Coming(t)
  OBVIOUS
<1> PICK w : w = Whole(t)
  OBVIOUS
<1>5. IsList(a) /\ IsList(b) /\ IsList(c) /\ IsList(d) /\ IsList(e) /\ w = Join(a, Chain(b, c, d, e))
  BY <1>1, <1>3, StageTypes DEF Whole, In
<1>6. RisingList(Join(a, Chain(b, c, d, e)))
  BY <1>1, <1>3, <1>5 DEF StreamsRight, Ordered
<1>7. /\ Unrepeated(a) /\ Unrepeated(b) /\ Unrepeated(c) /\ Unrepeated(d) /\ Unrepeated(e)
      /\ Is(Among(id, a)) + Is(Among(id, b)) + Is(Among(id, c)) + Is(Among(id, d)) + Is(Among(id, e))
           = Is(Among(id, w))
  <2>1. /\ RisingList(a) /\ RisingList(b) /\ RisingList(c) /\ RisingList(d) /\ RisingList(e)
        /\ Is(Among(id, a)) + Is(Among(id, b)) + Is(Among(id, c)) + Is(Among(id, d)) + Is(Among(id, e))
             = Is(Among(id, Join(a, Chain(b, c, d, e))))
    BY ONLY <1>5, <1>6, OneStage
  <2>. QED  BY <1>5, <2>1, RisingUnrepeated
<1> PICK g : g = Sent(r)
  OBVIOUS
<1> PICK l : l = Out(r)
  OBVIOUS
<1> PICK v : v = Whole(r)
  OBVIOUS
<1>8. /\ IsList(g) /\ IsList(l) /\ v = Join(g, l) /\ Unrepeated(v)
  BY <1>1, <1>3, StageTypes, ReportsOnly DEF Whole, StreamsRight, Singly
<1>9. /\ Unrepeated(g) /\ Unrepeated(l)
      /\ Among(id, v) <=> Among(id, g) \/ Among(id, l)
      /\ ~(Among(id, g) /\ Among(id, l))
  BY ONLY <1>8, UnrepeatedParts, AmongLawsHold DEF AmongLaws
<1>10. /\ Copies(p, m_input_queue) = Is(Among(id, e))
       /\ Copies(p, [q \in {1} |-> m_switch_queue]) = Is(Among(id, d))
       /\ Copies(p, [h \in Hops |-> WaitingPackets(h)]) = Is(Among(id, c))
  BY <1>1, <1>2, <1>7, CountComing, CountSwitched, CountHeld
<1>11. /\ PerInterface(m_output_queue) /\ \A i \in Interfaces : m_output_queue[i] \in Seq(LeavingAt(i))
       /\ PerInterface(wire) /\ \A i \in Interfaces : wire[i] \in Seq(LeavingAt(i))
  <2>1. \A i \in Interfaces : wire[i] \in Seq(OnWire(i)) /\ OnWire(i) \subseteq LeavingAt(i)
    BY <1>1 DEF PlacesRight, WireRight, LeavingAt
  <2>. QED  BY <1>1, <2>1, SeqMonotonic DEF PlacesRight, WireRight, OutputsRight
<1> PICK oQ : oQ = m_output_queue
  OBVIOUS
<1> PICK wQ : wQ = wire
  OBVIOUS
<1>12. /\ PerInterface(oQ) /\ \A i \in Interfaces : oQ[i] \in Seq(LeavingAt(i))
       /\ PerInterface(wQ) /\ \A i \in Interfaces : wQ[i] \in Seq(LeavingAt(i))
       /\ b = Take(oQ[t.exit], t.mine) /\ a = Take(wQ[t.exit], t.mine) /\ t = TrackOf(p)
       /\ l = Take(oQ[r.exit], r.mine) /\ g = Take(wQ[r.exit], r.mine) /\ r = ReportsOf(p)
  BY <1>11 DEF Out, Sent
<1> PICK dec : dec = Decremented(p)
  OBVIOUS
<1> PICK rep : rep = Report(p)
  OBVIOUS
<1>13. /\ p.ip_ttl > 1 => Copies(dec, oQ) = Is(Among(p.id, b)) /\ Copies(dec, wQ) = Is(Among(p.id, a))
       /\ p.ip_ttl <= 1 => Copies(dec, oQ) = 0 /\ Copies(dec, wQ) = 0
  <2>1. t = TrackOf(p) /\ dec = Decremented(p)
    BY <1>12
  <2>. QED  BY ONLY <1>1, <1>2, <1>3, <1>7, <1>12, <2>1, CountLeaving
<1>14. /\ p.ip_ttl > 1 => Copies(rep, oQ) = Is(Among(p.id, l)) /\ Copies(rep, wQ) = Is(Among(p.id, g))
       /\ p.ip_ttl <= 1 => Copies(rep, oQ) = 0 /\ Copies(rep, wQ) = 0
  <2>1. r = ReportsOf(p) /\ rep = Report(p)
    BY <1>12
  <2>. QED  BY ONLY <1>1, <1>2, <1>3, <1>12, <1>9, <2>1, CountLeaving
<1>15. p.ip_ttl > 1 => OneOf(id \in given_up, Among(id, w), Among(id, v))
  BY <1>1, <1>2, <1>3 DEF StreamsRight, Fates, Kept, Lives
<1>16. p.ip_ttl <= 1 => id \notin given_up
  <2>1. p.ip_ttl <= 1 => ~(p.ip_ttl > 1)
    BY <1>4, TtlIsOver
  <2>. QED  BY <1>1, <2>1 DEF PlacesRight, GivenUpRight
<1> PICK dO : dO = Copies(Decremented(p), oQ)
  OBVIOUS
<1> PICK dW : dW = Copies(Decremented(p), wQ)
  OBVIOUS
<1> PICK rO : rO = Copies(Report(p), oQ)
  OBVIOUS
<1> PICK rW : rW = Copies(Report(p), wQ)
  OBVIOUS
<1> PICK ttl : ttl = p.ip_ttl
  OBVIOUS
<1>17. /\ ttl \in 0..255
       /\ ttl > 1 => /\ dO = Is(Among(id, b)) /\ dW = Is(Among(id, a))
                     /\ rO = Is(Among(id, l)) /\ rW = Is(Among(id, g))
                     /\ OneOf(id \in given_up, Among(id, w), Among(id, v))
       /\ ttl <= 1 => dO = 0 /\ dW = 0 /\ rO = 0 /\ rW = 0 /\ id \notin given_up
  BY <1>2, <1>4, <1>13, <1>14, <1>15, <1>16
<1>18. /\ Is(Among(id, a)) + Is(Among(id, b)) + Is(Among(id, c)) + Is(Among(id, d)) + Is(Among(id, e))
            = Is(Among(id, w))
       /\ Is(Among(id, w)) \in {0, 1} /\ Is(Among(id, a)) \in {0, 1} /\ Is(Among(id, b)) \in {0, 1}
       /\ Is(Among(id, c)) \in {0, 1} /\ Is(Among(id, d)) \in {0, 1} /\ Is(Among(id, e)) \in {0, 1}
       /\ Is(Among(id, g)) \in {0, 1} /\ Is(Among(id, l)) \in {0, 1}
       /\ Is(Among(id, g)) + Is(Among(id, l)) = Is(Among(id, v))
  BY <1>7, <1>9 DEF Is
<1> PICK drop : drop = IF id \in given_up THEN 1 ELSE 0
  OBVIOUS
<1>19. ttl > 1 => drop + Is(Among(id, w)) + Is(Among(id, v)) = 1
  BY <1>17 DEF OneOf, Is
<1>20. Tallies(ttl, drop, dO, dW, rO, rW,
               Is(Among(id, a)), Is(Among(id, b)), Is(Among(id, c)), Is(Among(id, d)), Is(Among(id, e)),
               Is(Among(id, w)), Is(Among(id, g)), Is(Among(id, l)), Is(Among(id, v)))
  BY <1>17, <1>18, <1>19 DEF Tallies
<1>21. LET inside == Is(Among(id, e)) + Is(Among(id, d)) + Is(Among(id, c))
           left == (dO + dW) + (rO + rW) + drop
       IN  IF ttl > 1 THEN inside + left = 1 ELSE inside <= 1 /\ left = 0
  BY ONLY <1>20, TalliesAdd
<1>. QED  BY <1>4, <1>10, <1>21

\* Every packet that came in has one fate: it is on its way in as it came, or it left
\* with its ip_ttl decremented once, or it was reported, or it was given up with those
\* that waited for the same ARP reply; none is lost or doubled on the way.
THEOREM OneFateEach == Spec => []OneFate
BY InitStreams, RouterInvStep, FatesMean, PTL DEF Spec

-----------------------------------------------------------------------------
(* The router implements LossyLines.                                       *)

LinesAreStreams ==
  PlacesRight => \A i \in Interfaces, h \in Hops :
                  /\ Delivered(<<i, h>>) = Sent(RoutedTrack(i, h))
                  /\ Inside(<<i, h>>) = In(RoutedTrack(i, h))

\* A line is a stream, before and after a step.
LEMMA LinesNow == LinesAreStreams
BY LineStream DEF LinesAreStreams

LEMMA LinesNext == LinesAreStreams'
BY LinesNow, PTL

\* The same of a line, before and after a step.
LineTrack(line) == RoutedTrack(line[1], line[2])

LEMMA LineTracks ==
  ASSUME PlacesRight, PlacesRight', NEW line \in Lines
  PROVE  /\ LineTrack(line) \in RoutedTracks /\ LineTrack(line) \in Tracks
         /\ Delivered(line) = Sent(LineTrack(line)) /\ Inside(line) = In(LineTrack(line))
         /\ Delivered(line)' = Sent(LineTrack(line))' /\ Inside(line)' = In(LineTrack(line))'
<1>1. PICK i \in Interfaces, h \in Hops : line = <<i, h>>
  BY DEF Lines
<1>2. LineTrack(line) = RoutedTrack(i, h)
  BY <1>1 DEF LineTrack
<1>3. RoutedTrack(i, h) \in RoutedTracks /\ RoutedTrack(i, h) \in Tracks
  BY DEF RoutedTracks, Tracks
<1>4. /\ Delivered(<<i, h>>) = Sent(RoutedTrack(i, h)) /\ Inside(<<i, h>>) = In(RoutedTrack(i, h))
      /\ Delivered(<<i, h>>)' = Sent(RoutedTrack(i, h))' /\ Inside(<<i, h>>)' = In(RoutedTrack(i, h))'
  BY LinesNow, LinesNext DEF LinesAreStreams
<1>. QED  BY <1>1, <1>2, <1>3, <1>4

\* Two lists that were joined can be taken apart again.
LEMMA TakenApart ==
  ASSUME NEW x, NEW y, IsList(x), IsList(y)
  PROVE  /\ Len(x) \in 0..Len(Join(x, y))
         /\ SubSeq(Join(x, y), 1, Len(x)) = x
         /\ SubSeq(Join(x, y), Len(x) + 1, Len(Join(x, y))) = y
<1> PICK n : n = Len(x)
  OBVIOUS
<1> PICK m : m = Len(y)
  OBVIOUS
<1> PICK u : u = x \o y
  OBVIOUS
<1>0. n = Len(x) /\ m = Len(y)
  OBVIOUS
<1>1. x \in Seq(Nat) /\ y \in Seq(Nat) /\ n \in Nat /\ m \in Nat
  BY DEF IsList
<1>2. /\ u \in Seq(Nat) /\ Len(u) = n + m
      /\ \A i \in 1..(n + m) : u[i] = IF i <= n THEN x[i] ELSE y[i - n]
  BY <1>1, ConcatProperties
<1> PICK f : f = SubSeq(u, 1, n)
  OBVIOUS
<1> PICK g : g = SubSeq(u, n + 1, n + m)
  OBVIOUS
<1>3. f \in Seq(Nat) /\ Len(f) = n /\ \A i \in 1..n : f[i] = u[i]
  <2>1. f = SubSeq(u, 1, n)
    OBVIOUS
  <2>2. n \in Nat /\ 1 \in 1..(n + m + 1) /\ 1 \in Int /\ n - 1 + 1 = n
    BY ONLY <1>1
  <2>. QED  BY ONLY <1>1, <1>2, <2>1, <2>2, SubSeqProperties
<1>4. g \in Seq(Nat) /\ Len(g) = m /\ \A i \in 1..m : g[i] = u[n + i]
  <2>1. g = SubSeq(u, n + 1, n + m)
    OBVIOUS
  <2>2. /\ n + 1 \in Int /\ n + m \in Int /\ n + 1 >= 1 /\ (n + m) - (n + 1) + 1 = m
        /\ \A i \in 1..m : (n + 1) + i - 1 = n + i
    BY ONLY <1>1
  <2>. QED  BY ONLY <1>1, <1>2, <2>1, <2>2, SubSeqProperties
<1>5. \A i \in 1..n : f[i] = x[i]
  BY <1>1, <1>2, <1>3
<1>6. ASSUME NEW i \in 1..m
      PROVE  g[i] = y[i]
  <2>1. n + i \in 1..(n + m) /\ ~(n + i <= n) /\ (n + i) - n = i
    BY ONLY <1>1, i \in 1..m
  <2>2. u[n + i] = y[(n + i) - n]
    BY ONLY <1>2, <2>1
  <2>3. g[i] = u[n + i]
    BY <1>4
  <2>. QED  BY ONLY <2>1, <2>2, <2>3
<1>7. f = x
  BY ONLY <1>0, <1>1, <1>3, <1>5, SeqEqual
<1>8. g = y
  BY ONLY <1>0, <1>1, <1>4, <1>6, SeqEqual
<1>9. Join(x, y) = u /\ f = SubSeq(u, 1, n) /\ g = SubSeq(u, n + 1, n + m)
  BY DEF Join
<1>10. n \in 0..(n + m)
  BY ONLY <1>1
<1>. QED  BY ONLY <1>0, <1>2, <1>7, <1>8, <1>9, <1>10

\* A list is a part of itself, and so is what is left of it when some in the middle goes.
LEMMA PartSelf ==
  ASSUME NEW s, IsList(s)
  PROVE  Streams!PartOf(s, s)
<1> DEFINE place == [k \in DOMAIN s |-> k]
<1>1. place \in [DOMAIN s -> DOMAIN s]
  OBVIOUS
<1>. QED  BY <1>1 DEF Streams!PartOf

LEMMA PartDrop ==
  ASSUME NEW x, NEW m, NEW z, IsList(x), IsList(m), IsList(z)
  PROVE  Streams!PartOf(Join(x, z), Join(x, Join(m, z)))
<1> PICK n : n = Len(x)
  OBVIOUS
<1> PICK a : a = Len(m)
  OBVIOUS
<1> PICK l : l = Len(z)
  OBVIOUS
<1> PICK t : t = m \o z
  OBVIOUS
<1> PICK u : u = x \o t
  OBVIOUS
<1> PICK v : v = x \o z
  OBVIOUS
<1>0. x \in Seq(Nat) /\ m \in Seq(Nat) /\ z \in Seq(Nat)
  BY DEF IsList
<1>1. n \in Nat /\ a \in Nat /\ l \in Nat
  BY <1>0
<1>2. /\ t \in Seq(Nat) /\ Len(t) = a + l
      /\ \A i \in 1..(a + l) : t[i] = IF i <= a THEN m[i] ELSE z[i - a]
  BY <1>0, ConcatProperties
<1>3. /\ u \in Seq(Nat) /\ Len(u) = n + (a + l)
      /\ \A i \in 1..(n + (a + l)) : u[i] = IF i <= n THEN x[i] ELSE t[i - n]
  BY <1>0, <1>2, ConcatProperties
<1>4. /\ v \in Seq(Nat) /\ Len(v) = n + l
      /\ \A i \in 1..(n + l) : v[i] = IF i <= n THEN x[i] ELSE z[i - n]
  BY <1>0, ConcatProperties
<1>5. DOMAIN u = 1..(n + (a + l)) /\ DOMAIN v = 1..(n + l)
  BY <1>3, <1>4
<1> PICK place : place = [k \in 1..(n + l) |-> IF k <= n THEN k ELSE a + k]
  OBVIOUS
<1>6. \A k \in 1..(n + l) : place[k] = IF k <= n THEN k ELSE a + k
  OBVIOUS
<1>7. ASSUME NEW k \in 1..(n + l)
      PROVE  place[k] \in 1..(n + (a + l)) /\ v[k] = u[place[k]]
  <2>1. CASE k <= n
    <3>1. place[k] = k /\ k \in 1..(n + (a + l))
      BY ONLY <1>1, <1>6, <2>1, k \in 1..(n + l)
    <3>. QED  BY ONLY <1>3, <1>4, <2>1, <3>1, k \in 1..(n + l)
  <2>2. CASE ~(k <= n)
    <3>1. /\ place[k] = a + k /\ a + k \in 1..(n + (a + l)) /\ ~(a + k <= n)
          /\ (a + k) - n \in 1..(a + l) /\ ~((a + k) - n <= a) /\ ((a + k) - n) - a = k - n
      BY ONLY <1>1, <1>6, <2>2, k \in 1..(n + l)
    <3>2. u[a + k] = t[(a + k) - n]
      BY ONLY <1>3, <3>1
    <3>3. t[(a + k) - n] = z[((a + k) - n) - a]
      BY ONLY <1>2, <3>1
    <3>4. v[k] = z[k - n]
      BY ONLY <1>4, <2>2, k \in 1..(n + l)
    <3>. QED  BY ONLY <3>1, <3>2, <3>3, <3>4
  <2>. QED  BY ONLY <2>1, <2>2
<1>8. ASSUME NEW j \in 1..(n + l), NEW k \in 1..(n + l), j < k
      PROVE  place[j] < place[k]
  BY ONLY <1>1, <1>6, <1>8
<1>9. place \in [1..(n + l) -> 1..(n + (a + l))]
  BY <1>7
<1>10. Streams!PartOf(v, u)
  BY ONLY <1>5, <1>7, <1>8, <1>9 DEF Streams!PartOf
<1>11. Join(x, z) = v /\ Join(x, Join(m, z)) = u
  BY DEF Join
<1>. QED  BY ONLY <1>10, <1>11

\* What a stream that loses has left is a part of it.
LEMMA LosesIsPart ==
  ASSUME PlacesRight, NEW t \in Tracks,
         Stays(t) \/ \E m : IsList(m) /\ Loses(t, m)
  PROVE  UNCHANGED Sent(t) /\ Streams!PartOf(In(t)', In(t))
<1>1. CASE Stays(t)
  <2>1. IsList(In(t))
    BY WholeTypes DEF WholeTyped
  <2>. QED  BY <1>1, <2>1, PartSelf DEF Stays
<1>2. CASE \E m : IsList(m) /\ Loses(t, m)
  <2>1. PICK m, x, z : /\ IsList(m) /\ IsList(x) /\ IsList(z) /\ UNCHANGED Sent(t)
                       /\ In(t) = Join(x, Join(m, z)) /\ In(t)' = Join(x, z)
    BY <1>2 DEF Loses
  <2>2. Streams!PartOf(Join(x, z), Join(x, Join(m, z)))
    BY ONLY <2>1, PartDrop
  <2>. QED  BY <2>1, <2>2
<1>. QED  BY <1>1, <1>2

\* What a step makes of all lines, as LossyLines has it.
LEMMA LinesStay ==
  ASSUME PlacesRight, PlacesRight', AllStay
  PROVE  UNCHANGED Streams!lines
<1>1. \A line \in Lines : UNCHANGED <<Delivered(line), Inside(line)>>
  BY LineTracks DEF AllStay, Stays
<1>. QED  BY <1>1 DEF Streams!lines

\* What leaves all lines is what stood in their output queues.
LEMMA LinesLeave ==
  ASSUME PlacesRight, PlacesRight', AllLeave
  PROVE  Streams!Leave
<1>1. ASSUME NEW line \in Lines
      PROVE  \E n \in 0..Len(Inside(line)) :
               /\ Delivered(line)' = Delivered(line) \o SubSeq(Inside(line), 1, n)
               /\ Inside(line)' = SubSeq(Inside(line), n + 1, Len(Inside(line)))
  <2> PICK t : t = LineTrack(line)
    OBVIOUS
  <2> PICK out : out = Out(LineTrack(line))
    OBVIOUS
  <2> PICK rest : rest = Inside(line)'
    OBVIOUS
  <2>1. LineTrack(line) \in Tracks /\ Leaves(LineTrack(line))
    BY LineTracks DEF AllLeave
  <2>2. Delivered(line)' = Join(Delivered(line), out) /\ Inside(line) = Join(out, rest)
    BY <2>1, LineTracks DEF Leaves
  <2>3. IsList(out) /\ IsList(rest)
    BY <2>1, LineTracks, StageTypes, WholeTypesNext DEF WholeTyped
  <2>4. /\ Len(out) \in 0..Len(Join(out, rest))
        /\ SubSeq(Join(out, rest), 1, Len(out)) = out
        /\ SubSeq(Join(out, rest), Len(out) + 1, Len(Join(out, rest))) = rest
    BY ONLY <2>3, TakenApart
  <2>5. Delivered(line)' = Delivered(line) \o out
    BY <2>2 DEF Join
  <2>6. rest = Inside(line)'
    OBVIOUS
  <2>. QED  BY ONLY <2>2, <2>4, <2>5, <2>6
<1>. QED  BY <1>1 DEF Streams!Leave

\* Losing keeps the order of what is left.
LEMMA LinesLose ==
  ASSUME PlacesRight, PlacesRight',
         \A t \in RoutedTracks : Stays(t) \/ \E m : IsList(m) /\ Loses(t, m)
  PROVE  Streams!Lose
<1>1. ASSUME NEW line \in Lines
      PROVE  UNCHANGED Delivered(line) /\ Streams!PartOf(Inside(line)', Inside(line))
  <2>1. UNCHANGED Sent(LineTrack(line)) /\ Streams!PartOf(In(LineTrack(line))', In(LineTrack(line)))
    BY LineTracks, LosesIsPart
  <2>. QED  BY <2>1, LineTracks
<1>2. /\ UNCHANGED [line \in Lines |-> Delivered(line)]
      /\ \A line \in Lines : Streams!PartOf(Inside(line)', Inside(line))
  BY <1>1
<1>. QED  BY <1>2 DEF Streams!Lose

\* A packet enters the one line to its next hop, under a number that is new.
LEMMA LinesEnter ==
  ASSUME PlacesRight, PlacesRight', StreamsRight, NEW p, OneEnters(p)
  PROVE  \E line \in Lines, n \in 1..MaxPackets : Streams!Enter(line, n)
<1> PICK on : on = <<p.from, RouteOf(p).next_hop>>
  OBVIOUS
<1>1. /\ p \in IpPackets /\ p.id \in 1..MaxPackets /\ p.id \notin DOMAIN arrived /\ Number(p) = p.id
  BY DEF OneEnters, Arrives, IpPackets, Number
<1>2. ASSUME NEW line \in Lines
      PROVE  /\ UNCHANGED Delivered(line)
             /\ p \in LineTrack(line).mine => Inside(line)' = Append(Inside(line), p.id)
             /\ p \notin LineTrack(line).mine => UNCHANGED Inside(line)
  <2> PICK s : s = Inside(line)
    OBVIOUS
  <2>1. LineTrack(line) \in Tracks /\ Enters(LineTrack(line), Mark(p, LineTrack(line)))
    BY LineTracks DEF OneEnters
  <2>2. UNCHANGED Delivered(line) /\ Inside(line)' = Join(Inside(line), Mark(p, LineTrack(line)))
    BY <2>1, LineTracks DEF Enters
  <2>3. IsList(s)
    BY <2>1, LineTracks, WholeTypes DEF WholeTyped
  <2>4. Join(s, <<>>) = s
    BY <2>3, JoinLawsHold DEF JoinLaws
  <2>5. Join(s, <<p.id>>) = Append(s, p.id)
    BY <2>3 DEF Join, IsList
  <2>. QED  BY <1>1, <2>2, <2>4, <2>5 DEF Mark
<1>3. ASSUME NEW line \in Lines
      PROVE  p \in LineTrack(line).mine <=> line = on
  BY <1>1 DEF LineTrack, RoutedTrack, RoutedMine, OnLine, IsIp, Lines, IpPackets
<1>4. on \in Lines
  BY <1>1, RouteRight DEF IpPackets, Lines
<1>5. /\ \A line \in Lines : UNCHANGED Delivered(line)
      /\ Inside(on)' = Append(Inside(on), p.id)
      /\ \A line \in Lines : line # on => UNCHANGED Inside(line)
  BY <1>2, <1>3, <1>4
<1>6. ASSUME NEW line \in Lines
      PROVE  ~Among(p.id, Inside(line)) /\ ~Among(p.id, Delivered(line))
  <2> PICK s : s = Sent(LineTrack(line))
    OBVIOUS
  <2> PICK i : i = In(LineTrack(line))
    OBVIOUS
  <2>1. LineTrack(line) \in Tracks
    BY LineTracks
  <2>2. IsList(s) /\ IsList(i)
    BY <2>1, WholeTypes DEF WholeTyped
  <2>3. ~Among(p.id, Join(s, i))
    BY <1>1, <2>1 DEF StreamsRight, Known, Whole
  <2>4. ~Among(p.id, s) /\ ~Among(p.id, i)
    BY <2>2, <2>3, AmongLawsHold DEF AmongLaws
  <2>. QED  BY <2>4, LineTracks
<1>7. \A line \in Lines : p.id \notin Streams!Range(Inside(line)) \cup Streams!Range(Delivered(line))
  BY <1>6 DEF Among, Streams!Range
<1>8. Streams!Enter(on, p.id)
  BY <1>4, <1>5, <1>7 DEF Streams!Enter
<1>. QED  BY <1>1, <1>4, <1>8

\* The initial states are those of LossyLines, and every step is one of its steps.
LEMMA InitLines == Init => Streams!Init
<1> SUFFICES ASSUME Init
             PROVE  Streams!Init
  OBVIOUS
<1>1. PlacesRight /\ StreamsRight
  BY InitStreams DEF RouterInv, TypesRight
<1>2. ASSUME NEW line \in Lines
      PROVE  Delivered(line) = <<>> /\ Inside(line) = <<>>
  <2> PICK i \in Interfaces, h \in Hops : line = <<i, h>>
    BY DEF Lines
  <2>1. LineTrack(line) = RoutedTrack(i, h) /\ LineTrack(line) \in Tracks
    BY DEF LineTrack, RoutedTracks, Tracks
  <2>. QED  BY <1>1, <2>1, LineStream, NothingYet
<1>. QED  BY <1>2 DEF Streams!Init

LEMMA LinesStep == RouterInv /\ [Next]_vars => [Streams!Next]_(Streams!lines)
<1> SUFFICES ASSUME RouterInv, [Next]_vars
             PROVE  Streams!Next \/ UNCHANGED Streams!lines
  OBVIOUS
<1>1. TypesRight /\ PlacesRight' /\ StreamsRight /\ PlacesRight
  BY TypesStep DEF RouterInv, TypesRight
<1>2. StreamStep
  BY <1>1, StreamsStep
<1>3. CASE AllStay
  BY <1>1, <1>3, LinesStay
<1>4. CASE AllLeave
  BY <1>1, <1>4, LinesLeave DEF Streams!Next
<1>5. CASE \E p : OneEnters(p)
  BY <1>1, <1>5, LinesEnter DEF Streams!Next
<1>6. CASE \E p : OneExpires(p) \/ OneReported(p)
  <2>1. PICK p : \A t \in RoutedTracks : t \in Tracks /\ Loses(t, Mark(p, t))
    BY <1>6 DEF OneExpires, OneReported, Tracks
  <2>2. \A t \in RoutedTracks : Stays(t) \/ \E m : IsList(m) /\ Loses(t, m)
    BY <2>1, MarkIs
  <2>. QED  BY <1>1, <2>2, LinesLose DEF Streams!Next
<1>7. CASE \E h : HeldAreLost(h)
  <2>1. PICK h : \A t \in Tracks : /\ t.hop = h => Loses(t, Held(t))
                                   /\ t.hop # h => Stays(t)
    BY <1>7 DEF HeldAreLost
  <2>2. \A t \in RoutedTracks : Stays(t) \/ \E m : IsList(m) /\ Loses(t, m)
    BY <1>1, <2>1, StageTypes DEF Tracks
  <2>. QED  BY <1>1, <2>2, LinesLose DEF Streams!Next
<1>. QED  BY <1>2, <1>3, <1>4, <1>5, <1>6, <1>7 DEF StreamStep

\* With its queues, its ARP tables and its retries a router is to the hosts no more than
\* lines that keep packets in order, never double one and may lose some.
THEOREM RouterIsLines == Spec => ImplementsLossyLines
BY InitStreams, RouterInvStep, InitLines, LinesStep, PTL
   DEF Spec, ImplementsLossyLines, Streams!Spec

=============================================================================
