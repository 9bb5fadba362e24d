------------------------ MODULE AutonomousSystemsProofs ------------------------
(***************************************************************************)
(* For any network of ASes that meets the assumptions of AutonomousSystems:*)
(* hookUpRequest spreads a destination to every AS, withdrawl erases it    *)
(* everywhere, the paths kept lead to the newcomer, frames underway while  *)
(* an AS attaches are not lost, and what the frames to one destination see *)
(* are the two flags of Membership.                                        *)
(***************************************************************************)
EXTENDS BorderFlags, TLAPS, SequenceTheorems, FiniteSetTheorems,
        NaturalsInduction, WellFoundedInduction

Updates == [to : ASes, path : Seq(ASes), dest : Announced]
FlagWrites == [router : Routers, dest : Announced, value : BOOLEAN]
PathEntries == [dest : Announced, path : Seq(ASes)]
FrameStates == [at : Way \cup {"receiver", "refused", "lost"}, dest : Announced,
                withdrawing : BOOLEAN]

-----------------------------------------------------------------------------
(* The operators of the model.                                             *)

LEMMA FunctionSeq ==
  ASSUME NEW S, NEW n \in Nat, NEW f \in [1..n -> S]
  PROVE  f \in Seq(S) /\ Len(f) = n
BY SMT

AreFlagsOf(flags, as, d, v) ==
  /\ flags \in Seq(FlagWrites)
  /\ \A k \in DOMAIN flags : /\ flags[k].router \in Range(BorderRouters[as])
                             /\ flags[k].dest = d /\ flags[k].value = v
  /\ \A r \in Range(BorderRouters[as]) : \E k \in DOMAIN flags : flags[k].router = r

LEMMA FlagsForFacts ==
  ASSUME NEW as \in ASes, NEW d \in Announced, NEW v \in BOOLEAN
  PROVE  AreFlagsOf(FlagsFor(as, d, v), as, d, v)
<1>0. PICK routers, n, flags :
      routers = BorderRouters[as] /\ n = Len(routers) /\ flags = FlagsFor(as, d, v)
  OBVIOUS
<1>1. routers \in Seq(Routers)
  BY <1>0, TopologyAssumption
<1>2. /\ DOMAIN routers = 1..n /\ n \in Nat /\ routers \in [1..n -> Routers]
      /\ \A k \in 1..n : routers[k] \in Routers
  BY <1>0, <1>1, LenProperties
<1>3. flags = [k \in 1..n |-> [router |-> routers[k], dest |-> d, value |-> v]]
  BY <1>0, <1>2 DEF FlagsFor
<1>4. flags \in Seq(FlagWrites)
  <2>1. \A k \in 1..n :
          [router |-> routers[k], dest |-> d, value |-> v] \in FlagWrites
    BY <1>2 DEF FlagWrites
  <2>2. flags \in [1..n -> FlagWrites]
    BY <1>3, <2>1
  <2> QED
    BY <1>2, <2>2, FunctionSeq
<1>5. \A r \in Range(BorderRouters[as]) : \E k \in 1..n : routers[k] = r
  BY <1>0, <1>2 DEF Range
<1>6. \A k \in 1..n : routers[k] \in Range(BorderRouters[as])
  BY <1>0, <1>2 DEF Range
<1>7. /\ DOMAIN flags = 1..n
      /\ \A k \in 1..n : /\ flags[k].router = routers[k]
                         /\ flags[k].dest = d /\ flags[k].value = v
  BY <1>3
<1>8. /\ \A k \in DOMAIN flags : /\ flags[k].router \in Range(BorderRouters[as])
                                 /\ flags[k].dest = d /\ flags[k].value = v
      /\ \A r \in Range(BorderRouters[as]) : \E k \in DOMAIN flags : flags[k].router = r
  <2>1. ASSUME NEW k \in 1..n
        PROVE  /\ flags[k].router \in Range(BorderRouters[as])
               /\ flags[k].dest = d /\ flags[k].value = v
    BY <1>6, <1>7
  <2>2. ASSUME NEW r \in Range(BorderRouters[as])
        PROVE  \E k \in 1..n : flags[k].router = r
    <3>1. PICK k \in 1..n : routers[k] = r
      BY <1>5
    <3> QED
      BY <1>7, <3>1
  <2> QED
    BY <1>7, <2>1, <2>2
<1> QED
  BY <1>0, <1>4, <1>8 DEF AreFlagsOf

\* An order of a finite set of neighbours: each of them is told, once.
LEMMA MessagesFacts ==
  ASSUME NEW neighbours \in SUBSET ASes, NEW path \in Seq(ASes), NEW dest \in Announced,
         NEW messages \in Messages(neighbours, path, dest)
  PROVE  /\ messages \in Seq(Updates)
         /\ \A k \in DOMAIN messages : /\ messages[k].to \in neighbours
                                       /\ messages[k].path = path
                                       /\ messages[k].dest = dest
         /\ \A as \in neighbours : \E k \in DOMAIN messages : messages[k].to = as
<1>1. IsFiniteSet(neighbours)
  <2>1. ASList \in Seq(ASes)
    BY TopologyAssumption
  <2>2. Len(ASList) \in Nat /\ DOMAIN ASList = 1..Len(ASList) /\ ASList \in [1..Len(ASList) -> ASes]
    BY <2>1, LenProperties
  <2>3. ASList \in Surjection(1..Len(ASList), ASes)
    BY <2>2 DEF Surjection, ASes, Range
  <2>4. IsFiniteSet(1..Len(ASList))
    BY <2>2, FS_Interval
  <2>5. IsFiniteSet(ASes)
    BY <2>3, <2>4, FS_Surjection
  <2> QED
    BY <2>5, FS_Subset
<1> PICK n : n = Cardinality(neighbours)
  OBVIOUS
<1>2. n \in Nat
  BY <1>1, FS_CardinalityType
<1>3. PICK order \in SetToSeqs(neighbours) :
        messages = [k \in DOMAIN order |-> [to |-> order[k], path |-> path, dest |-> dest]]
  BY DEF Messages
<1>4. order \in [1..n -> neighbours] /\ \A i, j \in 1..n : i # j => order[i] # order[j]
  BY <1>3 DEF SetToSeqs
<1>5. order \in Surjection(1..n, neighbours)
  <2>1. order \in Injection(1..n, neighbours)
    BY <1>4 DEF Injection, IsInjective
  <2>2. Cardinality(1..n) = n
    BY <1>2, FS_Interval
  <2> QED
    BY <1>1, <2>1, <2>2, FS_Injection
<1>6. messages = [k \in 1..n |-> [to |-> order[k], path |-> path, dest |-> dest]]
  BY <1>3, <1>4
<1>7. messages \in Seq(Updates)
  <2>1. \A k \in 1..n : [to |-> order[k], path |-> path, dest |-> dest] \in Updates
    BY <1>4 DEF Updates
  <2> QED
    BY <1>2, <1>6, <2>1
<1>8. \A as \in neighbours : \E k \in 1..n : order[k] = as
  BY <1>5 DEF Surjection
<1> QED
  BY <1>4, <1>6, <1>7, <1>8

\* Erasing the entry at i moves the ones behind it forward.
LEMMA RemoveAtFacts ==
  ASSUME NEW S, NEW list \in Seq(S), NEW i \in 1..Len(list)
  PROVE  /\ RemoveAt(list, i) \in Seq(S) /\ Len(RemoveAt(list, i)) = Len(list) - 1
         /\ \A j \in 1..(Len(list) - 1) :
              RemoveAt(list, i)[j] = list[IF j < i THEN j ELSE j + 1]
<1>1. Len(list) \in Nat /\ i - 1 \in 0..Len(list) /\ i + 1 \in 1..(Len(list) + 1)
  BY LenProperties
<1> DEFINE front == SubSeq(list, 1, i - 1)
           back == SubSeq(list, i + 1, Len(list))
<1>2. /\ front \in Seq(S) /\ Len(front) = i - 1
      /\ \A j \in 1..(i - 1) : front[j] = list[j]
  BY <1>1
<1>3. /\ back \in Seq(S) /\ Len(back) = Len(list) - i
      /\ \A j \in 1..(Len(list) - i) : back[j] = list[i + j]
  BY <1>1
<1> HIDE DEF front, back
<1>4. /\ front \o back \in Seq(S) /\ Len(front \o back) = Len(list) - 1
      /\ \A j \in 1..(Len(list) - 1) :
           (front \o back)[j] = IF j <= i - 1 THEN front[j] ELSE back[j - (i - 1)]
  <2>1. (i - 1) + (Len(list) - i) = Len(list) - 1
    BY <1>1
  <2>2. front \in Seq(S) /\ back \in Seq(S) /\ Len(front) = i - 1
        /\ Len(front) + Len(back) = Len(list) - 1
    BY <1>2, <1>3, <2>1
  <2>3. /\ front \o back \in Seq(S) /\ Len(front \o back) = Len(front) + Len(back)
        /\ \A j \in 1..(Len(front) + Len(back)) :
             (front \o back)[j] = IF j <= Len(front) THEN front[j] ELSE back[j - Len(front)]
    BY <2>2, ConcatProperties
  <2> QED
    BY <2>2, <2>3
<1>5. ASSUME NEW j \in 1..(Len(list) - 1)
      PROVE  (front \o back)[j] = list[IF j < i THEN j ELSE j + 1]
  <2>1. CASE j < i
    BY <1>1, <1>2, <1>4, <2>1
  <2>2. CASE ~(j < i)
    <3>1. j - (i - 1) \in 1..(Len(list) - i) /\ i + (j - (i - 1)) = j + 1 /\ ~(j <= i - 1)
      BY <1>1, <2>2
    <3> QED
      BY <1>3, <1>4, <2>2, <3>1
  <2> QED
    BY <2>1, <2>2
<1> QED
  BY <1>4, <1>5 DEF RemoveAt, front, back

\* A set of positions has a first one.
LEMMA FirstThere ==
  ASSUME NEW I \in SUBSET Nat, I # {}
  PROVE  Min(I) \in I
<1> DEFINE R == {ss \in Nat \X Nat : ss[1] < ss[2]}
<1>1. IsWellFoundedOn(R, Nat)
  BY NatLessThanWellFounded DEF OpToRel
<1>2. PICK i \in I : \A j \in I : ~(<<j, i>> \in R)
  BY <1>1, WFMin
<1>3. \A j \in I : i <= j
  <2>1. ASSUME NEW j \in I PROVE i <= j
    <3>1. i \in Nat /\ j \in Nat
      OBVIOUS
    <3>2. ~(j < i)
      BY <1>2, <3>1
    <3> QED
      BY <3>1, <3>2
  <2> QED
    BY <2>1
<1> QED
  BY <1>3 DEF Min

\* Only the first path to the destination is erased.
LEMMA WithoutFirstFacts ==
  ASSUME NEW S, NEW paths \in Seq(S), NEW dest
  PROVE  \/ /\ \A k \in 1..Len(paths) : paths[k].dest # dest
            /\ WithoutFirst(paths, dest) = paths
         \/ \E i \in 1..Len(paths) : /\ paths[i].dest = dest
                                     /\ WithoutFirst(paths, dest) = RemoveAt(paths, i)
<1> DEFINE I == {k \in 1..Len(paths) : paths[k].dest = dest}
<1>1. WithoutFirst(paths, dest) = IF \E i \in 1..Len(paths) : paths[i].dest = dest
                                  THEN RemoveAt(paths, IF I # {} THEN Min(I) ELSE 0)
                                  ELSE paths
  BY DEF WithoutFirst, RemoveFirstMatch, SelectInSeq
<1>2. CASE I = {}
  BY <1>1, <1>2
<1>3. CASE I # {}
  <2>1. Len(paths) \in Nat /\ I \subseteq Nat
    BY LenProperties
  <2>2. Min(I) \in I
    <3> HIDE DEF I
    <3> QED
      BY <1>3, <2>1, FirstThere
  <2> QED
    BY <1>1, <1>3, <2>2
<1> QED
  BY <1>2, <1>3

\* A list that loses an entry loses the first one to the destination, and no other.
LEMMA WithoutFirstKeeps ==
  ASSUME NEW paths \in Seq(PathEntries), NEW dest \in Announced,
         NEW less, less = WithoutFirst(paths, dest)
  PROVE  /\ less \in Seq(PathEntries)
         /\ \A j \in DOMAIN less : \E k \in DOMAIN paths : less[j] = paths[k]
<1>1. Len(paths) \in Nat /\ DOMAIN paths = 1..Len(paths)
  BY LenProperties
<1>2. CASE less = paths
  BY <1>2
<1>3. ASSUME NEW i \in 1..Len(paths), less = RemoveAt(paths, i)
      PROVE  /\ less \in Seq(PathEntries)
             /\ \A j \in DOMAIN less : \E k \in DOMAIN paths : less[j] = paths[k]
  <2>1. /\ less \in Seq(PathEntries) /\ Len(less) = Len(paths) - 1
        /\ \A j \in 1..(Len(paths) - 1) : less[j] = paths[IF j < i THEN j ELSE j + 1]
    BY <1>3, RemoveAtFacts
  <2>2. DOMAIN less = 1..(Len(paths) - 1)
    BY <2>1, LenProperties
  <2>3. \A j \in 1..(Len(paths) - 1) : (IF j < i THEN j ELSE j + 1) \in DOMAIN paths
    BY <1>1
  <2> QED
    BY <2>1, <2>2, <2>3
<1> QED
  BY <1>2, <1>3, WithoutFirstFacts

\* What is left of a sequence without its head.
LEMMA TailFacts ==
  ASSUME NEW S, NEW queue \in Seq(S), queue # <<>>
  PROVE  /\ Head(queue) \in S /\ Tail(queue) \in Seq(S)
         /\ 1 \in DOMAIN queue /\ Head(queue) = queue[1]
         /\ \A k \in DOMAIN Tail(queue) : Tail(queue)[k] = queue[k + 1] /\ k + 1 \in DOMAIN queue
         /\ \A k \in DOMAIN queue : \/ k = 1
                                   \/ /\ k - 1 \in DOMAIN Tail(queue)
                                      /\ queue[k] = Tail(queue)[k - 1]
         /\ Range(queue) = Range(Tail(queue)) \cup {Head(queue)}
<1>1. /\ Head(queue) \in S /\ Tail(queue) \in Seq(S)
      /\ Head(queue) = queue[1] /\ Len(queue) \in Nat \ {0}
      /\ DOMAIN queue = 1..Len(queue) /\ DOMAIN Tail(queue) = 1..(Len(queue) - 1)
      /\ \A k \in 1..(Len(queue) - 1) : Tail(queue)[k] = queue[k + 1]
  BY HeadTailProperties, LenProperties
<1>2. 1 \in DOMAIN queue
  BY <1>1
<1>3. \A k \in DOMAIN Tail(queue) : Tail(queue)[k] = queue[k + 1] /\ k + 1 \in DOMAIN queue
  BY <1>1
<1>4. \A k \in DOMAIN queue : \/ k = 1
                              \/ /\ k - 1 \in DOMAIN Tail(queue)
                                 /\ queue[k] = Tail(queue)[k - 1]
  BY <1>1
<1>5. Range(queue) = Range(Tail(queue)) \cup {Head(queue)}
  <2>1. ASSUME NEW x \in Range(queue) PROVE x \in Range(Tail(queue)) \cup {Head(queue)}
    <3>1. PICK k \in DOMAIN queue : x = queue[k]
      BY DEF Range
    <3>2. x = queue[1] \/ (k - 1 \in DOMAIN Tail(queue) /\ x = Tail(queue)[k - 1])
      BY <1>4, <3>1
    <3>3. x = queue[1] \/ x \in Range(Tail(queue))
      BY <3>2 DEF Range
    <3> QED
      BY <1>1, <3>3
  <2>2. ASSUME NEW x \in Range(Tail(queue)) \cup {Head(queue)} PROVE x \in Range(queue)
    BY <1>1, <1>2, <1>3 DEF Range
  <2> QED
    BY <2>1, <2>2
<1> QED
  BY <1>1, <1>2, <1>3, <1>4, <1>5

\* Putting one queue behind another keeps the elements of both.
LEMMA ConcatFacts ==
  ASSUME NEW S, NEW queue \in Seq(S), NEW rest \in Seq(S)
  PROVE  /\ queue \o rest \in Seq(S)
         /\ \A k \in DOMAIN (queue \o rest) :
              \/ k \in DOMAIN queue /\ (queue \o rest)[k] = queue[k]
              \/ \E j \in DOMAIN rest : (queue \o rest)[k] = rest[j]
         /\ \A k \in DOMAIN queue : k \in DOMAIN (queue \o rest) /\ (queue \o rest)[k] = queue[k]
         /\ \A j \in DOMAIN rest : \E k \in DOMAIN (queue \o rest) : (queue \o rest)[k] = rest[j]
<1> DEFINE both == queue \o rest
<1>1. /\ Len(queue) \in Nat /\ Len(rest) \in Nat
      /\ DOMAIN queue = 1..Len(queue) /\ DOMAIN rest = 1..Len(rest)
      /\ both \in Seq(S) /\ DOMAIN both = 1..(Len(queue) + Len(rest))
      /\ \A i \in 1..(Len(queue) + Len(rest)) :
           both[i] = IF i <= Len(queue) THEN queue[i] ELSE rest[i - Len(queue)]
  BY ConcatProperties, LenProperties
<1> HIDE DEF both
<1>2. \A k \in DOMAIN both : \/ k \in DOMAIN queue /\ both[k] = queue[k]
                             \/ k - Len(queue) \in DOMAIN rest /\ both[k] = rest[k - Len(queue)]
  BY <1>1
<1>3. \A k \in DOMAIN queue : k \in DOMAIN both /\ both[k] = queue[k]
  BY <1>1
<1>4. ASSUME NEW j \in DOMAIN rest PROVE \E k \in DOMAIN both : both[k] = rest[j]
  <2>1. j + Len(queue) \in DOMAIN both /\ ~(j + Len(queue) <= Len(queue))
        /\ (j + Len(queue)) - Len(queue) = j
    BY <1>1
  <2>2. both[j + Len(queue)] = rest[j]
    BY <1>1, <2>1
  <2> QED
    BY <2>1, <2>2
<1> QED
  BY <1>1, <1>2, <1>3, <1>4 DEF both

-----------------------------------------------------------------------------
(* Type correctness.                                                       *)

LEMMA TypeAS ==
  ASSUME TypeOK
  PROVE  /\ Provider \in ASes \ HostASes /\ Newcomer \in ASes /\ Newcomer \in HostASes
         /\ m_reachable[Newcomer] = Announced
         /\ \A as \in ASes : Adjacent[as] \subseteq ASes
BY TopologyAssumption DEF TypeOK, Announced

LEMMA TypeInit == Init => TypeOK
<1> SUFFICES ASSUME Init PROVE TypeOK
  OBVIOUS
<1>1. DOMAIN in_use = Routers /\ \A r \in Routers : in_use[r] \in [DOMAIN InitialRoutes[r] -> BOOLEAN]
  BY WayAssumption DEF Init, Routers
<1>2. to_erase \subseteq Announced /\ to_announce \subseteq Announced /\ searched \subseteq ASes
  BY DEF Init
<1>3. m_path_list = [as \in ASes |-> <<>>]
  BY DEF Init, AddPathList
<1>4. /\ m_path_list \in [ASes -> Seq(PathEntries)]
      /\ \A as \in HostASes : m_path_list[as] = <<>>
  BY <1>3, TopologyAssumption
<1>5. /\ as_queue \in Seq(Updates) /\ to_signal \in Seq(ASes) /\ writes \in Seq(FlagWrites)
      /\ frames \in Seq(FrameStates)
  BY DEF Init
<1>6. /\ DOMAIN m_reachable = ASes
      /\ \A as \in ASes : m_reachable[as] = InitialReach[as]
  BY TopologyAssumption DEF Init
<1> QED
  BY <1>1, <1>2, <1>4, <1>5, <1>6, TopologyAssumption
  DEF TypeOK, Updates, FlagWrites, FrameStates, PathEntries

\* A step of the bookkeeping of one AS that is no host.
LEMMA BookkeepingType ==
  ASSUME TypeOK, NEW as \in ASes \ HostASes, NEW reach, NEW paths \in Seq(PathEntries),
         reach \subseteq InitialReach[as] \cup Announced,
         m_reachable' = [m_reachable EXCEPT ![as] = reach],
         m_path_list' = [m_path_list EXCEPT ![as] = paths]
  PROVE  /\ DOMAIN m_reachable' = ASes
         /\ \A a \in ASes : m_reachable'[a] \subseteq InitialReach[a] \cup Announced
         /\ m_path_list' \in [ASes -> Seq(PathEntries)]
         /\ \A a \in HostASes : m_reachable'[a] = InitialReach[a] /\ m_path_list'[a] = <<>>
<1>1. /\ DOMAIN m_reachable = ASes /\ m_path_list \in [ASes -> Seq(PathEntries)]
      /\ \A a \in ASes : m_reachable[a] \subseteq InitialReach[a] \cup Announced
      /\ \A a \in HostASes : /\ a \in ASes /\ a # as
                             /\ m_reachable[a] = InitialReach[a] /\ m_path_list[a] = <<>>
  BY TopologyAssumption DEF TypeOK, PathEntries
<1> QED
  BY <1>1

LEMMA AnnounceType ==
  ASSUME TypeOK, NEW dest \in Announced, Announce(dest)
  PROVE  TypeOK'
<1> DEFINE entry == [dest |-> dest, path |-> <<Newcomer>>]
           reach == m_reachable[Provider] \cup {dest}
           paths == Append(m_path_list[Provider], entry)
<1>1. /\ Provider \in ASes \ HostASes /\ Newcomer \in ASes /\ Provider \in ASes
      /\ Adjacent[Provider] \subseteq ASes
  BY TypeAS
<1>2. entry \in PathEntries /\ <<Provider, Newcomer>> \in Seq(ASes)
  BY <1>1 DEF PathEntries
<1>3. paths \in Seq(PathEntries) /\ reach \subseteq InitialReach[Provider] \cup Announced
  BY <1>1, <1>2, AppendProperties DEF TypeOK, PathEntries
<1>4. /\ m_reachable' = [m_reachable EXCEPT ![Provider] = reach]
      /\ m_path_list' = [m_path_list EXCEPT ![Provider] = paths]
  BY DEF Announce
<1> HIDE DEF reach, paths, entry
<1>5. /\ DOMAIN m_reachable' = ASes
      /\ \A a \in ASes : m_reachable'[a] \subseteq InitialReach[a] \cup Announced
      /\ m_path_list' \in [ASes -> Seq(PathEntries)]
      /\ \A a \in HostASes : m_reachable'[a] = InitialReach[a] /\ m_path_list'[a] = <<>>
  BY <1>1, <1>3, <1>4, BookkeepingType
<1>6. writes' \in Seq(FlagWrites)
  BY <1>1, FlagsForFacts DEF Announce, AreFlagsOf
<1>7. as_queue' \in Seq(Updates)
  <2>1. as_queue' \in Messages(Adjacent[Provider] \ {Provider, Newcomer},
                               <<Provider, Newcomer>>, dest)
    BY DEF Announce
  <2>2. Adjacent[Provider] \ {Provider, Newcomer} \in SUBSET ASes
    BY <1>1
  <2> QED
    BY <1>2, <2>1, <2>2, MessagesFacts
<1>8. searched' \subseteq ASes /\ to_announce' \subseteq Announced
      /\ UNCHANGED <<in_use, to_signal, to_erase, frames>>
  BY <1>1 DEF Announce, TypeOK
<1> QED
  BY <1>5, <1>6, <1>7, <1>8 DEF TypeOK, Updates, FlagWrites, PathEntries

LEMMA BroadcastUpdateType ==
  ASSUME TypeOK, BroadcastUpdate
  PROVE  TypeOK'
<1> DEFINE update == Head(as_queue)
           as == update.to
           entry == [dest |-> update.dest, path |-> update.path]
           reach == m_reachable[as] \cup {update.dest}
           paths == Append(m_path_list[as], entry)
           fresh == Adjacent[as] \ searched
<1>1. as_queue \in Seq(Updates) /\ as_queue # <<>>
  BY DEF TypeOK, Updates, BroadcastUpdate
<1>2. update \in Updates /\ Tail(as_queue) \in Seq(Updates)
  BY <1>1, TailFacts
<1>3. /\ as \in ASes \ HostASes /\ update.dest \in Announced /\ update.path \in Seq(ASes)
      /\ as \in ASes /\ fresh \in SUBSET ASes
  BY <1>2, TypeAS DEF Updates, BroadcastUpdate
<1>4. entry \in PathEntries /\ PathThrough(as, update.path) \in Seq(ASes)
  <2>1. <<as>> \in Seq(ASes)
    BY <1>3
  <2> HIDE DEF as
  <2> QED
    BY <1>3, <2>1, ConcatProperties DEF PathEntries, PathThrough
<1>5. paths \in Seq(PathEntries) /\ reach \subseteq InitialReach[as] \cup Announced
  <2>1. m_path_list[as] \in Seq(PathEntries) /\ m_reachable[as] \subseteq InitialReach[as] \cup Announced
    BY <1>3 DEF TypeOK, PathEntries
  <2> QED
    BY <1>3, <1>4, <2>1, AppendProperties
<1>6. /\ m_reachable' = [m_reachable EXCEPT ![as] = reach]
      /\ m_path_list' = [m_path_list EXCEPT ![as] = paths]
      /\ writes' = FlagsFor(as, update.dest, TRUE)
      /\ searched' = searched \cup fresh
      /\ \E messages \in Messages(fresh, PathThrough(as, update.path), update.dest) :
           as_queue' = Tail(as_queue) \o messages
      /\ UNCHANGED <<in_use, to_announce, to_signal, to_erase, frames>>
  BY DEF BroadcastUpdate
<1> HIDE DEF update, as, entry, reach, paths, fresh
<1>7. /\ DOMAIN m_reachable' = ASes
      /\ \A a \in ASes : m_reachable'[a] \subseteq InitialReach[a] \cup Announced
      /\ m_path_list' \in [ASes -> Seq(PathEntries)]
      /\ \A a \in HostASes : m_reachable'[a] = InitialReach[a] /\ m_path_list'[a] = <<>>
  BY <1>3, <1>5, <1>6, BookkeepingType
<1>8. writes' \in Seq(FlagWrites)
  BY <1>3, <1>6, FlagsForFacts DEF AreFlagsOf
<1>9. as_queue' \in Seq(Updates)
  <2>1. PICK messages \in Messages(fresh, PathThrough(as, update.path), update.dest) :
          as_queue' = Tail(as_queue) \o messages
    BY <1>6
  <2>2. messages \in Seq(Updates)
    BY <1>3, <1>4, MessagesFacts
  <2> QED
    BY <1>2, <2>1, <2>2, ConcatProperties
<1>10. searched' \subseteq ASes
  BY <1>3, <1>6 DEF TypeOK
<1> QED
  BY <1>6, <1>7, <1>8, <1>9, <1>10 DEF TypeOK, Updates, FlagWrites, PathEntries

LEMMA WithdrawalSignalType ==
  ASSUME TypeOK, NEW dest \in Announced, WithdrawalSignal(dest)
  PROVE  TypeOK'
<1> DEFINE as == Head(to_signal)
           reach == m_reachable[as] \ {dest}
           paths == WithoutFirst(m_path_list[as], dest)
<1>1. as \in ASes \ HostASes /\ as \in ASes
  <2>1. to_signal \in Seq(ASes) /\ to_signal # <<>> /\ as \notin HostASes
    BY DEF TypeOK, WithdrawalSignal, Reacts
  <2> QED
    BY <2>1, TailFacts
<1>2. /\ m_reachable' = [m_reachable EXCEPT ![as] = reach]
      /\ m_path_list' = [m_path_list EXCEPT ![as] = paths]
      /\ writes' = FlagsFor(as, dest, FALSE) /\ to_erase' = to_erase \ {dest}
      /\ UNCHANGED <<in_use, searched, as_queue, to_announce, to_signal, frames>>
  BY DEF WithdrawalSignal
<1>3. paths \in Seq(PathEntries) /\ reach \subseteq InitialReach[as] \cup Announced
  <2>1. m_path_list[as] \in Seq(PathEntries) /\ m_reachable[as] \subseteq InitialReach[as] \cup Announced
    BY <1>1 DEF TypeOK, PathEntries
  <2> QED
    BY <2>1, WithoutFirstKeeps
<1> HIDE DEF as, reach, paths
<1>4. /\ DOMAIN m_reachable' = ASes
      /\ \A a \in ASes : m_reachable'[a] \subseteq InitialReach[a] \cup Announced
      /\ m_path_list' \in [ASes -> Seq(PathEntries)]
      /\ \A a \in HostASes : m_reachable'[a] = InitialReach[a] /\ m_path_list'[a] = <<>>
  BY <1>1, <1>2, <1>3, BookkeepingType
<1>5. writes' \in Seq(FlagWrites)
  BY <1>1, <1>2, FlagsForFacts DEF AreFlagsOf
<1> QED
  BY <1>2, <1>4, <1>5 DEF TypeOK, FlagWrites, PathEntries

LEMMA WriteFlagType ==
  ASSUME TypeOK, WriteFlag
  PROVE  TypeOK'
<1>1. PICK w : w = Head(writes)
  OBVIOUS
<1>2. writes \in Seq(FlagWrites) /\ writes # <<>>
  BY DEF TypeOK, FlagWrites, WriteFlag
<1>3. w \in FlagWrites /\ Tail(writes) \in Seq(FlagWrites)
  BY <1>1, <1>2, TailFacts
<1>4. w.router \in Routers /\ w.value \in BOOLEAN
  BY <1>3 DEF FlagWrites
<1>5. /\ DOMAIN in_use = Routers
      /\ \A r \in Routers : in_use[r] \in [DOMAIN InitialRoutes[r] -> BOOLEAN]
  BY DEF TypeOK
<1>6. \/ in_use' = [in_use EXCEPT ![w.router] = [@ EXCEPT ![w.dest] = w.value]]
      \/ in_use' = in_use
  BY <1>1 DEF WriteFlag
<1>7. /\ DOMAIN in_use' = Routers
      /\ \A r \in Routers : in_use'[r] \in [DOMAIN InitialRoutes[r] -> BOOLEAN]
  BY <1>4, <1>5, <1>6
<1> QED
  BY <1>3, <1>7 DEF TypeOK, WriteFlag, bookkeeping, FlagWrites

LEMMA CallType ==
  ASSUME TypeOK, HookUpRequest \/ IgnoreUpdate \/ SignalNext
  PROVE  TypeOK'
<1>1. /\ m_reachable[Newcomer] = Announced /\ as_queue \in Seq(Updates)
      /\ to_signal \in Seq(ASes)
  BY TypeAS DEF TypeOK, Updates
<1>2. CASE HookUpRequest
  BY <1>1, <1>2 DEF TypeOK, HookUpRequest, bookkeeping
<1>3. CASE IgnoreUpdate
  <2>1. Tail(as_queue) \in Seq(Updates)
    BY <1>1, <1>3, TailFacts DEF IgnoreUpdate
  <2> QED
    BY <1>3, <2>1 DEF TypeOK, IgnoreUpdate, bookkeeping, Updates
<1>4. CASE SignalNext
  <2>1. Tail(to_signal) \in Seq(ASes)
    BY <1>1, <1>4, TailFacts DEF SignalNext
  <2> QED
    BY <1>1, <1>4, <2>1 DEF TypeOK, SignalNext, bookkeeping
<1> QED
  BY <1>2, <1>3, <1>4

LEMMA FrameMoved ==
  ASSUME NEW frame \in FrameStates, NEW at, NEW now
  PROVE  [frame EXCEPT !.at = at, !.withdrawing = now]
           = [at |-> at, dest |-> frame.dest, withdrawing |-> now]
<1>1. PICK d, w : frame = [at |-> frame.at, dest |-> d, withdrawing |-> w]
  BY DEF FrameStates
<1>2. [frame EXCEPT !.at = at] = [at |-> at, dest |-> d, withdrawing |-> w]
  BY <1>1
<1>3. PICK moved : moved = [at |-> at, dest |-> d, withdrawing |-> w]
  OBVIOUS
<1>4. [moved EXCEPT !.withdrawing = now] = [at |-> at, dest |-> d, withdrawing |-> now]
  BY <1>3
<1>5. [frame EXCEPT !.at = at, !.withdrawing = now] = [moved EXCEPT !.withdrawing = now]
  BY <1>2, <1>3
<1> QED
  BY <1>1, <1>4, <1>5

\* The routers pass frames on within the way, or have one of the three ends for them.
LEMMA FrameTypes ==
  ASSUME TypeOK, \/ Withdrawl
                 \/ \E dest \in Announced : SendFrame(dest)
                 \/ \E k \in DOMAIN frames : RouteFrame(k)
  PROVE  TypeOK'
<1> DEFINE Ends == Way \cup {"receiver", "refused", "lost"}
<1>1. /\ frames \in Seq(FrameStates) /\ Len(frames) \in Nat
      /\ DOMAIN frames = 1..Len(frames) /\ frames \in [1..Len(frames) -> FrameStates]
  BY LenProperties DEF TypeOK, FrameStates
<1>2. CASE Withdrawl
  <2>1. ASSUME NEW k \in 1..Len(frames)
        PROVE  [frames[k] EXCEPT !.withdrawing = TRUE] \in FrameStates
    BY <1>1 DEF FrameStates
  <2>2. frames' \in [1..Len(frames) -> FrameStates]
    BY <1>1, <1>2, <2>1 DEF Withdrawl
  <2>3. frames' \in Seq(FrameStates)
    BY <1>1, <2>2, FunctionSeq
  <2>4. to_signal' \in Seq(ASes) /\ to_erase' \subseteq Announced
    BY <1>2, TypeAS, TopologyAssumption DEF Withdrawl
  <2> QED
    BY <1>2, <2>3, <2>4 DEF TypeOK, Withdrawl, bookkeeping, FrameStates
<1>3. ASSUME NEW dest \in Announced, SendFrame(dest)
      PROVE  TypeOK'
  <2>1. [at |-> FirstRouter, dest |-> dest, withdrawing |-> FALSE] \in FrameStates
    BY WayAssumption DEF FrameStates
  <2>2. frames' \in Seq(FrameStates)
    BY <1>1, <1>3, <2>1, AppendProperties DEF SendFrame
  <2> QED
    BY <1>3, <2>2 DEF TypeOK, SendFrame, bookkeeping, work, FrameStates
<1>4. ASSUME NEW k \in DOMAIN frames, RouteFrame(k)
      PROVE  TypeOK'
  <2>1. PICK at, now :
          /\ at = IF in_use[frames[k].at][frames[k].dest] THEN NextRouter[frames[k].at]
                  ELSE IF frames[k].at = FirstRouter THEN "refused" ELSE "lost"
          /\ now = IF frames[k].at = FirstRouter THEN Withdrawing ELSE frames[k].withdrawing
    OBVIOUS
  <2>2. frames[k] \in FrameStates /\ frames[k].at \in Routers
    BY <1>1, <1>4 DEF RouteFrame
  <2>3. frames[k].at \in Way
    BY <2>2, WayAssumption DEF FrameStates
  <2>4. at \in Ends
    BY <2>1, <2>3, WayAssumption
  <2>5. now \in BOOLEAN
    BY <2>1, <2>2 DEF FrameStates, Withdrawing
  <2>6. frames' = [frames EXCEPT ![k] = [at |-> at, dest |-> frames[k].dest, withdrawing |-> now]]
    <3>1. frames' = [frames EXCEPT ![k].at = at, ![k].withdrawing = now]
      BY <1>4, <2>1 DEF RouteFrame
    <3>2. frames' = [frames EXCEPT ![k] = [@ EXCEPT !.at = at, !.withdrawing = now]]
      BY <1>1, <3>1
    <3>3. [frames[k] EXCEPT !.at = at, !.withdrawing = now]
            = [at |-> at, dest |-> frames[k].dest, withdrawing |-> now]
      BY <2>2, FrameMoved
    <3> QED
      BY <3>2, <3>3
  <2>7. [at |-> at, dest |-> frames[k].dest, withdrawing |-> now] \in FrameStates
    BY <2>2, <2>4, <2>5 DEF FrameStates
  <2>8. frames' \in [1..Len(frames) -> FrameStates]
    BY <1>1, <2>6, <2>7
  <2>9. frames' \in Seq(FrameStates)
    BY <1>1, <2>8, FunctionSeq
  <2> QED
    BY <1>4, <2>9 DEF TypeOK, RouteFrame, bookkeeping, work, FrameStates
<1> QED
  BY <1>2, <1>3, <1>4

LEMMA TypeNext ==
  ASSUME TypeOK, [Next]_vars
  PROVE  TypeOK'
<1>1. CASE Next
  BY <1>1, AnnounceType, BroadcastUpdateType, WithdrawalSignalType, WriteFlagType, CallType,
     FrameTypes
  DEF Next, MainThread
<1>2. CASE UNCHANGED vars
  BY <1>2 DEF TypeOK, vars, bookkeeping, work
<1> QED
  BY <1>1, <1>2

\* The lists of every AS and the flags keep their types whatever the network: a frame
\* never leaves the way, and no announcement reaches the lists of a host AS.
THEOREM TypeCorrect == Spec => []TypeOK
<1>1. Init => TypeOK
  BY TypeInit
<1>2. TypeOK /\ [Next]_vars => TypeOK'
  BY TypeNext
<1> QED
  BY <1>1, <1>2, PTL DEF Spec

-----------------------------------------------------------------------------
(* The paths.  The breadth-first search tells only neighbours it has not   *)
(* met yet, and all the ASes of an announcement's path have been met: that *)
(* is why no path comes back to an AS it went through.                     *)

\* A way to the newcomer: over neighbours, without a loop.
WayToNewcomer(way) ==
  /\ Last(way) = Newcomer
  /\ \A j \in 1..(Len(way) - 1) : way[j + 1] \in Adjacent[way[j]]
  /\ IsInjective(way)

PathsKept ==
  /\ \A as \in ASes : \A k \in DOMAIN m_path_list[as] :
       WayToNewcomer(<<as>> \o m_path_list[as][k].path)
  /\ \A k \in DOMAIN as_queue :
       LET way == <<as_queue[k].to>> \o as_queue[k].path
       IN  WayToNewcomer(way) /\ Range(way) \subseteq searched

LEMMA SingleFacts ==
  ASSUME NEW S, NEW x \in S
  PROVE  <<x>> \in Seq(S) /\ Len(<<x>>) = 1 /\ <<x>>[1] = x
OBVIOUS

\* A neighbour that was not met yet puts itself in front.
LEMMA WayExtended ==
  ASSUME NEW way \in Seq(ASes), way # <<>>, WayToNewcomer(way),
         NEW as \in ASes, way[1] \in Adjacent[as], as \notin Range(way)
  PROVE  /\ <<as>> \o way \in Seq(ASes) /\ WayToNewcomer(<<as>> \o way)
         /\ Range(<<as>> \o way) = Range(way) \cup {as}
<1>0. PICK n, longer : n = Len(way) /\ longer = <<as>> \o way
  OBVIOUS
<1>1. n \in Nat /\ n >= 1 /\ DOMAIN way = 1..n
  BY <1>0, LenProperties, EmptySeq
<1>2. /\ longer \in Seq(ASes) /\ Len(longer) = n + 1 /\ DOMAIN longer = 1..(n + 1)
      /\ longer[1] = as /\ \A j \in 1..n : longer[j + 1] = way[j]
  <2>0. PICK one : one = <<as>>
    OBVIOUS
  <2>1. one \in Seq(ASes) /\ Len(one) = 1 /\ one[1] = as
    BY <2>0, SingleFacts
  <2>2. /\ longer \in Seq(ASes) /\ Len(longer) = 1 + n
        /\ \A i \in 1..(1 + n) : longer[i] = IF i <= 1 THEN one[i] ELSE way[i - 1]
    BY <1>0, <2>0, <2>1, ConcatProperties
  <2>3. \A j \in 1..n : j + 1 \in 1..(1 + n) /\ ~(j + 1 <= 1) /\ (j + 1) - 1 = j
    BY <1>1
  <2>4. 1 \in 1..(1 + n)
    BY <1>1
  <2>5. DOMAIN longer = 1..Len(longer) /\ 1 + n = n + 1
    BY <1>1, <2>2, LenProperties
  <2>6. \A j \in 1..n : longer[j + 1] = way[j]
    BY <2>2, <2>3
  <2>7. longer[1] = as
    <3>1. \A i \in 1..(1 + n) : i = 1 => longer[i] = one[i]
      BY <1>1, <2>2
    <3> QED
      BY <2>1, <2>4, <3>1
  <2> QED
    BY <2>2, <2>5, <2>6, <2>7
<1>3. Last(longer) = Newcomer
  <2>1. way[n] = Newcomer
    BY <1>0 DEF WayToNewcomer, Last
  <2> QED
    BY <1>1, <1>2, <2>1 DEF Last
<1>4. ASSUME NEW j \in 1..(Len(longer) - 1)
      PROVE  longer[j + 1] \in Adjacent[longer[j]]
  <2>1. j \in 1..n
    BY <1>1, <1>2
  <2>2. CASE j = 1
    <3>1. longer[j + 1] = way[j]
      BY <1>2, <2>1
    <3> QED
      BY <1>2, <2>2, <3>1
  <2>3. CASE j # 1
    <3>1. j - 1 \in 1..(n - 1) /\ j - 1 \in 1..n /\ (j - 1) + 1 = j
      BY <1>1, <2>1, <2>3
    <3>2. way[j] \in Adjacent[way[j - 1]]
      BY <1>0, <3>1 DEF WayToNewcomer
    <3>3. longer[j + 1] = way[j] /\ longer[j] = way[j - 1]
      BY <1>2, <2>1, <3>1
    <3> QED
      BY <3>2, <3>3
  <2> QED
    BY <2>2, <2>3
<1>5. \A i \in 1..(n + 1) : \/ i = 1 /\ longer[i] = as
                            \/ i - 1 \in 1..n /\ longer[i] = way[i - 1]
  <2>1. ASSUME NEW i \in 1..(n + 1), i # 1 PROVE i - 1 \in 1..n /\ longer[i] = way[i - 1]
    <3>1. i - 1 \in 1..n /\ (i - 1) + 1 = i
      BY <1>1, <2>1
    <3> QED
      BY <1>2, <3>1
  <2> QED
    BY <1>2, <2>1
<1>6. \A i \in 1..n : way[i] # as
  BY <1>1 DEF Range
<1>7. IsInjective(longer)
  <2>1. \A i, j \in 1..n : way[i] = way[j] => i = j
    BY <1>1 DEF WayToNewcomer, IsInjective
  <2>2. ASSUME NEW i \in 1..(n + 1), NEW j \in 1..(n + 1), longer[i] = longer[j]
        PROVE  i = j
    <3>1. CASE i = 1 \/ j = 1
      BY <1>2, <1>5, <1>6, <2>2, <3>1
    <3>2. CASE i # 1 /\ j # 1
      <4>1. i - 1 \in 1..n /\ j - 1 \in 1..n /\ way[i - 1] = way[j - 1]
        BY <1>5, <2>2, <3>2
      <4>2. i - 1 = j - 1
        BY <2>1, <4>1
      <4> QED
        BY <1>1, <4>2
    <3> QED
      BY <3>1, <3>2
  <2> QED
    BY <1>2, <2>2 DEF IsInjective
<1>8. Range(longer) = Range(way) \cup {as}
  <2>1. ASSUME NEW x \in Range(longer) PROVE x \in Range(way) \cup {as}
    <3>1. PICK i \in 1..(n + 1) : x = longer[i]
      BY <1>2 DEF Range
    <3>2. \A j \in 1..n : way[j] \in Range(way)
      BY <1>1 DEF Range
    <3> QED
      BY <1>5, <3>1, <3>2
  <2>2. ASSUME NEW i \in 1..n PROVE way[i] \in Range(longer)
    <3>1. i + 1 \in 1..(n + 1)
      BY <1>1
    <3> QED
      BY <1>2, <3>1 DEF Range
  <2>3. as \in Range(longer)
    <3>1. 1 \in 1..(n + 1)
      BY <1>1
    <3> QED
      BY <1>2, <3>1 DEF Range
  <2>4. ASSUME NEW x \in Range(way) PROVE x \in Range(longer)
    BY <1>1, <2>2 DEF Range
  <2> QED
    BY <2>1, <2>3, <2>4
<1> QED
  BY <1>0, <1>2, <1>3, <1>4, <1>7, <1>8 DEF WayToNewcomer

\* One more entry at the end of a list.
LEMMA AppendFacts ==
  ASSUME NEW S, NEW list \in Seq(S), NEW x \in S, NEW longer, longer = Append(list, x)
  PROVE  /\ DOMAIN longer = DOMAIN list \cup {Len(list) + 1}
         /\ Len(list) + 1 \notin DOMAIN list
         /\ \A k \in DOMAIN list : longer[k] = list[k]
         /\ longer[Len(list) + 1] = x
BY AppendProperties, LenProperties

LEMMA PairFacts ==
  ASSUME NEW S, NEW x \in S, NEW y \in S
  PROVE  <<x>> \o <<y>> = <<x, y>>
<1>0. PICK one, two, both, pair :
        one = <<x>> /\ two = <<y>> /\ both = one \o two /\ pair = <<x, y>>
  OBVIOUS
<1>1. /\ one \in Seq(S) /\ Len(one) = 1 /\ one[1] = x
      /\ two \in Seq(S) /\ Len(two) = 1 /\ two[1] = y
  BY <1>0, SingleFacts
<1>2. /\ both \in Seq(S) /\ Len(both) = 2
      /\ \A i \in 1..2 : both[i] = IF i <= 1 THEN one[i] ELSE two[i - 1]
  BY <1>0, <1>1, ConcatProperties
<1>3. both[1] = x /\ both[2] = y
  BY <1>1, <1>2
<1>4. pair \in Seq(S) /\ Len(pair) = 2 /\ pair[1] = x /\ pair[2] = y
  BY <1>0
<1>5. \A i \in 1..Len(both) : both[i] = pair[i]
  BY <1>2, <1>3, <1>4
<1>6. both = pair
  BY <1>2, <1>4, <1>5, SeqEqual
<1> QED
  BY <1>0, <1>6

LEMMA PathAdded ==
  ASSUME TypeOK, PathsKept, NEW as \in ASes, NEW dest \in Announced, NEW path \in Seq(ASes),
         WayToNewcomer(<<as>> \o path),
         m_path_list' = [m_path_list EXCEPT ![as] = Append(@, [dest |-> dest, path |-> path])]
  PROVE  \A a \in ASes : \A k \in DOMAIN m_path_list'[a] :
           WayToNewcomer(<<a>> \o m_path_list'[a][k].path)
<1>0. PICK entry, list, longer : /\ entry = [dest |-> dest, path |-> path]
                                 /\ list = m_path_list[as] /\ longer = Append(list, entry)
  OBVIOUS
<1>1. /\ m_path_list \in [ASes -> Seq(PathEntries)] /\ entry \in PathEntries
      /\ list \in Seq(PathEntries) /\ entry.path = path
  BY <1>0 DEF TypeOK, PathEntries
<1>2. m_path_list' = [m_path_list EXCEPT ![as] = longer]
  BY <1>0
<1>3. ASSUME NEW k \in DOMAIN longer
      PROVE  WayToNewcomer(<<as>> \o longer[k].path)
  <2>1. \/ k \in DOMAIN list /\ longer[k] = list[k]
        \/ longer[k] = entry
    <3>1. /\ DOMAIN longer = DOMAIN list \cup {Len(list) + 1}
          /\ \A j \in DOMAIN list : longer[j] = list[j]
          /\ longer[Len(list) + 1] = entry
      <4>1. list \in Seq(PathEntries) /\ entry \in PathEntries /\ longer = Append(list, entry)
        BY <1>0, <1>1
      <4> QED
        BY <4>1, AppendFacts
    <3> QED
      BY <3>1
  <2>2. CASE k \in DOMAIN list /\ longer[k] = list[k]
    BY <1>0, <2>2 DEF PathsKept
  <2>3. CASE longer[k] = entry
    BY <1>1, <2>3
  <2> QED
    BY <2>1, <2>2, <2>3
<1>4. ASSUME NEW a \in ASes, NEW k \in DOMAIN m_path_list'[a]
      PROVE  WayToNewcomer(<<a>> \o m_path_list'[a][k].path)
  <2>1. CASE a = as
    <3>1. m_path_list'[a] = longer
      BY <1>1, <1>2, <2>1
    <3> QED
      BY <1>3, <2>1, <3>1
  <2>2. CASE a # as
    <3>1. m_path_list'[a] = m_path_list[a]
      BY <1>1, <1>2, <2>2
    <3> QED
      BY <3>1 DEF PathsKept
  <2> QED
    BY <2>1, <2>2
<1> QED
  BY <1>4

LEMMA PathsAnnounce ==
  ASSUME TypeOK, PathsKept, NEW dest \in Announced, Announce(dest)
  PROVE  PathsKept'
<1>0. PICK start, direct : start = <<Newcomer>> /\ direct = <<Provider, Newcomer>>
  OBVIOUS
<1>1. /\ Provider \in ASes /\ Provider \notin HostASes /\ Newcomer \in ASes /\ Newcomer \in HostASes
      /\ Provider # Newcomer /\ Adjacent[Provider] \subseteq ASes
  BY TypeAS
<1>2. /\ start \in Seq(ASes) /\ Len(start) = 1 /\ start[1] = Newcomer /\ DOMAIN start = 1..1
      /\ start # <<>>
  BY <1>0, <1>1, SingleFacts, LenProperties
<1>3. Range(start) = {Newcomer}
  BY <1>2 DEF Range
<1>4. WayToNewcomer(start)
  BY <1>2 DEF WayToNewcomer, Last, IsInjective
<1>5. direct = <<Provider>> \o start
  BY <1>0, <1>1, PairFacts, Zenon
<1>6. direct \in Seq(ASes) /\ WayToNewcomer(direct) /\ Range(direct) = {Newcomer, Provider}
  <2>1. start[1] \in Adjacent[Provider] /\ Provider \notin Range(start)
    BY <1>1, <1>2, <1>3, NeighbourAssumption
  <2>2. Range(<<Provider>> \o start) = Range(start) \cup {Provider}
        /\ <<Provider>> \o start \in Seq(ASes) /\ WayToNewcomer(<<Provider>> \o start)
    BY <1>1, <1>2, <1>4, <2>1, WayExtended
  <2> QED
    BY <1>3, <1>5, <2>2
<1>7. direct # <<>> /\ direct[1] = Provider
  BY <1>0
<1>8. \A a \in ASes : \A k \in DOMAIN m_path_list'[a] :
        WayToNewcomer(<<a>> \o m_path_list'[a][k].path)
  <2>1. m_path_list' = [m_path_list EXCEPT ![Provider] = Append(@, [dest |-> dest, path |-> start])]
    BY <1>0 DEF Announce
  <2> QED
    BY <1>1, <1>2, <1>5, <1>6, <2>1, PathAdded
<1>9. PICK neighbours, messages :
        /\ neighbours = Adjacent[Provider] \ {Provider, Newcomer}
        /\ messages \in Messages(neighbours, direct, dest) /\ as_queue' = messages
        /\ searched' = {Provider, Newcomer} \cup Adjacent[Provider]
  BY <1>0 DEF Announce
<1>10. \A k \in DOMAIN messages : messages[k].to \in neighbours /\ messages[k].path = direct
  <2>1. neighbours \in SUBSET ASes
    BY <1>1, <1>9
  <2>2. messages \in Messages(neighbours, direct, dest)
    BY <1>9
  <2>3. /\ messages \in Seq(Updates)
        /\ \A k \in DOMAIN messages : /\ messages[k].to \in neighbours
                                      /\ messages[k].path = direct
                                      /\ messages[k].dest = dest
        /\ \A a \in neighbours : \E k \in DOMAIN messages : messages[k].to = a
    BY <1>6, <2>1, <2>2, MessagesFacts
  <2> QED
    BY <2>3
<1>11. ASSUME NEW a \in neighbours
       PROVE  /\ WayToNewcomer(<<a>> \o direct)
              /\ Range(<<a>> \o direct) \subseteq searched'
  <2>1. a \in ASes /\ a \notin Range(direct) /\ Provider \in Adjacent[a] /\ a \in Adjacent[Provider]
    BY <1>1, <1>6, <1>9, NeighbourAssumption
  <2>2. WayToNewcomer(<<a>> \o direct) /\ Range(<<a>> \o direct) = Range(direct) \cup {a}
    BY <1>6, <1>7, <2>1, WayExtended
  <2> QED
    BY <1>6, <1>9, <2>1, <2>2
<1>12. ASSUME NEW k \in DOMAIN as_queue'
       PROVE  /\ WayToNewcomer(<<as_queue'[k].to>> \o as_queue'[k].path)
              /\ Range(<<as_queue'[k].to>> \o as_queue'[k].path) \subseteq searched'
  <2>1. as_queue'[k].to \in neighbours /\ as_queue'[k].path = direct
    BY <1>9, <1>10
  <2> QED
    BY <1>11, <2>1
<1> QED
  BY <1>8, <1>12 DEF PathsKept

LEMMA PathsBroadcastUpdate ==
  ASSUME TypeOK, PathsKept, BroadcastUpdate
  PROVE  PathsKept'
<1>0. PICK update, as, path, fresh :
        /\ update = Head(as_queue) /\ as = update.to /\ path = update.path
        /\ fresh = Adjacent[as] \ searched
  OBVIOUS
<1>1. as_queue \in Seq(Updates) /\ as_queue # <<>>
  BY DEF TypeOK, Updates, BroadcastUpdate
<1>2. /\ update \in Updates /\ Tail(as_queue) \in Seq(Updates)
      /\ 1 \in DOMAIN as_queue /\ update = as_queue[1]
      /\ \A k \in DOMAIN Tail(as_queue) :
           Tail(as_queue)[k] = as_queue[k + 1] /\ k + 1 \in DOMAIN as_queue
  BY <1>0, <1>1, TailFacts
<1>3. /\ as \in ASes /\ update.dest \in Announced /\ path \in Seq(ASes)
      /\ Adjacent[as] \subseteq ASes
  BY <1>0, <1>2, TypeAS DEF Updates
<1>4. PICK way : way = <<as>> \o path
  OBVIOUS
<1>5. WayToNewcomer(way) /\ Range(way) \subseteq searched
  BY <1>0, <1>2, <1>4 DEF PathsKept
<1>6. way \in Seq(ASes) /\ way # <<>> /\ way[1] = as
  <2>1. PICK one : one = <<as>>
    OBVIOUS
  <2>2. one \in Seq(ASes) /\ Len(one) = 1 /\ one[1] = as
    BY <1>3, <2>1, SingleFacts
  <2>3. /\ way \in Seq(ASes) /\ Len(way) = 1 + Len(path) /\ Len(path) \in Nat
        /\ \A i \in 1..(1 + Len(path)) : way[i] = IF i <= 1 THEN one[i] ELSE path[i - 1]
    BY <1>3, <1>4, <2>1, <2>2, ConcatProperties, LenProperties
  <2>4. way # <<>>
    BY <2>3, EmptySeq
  <2>5. 1 \in 1..(1 + Len(path)) /\ \A i \in 1..(1 + Len(path)) : i = 1 => way[i] = one[i]
    BY <2>3
  <2> QED
    BY <2>2, <2>3, <2>4, <2>5
<1>7. \A a \in ASes : \A k \in DOMAIN m_path_list'[a] :
        WayToNewcomer(<<a>> \o m_path_list'[a][k].path)
  <2>1. m_path_list' = [m_path_list EXCEPT
                          ![as] = Append(@, [dest |-> update.dest, path |-> path])]
    BY <1>0 DEF BroadcastUpdate
  <2> QED
    BY <1>3, <1>4, <1>5, <2>1, PathAdded
<1>8. PICK messages : /\ messages \in Messages(fresh, way, update.dest)
                      /\ as_queue' = Tail(as_queue) \o messages
                      /\ searched' = searched \cup fresh
  BY <1>0, <1>4 DEF BroadcastUpdate, PathThrough
<1>9. /\ messages \in Seq(Updates)
      /\ \A k \in DOMAIN messages : messages[k].to \in fresh /\ messages[k].path = way
  <2>1. fresh \in SUBSET ASes
    BY <1>0, <1>3
  <2>2. messages \in Messages(fresh, way, update.dest) /\ update.dest \in Announced
    BY <1>3, <1>8
  <2>3. /\ messages \in Seq(Updates)
        /\ \A k \in DOMAIN messages : /\ messages[k].to \in fresh
                                      /\ messages[k].path = way
                                      /\ messages[k].dest = update.dest
        /\ \A a \in fresh : \E k \in DOMAIN messages : messages[k].to = a
    BY <1>6, <2>1, <2>2, MessagesFacts
  <2> QED
    BY <2>3
<1>10. ASSUME NEW a \in fresh
       PROVE  /\ WayToNewcomer(<<a>> \o way)
              /\ Range(<<a>> \o way) \subseteq searched'
  <2>1. a \in ASes /\ a \notin Range(way) /\ way[1] \in Adjacent[a]
    BY <1>0, <1>3, <1>5, <1>6, NeighbourAssumption
  <2>2. WayToNewcomer(<<a>> \o way) /\ Range(<<a>> \o way) = Range(way) \cup {a}
    BY <1>5, <1>6, <2>1, WayExtended
  <2> QED
    BY <1>5, <1>8, <2>2
<1>11. ASSUME NEW k \in DOMAIN as_queue'
       PROVE  /\ WayToNewcomer(<<as_queue'[k].to>> \o as_queue'[k].path)
              /\ Range(<<as_queue'[k].to>> \o as_queue'[k].path) \subseteq searched'
  <2>1. \/ k \in DOMAIN Tail(as_queue) /\ as_queue'[k] = Tail(as_queue)[k]
        \/ \E j \in DOMAIN messages : as_queue'[k] = messages[j]
    <3>1. PICK rest : rest = Tail(as_queue)
      OBVIOUS
    <3>2. rest \in Seq(Updates) /\ messages \in Seq(Updates)
      BY <1>2, <1>9, <3>1
    <3>3. \A i \in DOMAIN (rest \o messages) :
            \/ i \in DOMAIN rest /\ (rest \o messages)[i] = rest[i]
            \/ \E j \in DOMAIN messages : (rest \o messages)[i] = messages[j]
      BY <3>2, ConcatFacts
    <3> QED
      BY <1>8, <3>1, <3>3
  <2>2. CASE k \in DOMAIN Tail(as_queue) /\ as_queue'[k] = Tail(as_queue)[k]
    <3>1. k + 1 \in DOMAIN as_queue /\ as_queue'[k] = as_queue[k + 1]
      BY <1>2, <2>2
    <3> QED
      BY <1>8, <3>1 DEF PathsKept
  <2>3. ASSUME NEW j \in DOMAIN messages, as_queue'[k] = messages[j]
        PROVE  /\ WayToNewcomer(<<as_queue'[k].to>> \o as_queue'[k].path)
               /\ Range(<<as_queue'[k].to>> \o as_queue'[k].path) \subseteq searched'
    <3>1. as_queue'[k].to \in fresh /\ as_queue'[k].path = way
      BY <1>9, <2>3
    <3> QED
      BY <1>10, <3>1
  <2> QED
    BY <2>1, <2>2, <2>3
<1> QED
  BY <1>7, <1>11 DEF PathsKept

LEMMA PathsErased ==
  ASSUME TypeOK, PathsKept, NEW dest \in Announced, WithdrawalSignal(dest)
  PROVE  PathsKept'
<1>0. PICK as, list, less : /\ as = Head(to_signal) /\ list = m_path_list[as]
                            /\ less = WithoutFirst(list, dest)
  OBVIOUS
<1>1. as \in ASes
  BY <1>0, TailFacts DEF TypeOK, WithdrawalSignal
<1>2. /\ m_path_list \in [ASes -> Seq(PathEntries)] /\ list \in Seq(PathEntries)
      /\ m_path_list' = [m_path_list EXCEPT ![as] = less]
      /\ UNCHANGED <<as_queue, searched>>
  BY <1>0, <1>1 DEF TypeOK, PathEntries, WithdrawalSignal
<1>3. \A j \in DOMAIN less : \E k \in DOMAIN list : less[j] = list[k]
  BY <1>0, <1>2, WithoutFirstKeeps
<1>4. ASSUME NEW a \in ASes, NEW j \in DOMAIN m_path_list'[a]
      PROVE  WayToNewcomer(<<a>> \o m_path_list'[a][j].path)
  <2>1. \E k \in DOMAIN m_path_list[a] : m_path_list'[a][j] = m_path_list[a][k]
    <3>1. CASE a = as
      BY <1>0, <1>1, <1>2, <1>3, <3>1
    <3>2. CASE a # as
      BY <1>1, <1>2, <3>2
    <3> QED
      BY <3>1, <3>2
  <2> QED
    BY <2>1 DEF PathsKept
<1> QED
  BY <1>2, <1>4 DEF PathsKept

LEMMA PathsOtherwise ==
  ASSUME TypeOK, PathsKept, UNCHANGED m_path_list, UNCHANGED searched,
         \/ UNCHANGED as_queue
         \/ as_queue # <<>> /\ as_queue' = Tail(as_queue)
  PROVE  PathsKept'
<1>1. CASE UNCHANGED as_queue
  BY <1>1 DEF PathsKept
<1>2. CASE as_queue # <<>> /\ as_queue' = Tail(as_queue)
  <2>1. as_queue \in Seq(Updates)
    BY DEF TypeOK, Updates
  <2>2. \A k \in DOMAIN as_queue' : as_queue'[k] = as_queue[k + 1] /\ k + 1 \in DOMAIN as_queue
    BY <1>2, <2>1, TailFacts
  <2> QED
    BY <2>2 DEF PathsKept
<1> QED
  BY <1>1, <1>2

\* Every path an AS keeps starts at a neighbour, leads over neighbours to the newcomer,
\* and never through the same AS twice, whatever the order the search meets the ASes in.
THEOREM PathsLead == Spec => []PathsLeadToNewcomer
<1>1. Init => TypeOK /\ PathsKept
  <2>1. Init => \A as \in ASes : m_path_list[as] = <<>>
    BY DEF Init, AddPathList
  <2> QED
    BY <2>1, TypeInit DEF Init, PathsKept
<1>2. TypeOK /\ PathsKept /\ [Next]_vars => (TypeOK /\ PathsKept)'
  <2> SUFFICES ASSUME TypeOK, PathsKept, [Next]_vars PROVE PathsKept'
    BY TypeNext
  <2>1. ASSUME NEW dest \in Announced, Announce(dest) \/ WithdrawalSignal(dest)
        PROVE  PathsKept'
    BY <2>1, PathsAnnounce, PathsErased
  <2>2. CASE BroadcastUpdate
    BY <2>2, PathsBroadcastUpdate
  <2>3. CASE \/ HookUpRequest \/ IgnoreUpdate \/ Withdrawl \/ SignalNext \/ WriteFlag
             \/ \E dest \in Announced : SendFrame(dest)
             \/ \E k \in DOMAIN frames : RouteFrame(k)
             \/ UNCHANGED vars
    <3>1. /\ UNCHANGED m_path_list /\ UNCHANGED searched
          /\ \/ UNCHANGED as_queue
             \/ as_queue # <<>> /\ as_queue' = Tail(as_queue)
      BY <2>3 DEF HookUpRequest, IgnoreUpdate, Withdrawl, SignalNext, WriteFlag, SendFrame,
                  RouteFrame, vars, bookkeeping, work
    <3> QED
      BY <3>1, PathsOtherwise
  <2> QED
    BY <2>1, <2>2, <2>3 DEF Next, MainThread
<1>3. TypeOK /\ PathsKept => PathsLeadToNewcomer
  BY DEF PathsKept, PathsLeadToNewcomer, WayToNewcomer
<1> QED
  BY <1>1, <1>2, <1>3, PTL DEF Spec

-----------------------------------------------------------------------------
(* The network between the calls and during them.                          *)

Plain == ASes \ HostASes
Shared(as) == m_reachable[as] \cap Announced

\* One call at a time; a flag is set by an AS that has just got the destination.
CallsApart ==
  /\ to_signal # <<>> => as_queue = <<>> /\ to_announce = {}
  /\ \A k \in DOMAIN writes :
       /\ writes[k].value = (to_signal = <<>>)
       /\ \E as \in Plain : /\ writes[k].router \in Range(BorderRouters[as])
                            /\ writes[k].value => writes[k].dest \in m_reachable[as]

Entries(list, d) == {k \in DOMAIN list : list[k].dest = d}
OneEntry(list, d) == \E k \in DOMAIN list : Entries(list, d) = {k}

OnePathEach ==
  \A as \in Plain, d \in Announced :
    IF d \in m_reachable[as] THEN OneEntry(m_path_list[as], d)
    ELSE Entries(m_path_list[as], d) = {}

\* Outside a withdrawal no AS has a destination the provider does not have.
ProviderFirst ==
  to_signal = <<>> =>
    /\ \A as \in Plain : Shared(as) \subseteq m_reachable[Provider]
    /\ \A k \in DOMAIN as_queue : as_queue[k].dest \in m_reachable[Provider]
    /\ to_announce \cap m_reachable[Provider] = {}

\* A destination the provider has is everywhere, or its search is under way: an AS the
\* search has met has it or will be told, and the neighbours of one that has it are met.
Everywhere(d) == \A as \in Plain : d \in m_reachable[as]
Told(as) == \E k \in DOMAIN as_queue : as_queue[k].to = as
Spreading(d) ==
  /\ \A k \in DOMAIN as_queue : as_queue[k].dest = d
  /\ \A as \in searched \cap Plain : d \in m_reachable[as] \/ Told(as)
  /\ \A as \in Plain : d \in m_reachable[as] => Adjacent[as] \subseteq searched
Spread ==
  to_signal = <<>> => \A d \in Shared(Provider) : Everywhere(d) \/ Spreading(d)

\* What a withdrawal has still to erase.
Erased ==
  to_signal # <<>> => \A as \in Plain : \A d \in Shared(as) :
    \/ as \in Range(Tail(to_signal))
    \/ as = Head(to_signal) /\ d \in to_erase

Pending(r, d) == \E k \in DOMAIN writes : writes[k].router = r /\ writes[k].dest = d

\* The routers of an AS that has a destination have its flag set, or it will be written.
FlagsSet ==
  to_signal = <<>> =>
    \A as \in Plain : \A d \in Shared(as) : \A r \in Range(BorderRouters[as]) :
      d \in DOMAIN in_use[r] => in_use[r][d] \/ Pending(r, d)

\* The first router lets frames in only for destinations one of its ASes has.
EntranceShut ==
  \A d \in Announced :
    \/ \E as \in Plain : FirstRouter \in Range(BorderRouters[as]) /\ d \in m_reachable[as]
    \/ ~in_use[FirstRouter][d]
    \/ Pending(FirstRouter, d)

\* Where frames may enter, the whole way is open.
WayOpen ==
  to_signal = <<>> =>
    \A d \in Announced : in_use[FirstRouter][d] \/ Pending(FirstRouter, d) =>
      \A r \in Way \ {FirstRouter} : in_use[r][d]

\* The flags of a router of no such AS are as its file has them.
OthersAlone ==
  \A r \in Routers : (\A as \in Plain : r \notin Range(BorderRouters[as])) =>
    in_use[r] = InitialRoutes[r]

\* A frame no withdrawal has caught underway finds the rest of its way open.
FramesPass ==
  \A k \in DOMAIN frames : ~frames[k].withdrawing =>
    /\ frames[k].at # "lost"
    /\ frames[k].at \in Way \ {FirstRouter} =>
         to_signal = <<>> /\ \A r \in Way \ {FirstRouter} : in_use[r][frames[k].dest]

NetworkInv ==
  /\ TypeOK /\ CallsApart /\ OnePathEach /\ ProviderFirst /\ Spread /\ Erased
  /\ FlagsSet /\ EntranceShut /\ WayOpen /\ OthersAlone /\ FramesPass

-----------------------------------------------------------------------------
(* Lists of paths.                                                         *)

LEMMA EntryAdded ==
  ASSUME NEW list \in Seq(PathEntries), NEW x \in PathEntries
  PROVE  /\ \A d : x.dest # d => Entries(Append(list, x), d) = Entries(list, d)
         /\ Entries(Append(list, x), x.dest) = Entries(list, x.dest) \cup {Len(list) + 1}
         /\ DOMAIN list \subseteq DOMAIN Append(list, x)
         /\ Len(list) + 1 \in DOMAIN Append(list, x)
<1>1. PICK last, longer : last = Len(list) + 1 /\ longer = Append(list, x)
  OBVIOUS
<1>2. /\ DOMAIN longer = DOMAIN list \cup {last} /\ last \notin DOMAIN list
      /\ \A k \in DOMAIN list : longer[k] = list[k]
      /\ longer[last] = x
  BY <1>1, AppendFacts
<1>3. ASSUME NEW d, x.dest # d PROVE Entries(longer, d) = Entries(list, d)
  BY <1>2, <1>3 DEF Entries
<1>4. Entries(longer, x.dest) = Entries(list, x.dest) \cup {last}
  BY <1>2 DEF Entries
<1> QED
  BY <1>1, <1>2, <1>3, <1>4

\* The first entry to a destination goes; the others keep their number.
LEMMA EntryErased ==
  ASSUME NEW list \in Seq(PathEntries), NEW dest, NEW less, less = WithoutFirst(list, dest)
  PROVE  /\ OneEntry(list, dest) \/ Entries(list, dest) = {} => Entries(less, dest) = {}
         /\ \A d : d # dest => /\ OneEntry(list, d) => OneEntry(less, d)
                               /\ Entries(list, d) = {} => Entries(less, d) = {}
<1>0. PICK n : n = Len(list)
  OBVIOUS
<1>1. n \in Nat /\ DOMAIN list = 1..n
  BY <1>0, LenProperties
<1>2. CASE /\ \A k \in 1..n : list[k].dest # dest
           /\ less = list
  BY <1>1, <1>2 DEF Entries, OneEntry
<1>3. ASSUME NEW i \in 1..n, list[i].dest = dest, less = RemoveAt(list, i)
      PROVE  /\ OneEntry(list, dest) \/ Entries(list, dest) = {} => Entries(less, dest) = {}
             /\ \A d : d # dest => /\ OneEntry(list, d) => OneEntry(less, d)
                                   /\ Entries(list, d) = {} => Entries(less, d) = {}
  <2> DEFINE was(j) == IF j < i THEN j ELSE j + 1
  <2>1. /\ less \in Seq(PathEntries) /\ Len(less) = n - 1
        /\ \A j \in 1..(n - 1) : less[j] = list[was(j)]
    BY <1>0, <1>3, RemoveAtFacts
  <2>2. DOMAIN less = 1..(n - 1)
    BY <2>1, LenProperties
  <2>3. \A j \in 1..(n - 1) : was(j) \in 1..n /\ was(j) # i
    BY <1>1
  <2>4. \A j, k \in 1..(n - 1) : was(j) = was(k) => j = k
    BY <1>1
  <2>5. \A k \in 1..n : k # i => \E j \in 1..(n - 1) : was(j) = k
    <3>1. ASSUME NEW k \in 1..n, k # i PROVE \E j \in 1..(n - 1) : was(j) = k
      <4>1. CASE k < i
        BY <1>1, <4>1
      <4>2. CASE ~(k < i)
        <5>1. k - 1 \in 1..(n - 1) /\ ~(k - 1 < i) /\ (k - 1) + 1 = k
          BY <1>1, <3>1, <4>2
        <5> QED
          BY <5>1
      <4> QED
        BY <4>1, <4>2
    <3> QED
      BY <3>1
  <2> HIDE DEF was
  <2>6. \A d : \A j \in Entries(less, d) : was(j) \in Entries(list, d) /\ was(j) # i
    BY <1>1, <2>1, <2>2, <2>3 DEF Entries
  <2>7. OneEntry(list, dest) \/ Entries(list, dest) = {} => Entries(less, dest) = {}
    <3>1. i \in Entries(list, dest)
      BY <1>1, <1>3 DEF Entries
    <3>2. ASSUME OneEntry(list, dest), NEW j \in Entries(less, dest) PROVE FALSE
      <4>1. PICK k : Entries(list, dest) = {k}
        BY <3>2 DEF OneEntry
      <4>2. was(j) \in Entries(list, dest) /\ was(j) # i
        BY <2>6
      <4> QED
        BY <3>1, <4>1, <4>2
    <3> QED
      BY <3>1, <3>2
  <2>8. ASSUME NEW d, d # dest, OneEntry(list, d) PROVE OneEntry(less, d)
    <3>1. PICK k \in 1..n : Entries(list, d) = {k}
      BY <1>1, <2>8 DEF OneEntry
    <3>2. k # i /\ list[k].dest = d
      BY <1>1, <1>3, <2>8, <3>1 DEF Entries
    <3>3. PICK j \in 1..(n - 1) : was(j) = k
      BY <2>5, <3>2
    <3>4. j \in Entries(less, d)
      BY <2>1, <2>2, <3>2, <3>3 DEF Entries
    <3>5. \A l \in Entries(less, d) : l = j
      <4>1. ASSUME NEW l \in Entries(less, d) PROVE l = j
        <5>1. l \in 1..(n - 1) /\ was(l) = k
          BY <2>2, <2>6, <3>1 DEF Entries
        <5> QED
          BY <2>4, <3>3, <5>1
      <4> QED
        BY <4>1
    <3>6. Entries(less, d) = {j}
      BY <3>4, <3>5
    <3> QED
      BY <2>2, <3>6 DEF OneEntry
  <2>9. ASSUME NEW d, Entries(list, d) = {} PROVE Entries(less, d) = {}
    BY <2>6, <2>9
  <2> QED
    BY <2>7, <2>8, <2>9
<1> QED
  BY <1>0, <1>2, <1>3, WithoutFirstFacts

-----------------------------------------------------------------------------
(* What the invariant says of the ends of a search and of a withdrawal.    *)

LEMMA NothingPending ==
  ASSUME writes = <<>>
  PROVE  \A r, d : ~Pending(r, d)
BY DEF Pending

\* The search stops only where every AS has been met: the plain ASes hang together.
LEMMA SearchOver ==
  ASSUME TypeOK, NEW d, Spreading(d), as_queue = <<>>, d \in m_reachable[Provider]
  PROVE  Everywhere(d)
<1>0. PICK group : group = {as \in Plain : d \in m_reachable[as]}
  OBVIOUS
<1>1. group \in SUBSET (ASes \ HostASes) /\ Provider \in group
  BY <1>0, TypeAS DEF Plain
<1>2. ASSUME NEW as \in group, NEW next \in Adjacent[as] \ HostASes PROVE next \in group
  <2>1. next \in Plain /\ next \in searched
    BY <1>0, <1>2, TypeAS DEF Plain, Spreading
  <2>2. ~Told(next)
    BY DEF Told
  <2> QED
    BY <1>0, <2>1, <2>2 DEF Spreading
<1>3. \A as \in group : Adjacent[as] \ HostASes \subseteq group
  BY <1>2
<1>4. group = ASes \ HostASes
  BY <1>1, <1>3, NeighbourAssumption
<1> QED
  BY <1>0, <1>4 DEF Everywhere, Plain

LEMMA NothingInEmpty == Range(<<>>) = {}
BY DEF Range

\* The withdrawal stops only where no AS has any of the destinations.
LEMMA WithdrawalOver ==
  ASSUME Erased, SignalNext, Tail(to_signal) = <<>>
  PROVE  \A as \in Plain : Shared(as) = {}
<1>1. ASSUME NEW as \in Plain, NEW d \in Shared(as) PROVE FALSE
  <2>1. to_signal # <<>> /\ (Reacts(Head(to_signal)) => to_erase = {})
    BY DEF SignalNext
  <2>2. as \notin Range(Tail(to_signal))
    BY NothingInEmpty
  <2>3. as = Head(to_signal) /\ d \in to_erase
    BY <2>1, <2>2 DEF Erased
  <2>4. Reacts(as)
    BY DEF Plain, Reacts
  <2> QED
    BY <2>1, <2>3, <2>4
<1> QED
  BY <1>1

-----------------------------------------------------------------------------
(* hookUpRequest: what Announce and BroadcastUpdate have in common.        *)

\* An AS gets a destination, keeps a path to it and has its flags to set.
Learns(as, dest) ==
  /\ as \in Plain /\ dest \in Announced /\ dest \notin m_reachable[as]
  /\ to_signal = <<>> /\ to_signal' = <<>>
  /\ writes = <<>> /\ writes' = FlagsFor(as, dest, TRUE)
  /\ m_reachable' = [m_reachable EXCEPT ![as] = @ \cup {dest}]
  /\ \E path \in Seq(ASes) :
       m_path_list' = [m_path_list EXCEPT ![as] = Append(@, [dest |-> dest, path |-> path])]
  /\ in_use' = in_use /\ frames' = frames

LEMMA LearnsReach ==
  ASSUME TypeOK, NEW as, NEW dest, Learns(as, dest)
  PROVE  /\ \A a \in Plain : m_reachable[a] \subseteq m_reachable'[a]
         /\ \A a \in Plain : a # as => m_reachable'[a] = m_reachable[a]
         /\ m_reachable'[as] = m_reachable[as] \cup {dest}
         /\ \A a \in Plain : \A d : d # dest => (d \in m_reachable'[a] <=> d \in m_reachable[a])
         /\ \A a \in Plain : \A d \in m_reachable'[a] :
              d \in m_reachable[a] \/ (a = as /\ d = dest)
<1>1. DOMAIN m_reachable = ASes /\ as \in ASes /\ Plain \subseteq ASes
  BY DEF TypeOK, Learns, Plain
<1> QED
  BY <1>1 DEF Learns

LEMMA LearnsPending ==
  ASSUME NEW as, NEW dest, Learns(as, dest)
  PROVE  /\ \A r, d : ~Pending(r, d)
         /\ \A r \in Range(BorderRouters[as]) : Pending(r, dest)'
         /\ \A r, d : Pending(r, d)' => r \in Range(BorderRouters[as]) /\ d = dest
         /\ \A k \in DOMAIN writes' : writes'[k].value = TRUE /\ writes'[k].dest = dest
                                      /\ writes'[k].router \in Range(BorderRouters[as])
<1>1. as \in ASes /\ dest \in Announced /\ TRUE \in BOOLEAN
  BY DEF Learns, Plain
<1>2. PICK flags : flags = FlagsFor(as, dest, TRUE)
  OBVIOUS
<1>3. /\ \A k \in DOMAIN flags : /\ flags[k].router \in Range(BorderRouters[as])
                                 /\ flags[k].dest = dest /\ flags[k].value = TRUE
      /\ \A r \in Range(BorderRouters[as]) : \E k \in DOMAIN flags : flags[k].router = r
  <2>1. AreFlagsOf(FlagsFor(as, dest, TRUE), as, dest, TRUE)
    BY <1>1, FlagsForFacts
  <2>2. AreFlagsOf(flags, as, dest, TRUE)
    BY <1>2, <2>1
  <2> QED
    BY <2>2 DEF AreFlagsOf
<1>4. writes' = flags
  BY <1>2 DEF Learns
<1>5. \A r, d : Pending(r, d)' => r \in Range(BorderRouters[as]) /\ d = dest
  BY <1>3, <1>4 DEF Pending
<1>6. \A r \in Range(BorderRouters[as]) : Pending(r, dest)'
  BY <1>3, <1>4 DEF Pending
<1>7. \A r, d : ~Pending(r, d)
  BY NothingPending DEF Learns
<1> QED
  BY <1>3, <1>4, <1>5, <1>6, <1>7

LEMMA LearnsOnePath ==
  ASSUME TypeOK, OnePathEach, NEW as, NEW dest, Learns(as, dest)
  PROVE  OnePathEach'
<1>1. PICK path \in Seq(ASes) :
        m_path_list' = [m_path_list EXCEPT ![as] = Append(@, [dest |-> dest, path |-> path])]
  BY DEF Learns
<1>2. PICK list, entry, longer : /\ list = m_path_list[as] /\ longer = Append(list, entry)
                                 /\ entry = [dest |-> dest, path |-> path]
  OBVIOUS
<1>3. /\ m_path_list \in [ASes -> Seq(PathEntries)] /\ as \in Plain /\ as \in ASes
      /\ Plain \subseteq ASes /\ dest \in Announced /\ dest \notin m_reachable[as]
  BY DEF TypeOK, PathEntries, Learns, Plain
<1>4. list \in Seq(PathEntries) /\ entry \in PathEntries /\ entry.dest = dest
  BY <1>2, <1>3 DEF PathEntries
<1>5. m_path_list' = [m_path_list EXCEPT ![as] = longer]
  BY <1>1, <1>2
<1>6. /\ \A d : entry.dest # d => Entries(longer, d) = Entries(list, d)
      /\ Entries(longer, entry.dest) = Entries(list, entry.dest) \cup {Len(list) + 1}
      /\ DOMAIN list \subseteq DOMAIN longer /\ Len(list) + 1 \in DOMAIN longer
  <2>1. /\ \A d : entry.dest # d => Entries(Append(list, entry), d) = Entries(list, d)
        /\ Entries(Append(list, entry), entry.dest)
             = Entries(list, entry.dest) \cup {Len(list) + 1}
        /\ DOMAIN list \subseteq DOMAIN Append(list, entry)
        /\ Len(list) + 1 \in DOMAIN Append(list, entry)
    BY <1>4, EntryAdded
  <2> QED
    BY <1>2, <2>1
<1>7. ASSUME NEW a \in Plain, NEW d \in Announced
      PROVE  IF d \in m_reachable'[a] THEN OneEntry(m_path_list'[a], d)
             ELSE Entries(m_path_list'[a], d) = {}
  <2>0. IF d \in m_reachable[a] THEN OneEntry(m_path_list[a], d)
        ELSE Entries(m_path_list[a], d) = {}
    BY DEF OnePathEach
  <2>1. CASE a # as
    <3>1. m_path_list'[a] = m_path_list[a] /\ m_reachable'[a] = m_reachable[a]
      BY <1>3, <1>5, <2>1, LearnsReach
    <3> QED
      BY <2>0, <3>1
  <2>2. CASE a = as /\ d # dest
    <3>1. m_path_list'[a] = longer /\ (d \in m_reachable'[a] <=> d \in m_reachable[a])
      BY <1>3, <1>5, <2>2, LearnsReach
    <3>2. Entries(longer, d) = Entries(list, d) /\ DOMAIN list \subseteq DOMAIN longer
      BY <1>4, <1>6, <2>2
    <3> QED
      BY <1>2, <2>0, <2>2, <3>1, <3>2 DEF OneEntry
  <2>3. CASE a = as /\ d = dest
    <3>0. d \in m_reachable'[a]
      <4>1. m_reachable'[as] = m_reachable[as] \cup {dest}
        BY LearnsReach
      <4> QED
        BY <2>3, <4>1
    <3>1. m_path_list'[a] = longer /\ d \in m_reachable'[a]
      BY <1>3, <1>5, <2>3, <3>0
    <3>2. Entries(list, d) = {}
      BY <1>2, <1>3, <2>0, <2>3
    <3>3. Entries(longer, d) = {Len(list) + 1} /\ Len(list) + 1 \in DOMAIN longer
      BY <1>4, <1>6, <2>3, <3>2
    <3> QED
      BY <3>1, <3>3 DEF OneEntry
  <2> QED
    BY <2>1, <2>2, <2>3
<1> QED
  BY <1>7 DEF OnePathEach

LEMMA LearnsFlags ==
  ASSUME TypeOK, CallsApart, FlagsSet, EntranceShut, OthersAlone, NEW as, NEW dest,
         Learns(as, dest)
  PROVE  FlagsSet' /\ EntranceShut' /\ OthersAlone' /\ Erased'
<1>1. FlagsSet'
  <2>1. ASSUME NEW a \in Plain, NEW d \in m_reachable'[a], d \in Announced,
               NEW r \in Range(BorderRouters[a]), d \in DOMAIN in_use'[r]
        PROVE  in_use'[r][d] \/ Pending(r, d)'
    <3>1. CASE d \in m_reachable[a]
      <4>1. in_use[r][d] \/ Pending(r, d)
        BY <2>1, <3>1 DEF FlagsSet, Shared, Learns
      <4> QED
        BY <4>1, LearnsPending DEF Learns
    <3>2. CASE d \notin m_reachable[a]
      <4>1. a = as /\ d = dest
        BY <3>2, LearnsReach
      <4> QED
        BY <4>1, LearnsPending
    <3> QED
      BY <3>1, <3>2
  <2> QED
    BY <2>1 DEF FlagsSet, Shared
<1>2. EntranceShut'
  <2>1. ASSUME NEW d \in Announced,
               ~(\E a \in Plain : FirstRouter \in Range(BorderRouters[a]) /\ d \in m_reachable'[a])
        PROVE  ~in_use'[FirstRouter][d]
    <3>1. ~(\E a \in Plain : FirstRouter \in Range(BorderRouters[a]) /\ d \in m_reachable[a])
      BY <2>1, LearnsReach
    <3>2. ~Pending(FirstRouter, d)
      BY LearnsPending
    <3>3. ~in_use[FirstRouter][d]
      BY <3>1, <3>2 DEF EntranceShut
    <3> QED
      BY <3>3 DEF Learns
  <2> QED
    BY <2>1 DEF EntranceShut
<1>3. OthersAlone' /\ Erased'
  BY DEF OthersAlone, Erased, Learns
<1> QED
  BY <1>1, <1>2, <1>3

LEMMA LearnsFrames ==
  ASSUME FramesPass, NEW as, NEW dest, Learns(as, dest)
  PROVE  FramesPass'
BY DEF FramesPass, Learns

\* The provider has set its own flags before the search comes to the first router.
LEMMA LearnsWay ==
  ASSUME TypeOK, FlagsSet, WayOpen, OthersAlone, NEW as, NEW dest, Learns(as, dest),
         as = Provider \/ dest \in m_reachable[Provider]
  PROVE  WayOpen'
<1>1. ASSUME NEW d \in Announced, in_use'[FirstRouter][d] \/ Pending(FirstRouter, d)',
             NEW r \in Way \ {FirstRouter}
      PROVE  in_use'[r][d]
  <2>1. CASE in_use[FirstRouter][d]
    BY <2>1 DEF WayOpen, Learns
  <2>2. CASE Pending(FirstRouter, d)'
    <3>1. FirstRouter \in Range(BorderRouters[as]) /\ d = dest
      BY <2>2, LearnsPending
    <3>2. dest \in m_reachable[Provider]
      BY <3>1, WayAssumption
    <3>3. CASE r \in Range(BorderRouters[Provider])
      <4>1. r \in Way /\ Announced \subseteq DOMAIN InitialRoutes[r] /\ r \in Routers
        BY WayAssumption
      <4>2. d \in DOMAIN in_use[r]
        BY <4>1 DEF TypeOK
      <4>3. Provider \in Plain
        BY TypeAS DEF Plain
      <4>4. in_use[r][d] \/ Pending(r, d)
        BY <3>1, <3>2, <3>3, <4>2, <4>3 DEF FlagsSet, Learns, Shared
      <4>5. in_use' = in_use /\ ~Pending(r, d)
        BY LearnsPending DEF Learns
      <4> QED
        BY <4>4, <4>5
    <3>4. CASE r \notin Range(BorderRouters[Provider])
      <4>1. /\ r \in Routers /\ InitialRoutes[r][d]
            /\ \A a \in ASes \ HostASes : r \notin Range(BorderRouters[a])
        BY <3>4, WayAssumption
      <4>2. in_use[r] = InitialRoutes[r]
        BY <4>1 DEF OthersAlone, Plain
      <4> QED
        BY <4>1, <4>2 DEF Learns
    <3> QED
      BY <3>3, <3>4
  <2> QED
    BY <1>1, <2>1, <2>2 DEF Learns
<1> QED
  BY <1>1 DEF WayOpen

LEMMA LearnsCalls ==
  ASSUME NEW as, NEW dest, Learns(as, dest), TypeOK
  PROVE  CallsApart'
<1>1. ASSUME NEW k \in DOMAIN writes'
      PROVE  /\ writes'[k].value = TRUE
             /\ writes'[k].router \in Range(BorderRouters[as])
             /\ writes'[k].dest \in m_reachable'[as]
  <2>1. /\ writes'[k].value = TRUE /\ writes'[k].dest = dest
        /\ writes'[k].router \in Range(BorderRouters[as])
    BY LearnsPending
  <2>2. dest \in m_reachable'[as]
    <3>1. m_reachable'[as] = m_reachable[as] \cup {dest}
      BY LearnsReach
    <3> QED
      BY <3>1
  <2> QED
    BY <2>1, <2>2
<1>2. as \in Plain /\ to_signal' = <<>>
  BY DEF Learns
<1> QED
  BY <1>1, <1>2 DEF CallsApart

\* The provider tells its neighbours, and the search for the destination is under way.
LEMMA NetworkAnnounce ==
  ASSUME NetworkInv, NEW dest \in Announced, Announce(dest)
  PROVE  NetworkInv'
<1>1. /\ TypeOK /\ CallsApart /\ OnePathEach /\ ProviderFirst /\ Spread /\ FlagsSet
      /\ EntranceShut /\ WayOpen /\ OthersAlone /\ FramesPass
  BY DEF NetworkInv
<1>2. /\ Provider \in Plain /\ Provider \in ASes /\ Newcomer \in ASes /\ Newcomer \notin Plain
      /\ Adjacent[Provider] \subseteq ASes
  BY <1>1, TypeAS DEF Plain
<1>3. to_signal = <<>> /\ to_signal' = <<>> /\ as_queue = <<>>
  BY <1>1 DEF Announce, CallsApart
<1>4. dest \notin m_reachable[Provider]
  BY <1>1, <1>3 DEF Announce, ProviderFirst
<1>5. Learns(Provider, dest)
  <2>1. <<Newcomer>> \in Seq(ASes)
    BY <1>2
  <2>2. m_path_list' = [m_path_list EXCEPT
                          ![Provider] = Append(@, [dest |-> dest, path |-> <<Newcomer>>])]
    BY DEF Announce
  <2>3. \E path \in Seq(ASes) : m_path_list' =
          [m_path_list EXCEPT ![Provider] = Append(@, [dest |-> dest, path |-> path])]
    BY <2>1, <2>2
  <2> QED
    BY <1>2, <1>3, <1>4, <2>3 DEF Announce, Learns
<1>6. /\ TypeOK' /\ CallsApart' /\ OnePathEach' /\ FlagsSet' /\ EntranceShut' /\ OthersAlone'
      /\ Erased' /\ FramesPass' /\ WayOpen'
  BY <1>1, <1>5, AnnounceType, LearnsCalls, LearnsOnePath, LearnsFlags, LearnsFrames, LearnsWay
<1>7. PICK neighbours, direct, messages :
        /\ neighbours = Adjacent[Provider] \ {Provider, Newcomer}
        /\ direct = <<Provider, Newcomer>>
        /\ messages \in Messages(neighbours, direct, dest) /\ as_queue' = messages
        /\ searched' = {Provider, Newcomer} \cup Adjacent[Provider]
        /\ to_announce' = to_announce \ {dest}
  BY DEF Announce
<1>8. /\ \A k \in DOMAIN as_queue' : as_queue'[k].dest = dest
      /\ \A a \in neighbours : \E k \in DOMAIN as_queue' : as_queue'[k].to = a
  <2>1. neighbours \in SUBSET ASes /\ direct \in Seq(ASes)
    BY <1>2, <1>7
  <2>2. messages \in Messages(neighbours, direct, dest)
    BY <1>7
  <2>3. /\ messages \in Seq(Updates)
        /\ \A k \in DOMAIN messages : /\ messages[k].to \in neighbours
                                      /\ messages[k].path = direct
                                      /\ messages[k].dest = dest
        /\ \A a \in neighbours : \E k \in DOMAIN messages : messages[k].to = a
    BY <2>1, <2>2, MessagesFacts
  <2> QED
    BY <1>7, <2>3
<1>9. /\ \A a \in Plain : m_reachable[a] \subseteq m_reachable'[a]
      /\ \A a \in Plain : a # Provider => m_reachable'[a] = m_reachable[a]
      /\ m_reachable'[Provider] = m_reachable[Provider] \cup {dest}
  BY <1>1, <1>5, LearnsReach
<1>10. \A a \in Plain : Shared(a) \subseteq m_reachable[Provider]
  BY <1>1, <1>3 DEF ProviderFirst
<1>11. ProviderFirst'
  <2>1. ASSUME NEW a \in Plain PROVE Shared(a)' \subseteq m_reachable'[Provider]
    BY <1>9, <1>10 DEF Shared
  <2>2. to_announce' \cap m_reachable'[Provider] = {}
    BY <1>1, <1>3, <1>7, <1>9 DEF ProviderFirst
  <2>3. \A k \in DOMAIN as_queue' : as_queue'[k].dest \in m_reachable'[Provider]
    BY <1>8, <1>9
  <2> QED
    BY <2>1, <2>2, <2>3 DEF ProviderFirst
<1>12. Spreading(dest)'
  <2>1. ASSUME NEW a \in searched' \cap Plain, dest \notin m_reachable'[a]
        PROVE  Told(a)'
    <3>1. a \in neighbours
      BY <1>2, <1>7, <1>9, <2>1
    <3> QED
      BY <1>8, <3>1 DEF Told
  <2>2. ASSUME NEW a \in Plain, dest \in m_reachable'[a]
        PROVE  Adjacent[a] \subseteq searched'
    <3>1. a = Provider
      BY <1>4, <1>9, <1>10, <2>2 DEF Shared
    <3> QED
      BY <1>7, <3>1
  <2> QED
    BY <1>8, <2>1, <2>2 DEF Spreading
<1>13. ASSUME NEW d \in Shared(Provider) PROVE Everywhere(d)'
  <2>1. Everywhere(d)
    BY <1>1, <1>3, SearchOver DEF Spread, Shared
  <2> QED
    BY <1>9, <2>1 DEF Everywhere
<1>14. Spread'
  BY <1>9, <1>12, <1>13 DEF Spread, Shared
<1> QED
  BY <1>6, <1>11, <1>14 DEF NetworkInv

\* An AS that gets the destination puts all its neighbours on the search list.
LEMMA NetworkBroadcastUpdate ==
  ASSUME NetworkInv, BroadcastUpdate
  PROVE  NetworkInv'
<1>0. PICK update, as, dest, path, fresh :
        /\ update = Head(as_queue) /\ as = update.to /\ path = update.path
        /\ dest = update.dest /\ fresh = Adjacent[as] \ searched
  OBVIOUS
<1>1. /\ TypeOK /\ CallsApart /\ OnePathEach /\ ProviderFirst /\ Spread /\ FlagsSet
      /\ EntranceShut /\ WayOpen /\ OthersAlone /\ FramesPass
  BY DEF NetworkInv
<1>2. as_queue \in Seq(Updates) /\ as_queue # <<>>
  BY <1>1 DEF TypeOK, Updates, BroadcastUpdate
<1>3. PICK rest : rest = Tail(as_queue)
  OBVIOUS
<1>4. /\ update \in Updates /\ rest \in Seq(Updates)
      /\ 1 \in DOMAIN as_queue /\ update = as_queue[1]
      /\ \A k \in DOMAIN rest : rest[k] = as_queue[k + 1] /\ k + 1 \in DOMAIN as_queue
      /\ \A k \in DOMAIN as_queue : \/ k = 1
                                   \/ /\ k - 1 \in DOMAIN rest
                                      /\ as_queue[k] = rest[k - 1]
  BY <1>0, <1>2, <1>3, TailFacts
<1>5. /\ as \in Plain /\ as \in ASes /\ dest \in Announced /\ path \in Seq(ASes)
      /\ dest \notin m_reachable[as] /\ Adjacent[as] \subseteq ASes
  BY <1>0, <1>1, <1>4, TypeAS DEF Updates, BroadcastUpdate, Plain
<1>6. /\ to_signal = <<>> /\ to_signal' = <<>> /\ to_announce' = to_announce
      /\ searched' = searched \cup fresh
  BY <1>0, <1>1 DEF BroadcastUpdate, CallsApart
<1>7. dest \in m_reachable[Provider]
  BY <1>0, <1>1, <1>4, <1>6 DEF ProviderFirst
<1>8. Learns(as, dest)
  <2>1. m_path_list' = [m_path_list EXCEPT ![as] = Append(@, [dest |-> dest, path |-> path])]
    BY <1>0 DEF BroadcastUpdate
  <2>2. \E p \in Seq(ASes) : m_path_list' =
          [m_path_list EXCEPT ![as] = Append(@, [dest |-> dest, path |-> p])]
    BY <1>5, <2>1
  <2> QED
    BY <1>0, <1>5, <1>6, <2>2 DEF BroadcastUpdate, Learns
<1>9. /\ TypeOK' /\ CallsApart' /\ OnePathEach' /\ FlagsSet' /\ EntranceShut' /\ OthersAlone'
      /\ Erased' /\ FramesPass' /\ WayOpen'
  BY <1>1, <1>7, <1>8, BroadcastUpdateType, LearnsCalls, LearnsOnePath, LearnsFlags,
     LearnsFrames, LearnsWay
<1>10. PICK through, messages : /\ through = <<as>> \o path
                                /\ messages \in Messages(fresh, through, dest)
                                /\ as_queue' = rest \o messages
  BY <1>0, <1>3 DEF BroadcastUpdate, PathThrough
<1>11. /\ messages \in Seq(Updates)
       /\ \A k \in DOMAIN messages : messages[k].dest = dest
       /\ \A a \in fresh : \E k \in DOMAIN messages : messages[k].to = a
  <2>1. fresh \in SUBSET ASes
    BY <1>0, <1>5
  <2>2. through \in Seq(ASes)
    <3>1. <<as>> \in Seq(ASes)
      BY <1>5, SingleFacts
    <3> QED
      BY <1>5, <1>10, <3>1, ConcatProperties
  <2>3. messages \in Messages(fresh, through, dest)
    BY <1>10
  <2>4. /\ messages \in Seq(Updates)
        /\ \A k \in DOMAIN messages : /\ messages[k].to \in fresh
                                      /\ messages[k].path = through
                                      /\ messages[k].dest = dest
        /\ \A a \in fresh : \E k \in DOMAIN messages : messages[k].to = a
    BY <1>5, <2>1, <2>2, <2>3, MessagesFacts
  <2> QED
    BY <2>4
<1>12. /\ \A k \in DOMAIN as_queue' : \/ k \in DOMAIN rest /\ as_queue'[k] = rest[k]
                                      \/ \E j \in DOMAIN messages : as_queue'[k] = messages[j]
       /\ \A k \in DOMAIN rest : k \in DOMAIN as_queue' /\ as_queue'[k] = rest[k]
       /\ \A j \in DOMAIN messages : \E k \in DOMAIN as_queue' : as_queue'[k] = messages[j]
  BY <1>4, <1>10, <1>11, ConcatFacts
<1>13. /\ \A a \in Plain : m_reachable[a] \subseteq m_reachable'[a]
       /\ \A a \in Plain : a # as => m_reachable'[a] = m_reachable[a]
       /\ m_reachable'[as] = m_reachable[as] \cup {dest}
       /\ \A a \in Plain : \A d \in m_reachable'[a] :
            d \in m_reachable[a] \/ (a = as /\ d = dest)
  BY <1>1, <1>8, LearnsReach
<1>14. Provider \in Plain
  BY <1>1, TypeAS DEF Plain
<1>15. ASSUME NEW k \in DOMAIN as_queue'
       PROVE  as_queue'[k].dest = dest \/ \E j \in DOMAIN as_queue : as_queue'[k] = as_queue[j]
  BY <1>4, <1>11, <1>12
<1>16. \A d \in Announced : d \in m_reachable[Provider] <=> d \in m_reachable'[Provider]
  BY <1>7, <1>13, <1>14
<1>17. ProviderFirst'
  <2>1. ASSUME NEW a \in Plain PROVE Shared(a)' \subseteq m_reachable'[Provider]
    <3>1. ASSUME NEW d \in Announced, d \in m_reachable'[a]
          PROVE  d \in m_reachable'[Provider]
      <4>1. d \in m_reachable[a] => d \in m_reachable[Provider]
        BY <1>1, <1>6 DEF ProviderFirst, Shared
      <4> QED
        BY <1>7, <1>13, <1>16, <3>1, <4>1
    <3> QED
      BY <3>1 DEF Shared
  <2>2. to_announce' \cap m_reachable'[Provider] = {}
    BY <1>1, <1>6, <1>16 DEF ProviderFirst, TypeOK
  <2>3. ASSUME NEW k \in DOMAIN as_queue' PROVE as_queue'[k].dest \in m_reachable'[Provider]
    BY <1>1, <1>6, <1>7, <1>13, <1>14, <1>15 DEF ProviderFirst
  <2> QED
    BY <2>1, <2>2, <2>3 DEF ProviderFirst
<1>18. ASSUME NEW d \in Announced, Spreading(d) PROVE Spreading(d)'
  <2>1. d = dest
    BY <1>0, <1>4, <1>18 DEF Spreading
  <2>2. \A k \in DOMAIN as_queue' : as_queue'[k].dest = d
    BY <1>15, <1>18, <2>1 DEF Spreading
  <2>3. ASSUME NEW a \in searched' \cap Plain, d \notin m_reachable'[a]
        PROVE  Told(a)'
    <3>1. CASE a \in fresh
      <4>1. PICK j \in DOMAIN messages : messages[j].to = a
        BY <1>11, <3>1
      <4>2. PICK k \in DOMAIN as_queue' : as_queue'[k] = messages[j]
        BY <1>12
      <4> QED
        BY <4>1, <4>2 DEF Told
    <3>2. CASE a \in searched
      <4>1. a # as /\ d \notin m_reachable[a]
        BY <1>13, <2>1, <2>3
      <4>2. PICK k \in DOMAIN as_queue : as_queue[k].to = a
        BY <1>18, <2>3, <3>2, <4>1 DEF Spreading, Told
      <4>3. k - 1 \in DOMAIN rest /\ rest[k - 1].to = a
        BY <1>0, <1>4, <4>1, <4>2
      <4>4. k - 1 \in DOMAIN as_queue' /\ as_queue'[k - 1] = rest[k - 1]
        BY <1>12, <4>3
      <4> QED
        BY <4>3, <4>4 DEF Told
    <3> QED
      BY <1>6, <2>3, <3>1, <3>2
  <2>4. ASSUME NEW a \in Plain, d \in m_reachable'[a]
        PROVE  Adjacent[a] \subseteq searched'
    <3>1. CASE a = as
      BY <1>0, <1>6, <3>1
    <3>2. CASE a # as
      <4>1. d \in m_reachable[a]
        BY <1>13, <2>4, <3>2
      <4> QED
        BY <1>6, <1>18, <4>1 DEF Spreading
    <3> QED
      BY <3>1, <3>2
  <2> QED
    BY <2>2, <2>3, <2>4 DEF Spreading
<1>19. Spread'
  <2>1. ASSUME NEW d \in Announced, d \in m_reachable'[Provider]
        PROVE  Everywhere(d)' \/ Spreading(d)'
    <3>1. Everywhere(d) \/ Spreading(d)
      BY <1>1, <1>6, <1>16, <2>1 DEF Spread, Shared
    <3>2. Everywhere(d) => Everywhere(d)'
      BY <1>13 DEF Everywhere
    <3> QED
      BY <1>18, <3>1, <3>2
  <2> QED
    BY <2>1 DEF Spread, Shared
<1> QED
  BY <1>9, <1>17, <1>19 DEF NetworkInv

-----------------------------------------------------------------------------
(* The flags, the withdrawal and the frames.                               *)

LEMMA NetworkInit == Init => NetworkInv
<1> SUFFICES ASSUME Init PROVE NetworkInv
  OBVIOUS
<1>1. TypeOK
  BY TypeInit
<1>2. /\ as_queue = <<>> /\ to_announce = {} /\ to_signal = <<>> /\ writes = <<>>
      /\ frames = <<>> /\ in_use = InitialRoutes
  BY DEF Init
<1>3. \A as \in Plain : Shared(as) = {}
  BY <1>1, WayAssumption DEF Init, Shared, Plain
<1>4. \A as \in Plain : \A d \in Announced : d \notin m_reachable[as]
  BY <1>3 DEF Shared
<1>5. CallsApart /\ ProviderFirst /\ Spread /\ Erased /\ FlagsSet /\ OthersAlone /\ FramesPass
  <2>1. Provider \in Plain
    BY <1>1, TypeAS DEF Plain
  <2>2. CallsApart /\ Erased /\ OthersAlone /\ FramesPass
    BY <1>2 DEF CallsApart, Erased, OthersAlone, FramesPass
  <2>3. ProviderFirst /\ Spread /\ FlagsSet
    BY <1>2, <1>3, <2>1 DEF ProviderFirst, Spread, FlagsSet
  <2> QED
    BY <2>2, <2>3
<1>6. EntranceShut /\ WayOpen
  BY <1>2, NothingPending, WayAssumption DEF EntranceShut, WayOpen
<1>7. OnePathEach
  <2>1. \A as \in Plain : m_path_list[as] = <<>>
    BY DEF Init, AddPathList, Plain
  <2>2. \A d : Entries(<<>>, d) = {}
    BY DEF Entries
  <2> QED
    BY <1>4, <2>1, <2>2 DEF OnePathEach
<1> QED
  BY <1>1, <1>5, <1>6, <1>7 DEF NetworkInv

\* A row of a router is written; no other is.
Written(w) ==
  /\ w.router \in Routers /\ w.dest \in Announced
  /\ \A r \in Routers : \A d : (r # w.router \/ d # w.dest) => in_use'[r][d] = in_use[r][d]
  /\ w.dest \in DOMAIN in_use[w.router] => in_use'[w.router][w.dest] = w.value
  /\ \A r \in Routers : r # w.router => in_use'[r] = in_use[r]

LEMMA WriteFlagFacts ==
  ASSUME TypeOK, WriteFlag
  PROVE  /\ Written(Head(writes)) /\ 1 \in DOMAIN writes /\ Head(writes) = writes[1]
         /\ \A r, d : Pending(r, d)' => Pending(r, d)
         /\ \A r, d : Pending(r, d) =>
              Pending(r, d)' \/ (Head(writes).router = r /\ Head(writes).dest = d)
         /\ \A k \in DOMAIN writes' : writes'[k] = writes[k + 1] /\ k + 1 \in DOMAIN writes
<1>1. PICK w, rest : w = Head(writes) /\ rest = Tail(writes)
  OBVIOUS
<1>2. writes \in Seq(FlagWrites) /\ writes # <<>>
  BY DEF TypeOK, FlagWrites, WriteFlag
<1>3. /\ w \in FlagWrites /\ rest \in Seq(FlagWrites)
      /\ 1 \in DOMAIN writes /\ w = writes[1]
      /\ \A k \in DOMAIN rest : rest[k] = writes[k + 1] /\ k + 1 \in DOMAIN writes
      /\ \A k \in DOMAIN writes : \/ k = 1
                                  \/ /\ k - 1 \in DOMAIN rest
                                     /\ writes[k] = rest[k - 1]
  BY <1>1, <1>2, TailFacts
<1>4. writes' = rest
  BY <1>1 DEF WriteFlag
<1>5. Written(w)
  <2>1. w.router \in Routers /\ w.dest \in Announced
    BY <1>3 DEF FlagWrites
  <2>2. /\ DOMAIN in_use = Routers
        /\ \A r \in Routers : in_use[r] \in [DOMAIN InitialRoutes[r] -> BOOLEAN]
    BY DEF TypeOK
  <2>3. CASE w.dest \in DOMAIN in_use[w.router]
    <3>1. in_use' = [in_use EXCEPT ![w.router] = [@ EXCEPT ![w.dest] = w.value]]
      BY <1>1, <2>3 DEF WriteFlag
    <3>2. /\ in_use'[w.router] = [in_use[w.router] EXCEPT ![w.dest] = w.value]
          /\ \A r \in Routers : r # w.router => in_use'[r] = in_use[r]
      BY <2>1, <2>2, <3>1
    <3>3. in_use'[w.router][w.dest] = w.value
      BY <2>3, <3>2
    <3>4. \A d : d # w.dest => in_use'[w.router][d] = in_use[w.router][d]
      BY <2>1, <2>2, <3>2
    <3> QED
      BY <2>1, <3>2, <3>3, <3>4 DEF Written
  <2>4. CASE w.dest \notin DOMAIN in_use[w.router]
    <3>1. in_use' = in_use
      BY <1>1, <2>4 DEF WriteFlag
    <3> QED
      BY <2>1, <2>4, <3>1 DEF Written
  <2> QED
    BY <2>3, <2>4
<1>6. \A r, d : Pending(r, d)' => Pending(r, d)
  BY <1>3, <1>4 DEF Pending
<1>7. \A r, d : Pending(r, d) => Pending(r, d)' \/ (w.router = r /\ w.dest = d)
  BY <1>3, <1>4 DEF Pending
<1> QED
  BY <1>1, <1>3, <1>4, <1>5, <1>6, <1>7

LEMMA FrameFacts ==
  ASSUME TypeOK
  PROVE  /\ frames \in Seq(FrameStates) /\ Len(frames) \in Nat /\ DOMAIN frames = 1..Len(frames)
         /\ \A k \in DOMAIN frames : frames[k] \in FrameStates
<1>1. /\ frames \in Seq(FrameStates) /\ Len(frames) \in Nat /\ DOMAIN frames = 1..Len(frames)
      /\ frames \in [1..Len(frames) -> FrameStates]
  BY LenProperties DEF TypeOK, FrameStates
<1> QED
  BY <1>1

\* hookUpRequest only sets flags and withdrawl only clears them.
LEMMA NetworkWriteFlag ==
  ASSUME NetworkInv, WriteFlag
  PROVE  NetworkInv'
<1>0. PICK w : w = Head(writes)
  OBVIOUS
<1>1. /\ TypeOK /\ CallsApart /\ OnePathEach /\ ProviderFirst /\ Spread /\ Erased /\ FlagsSet
      /\ EntranceShut /\ WayOpen /\ OthersAlone /\ FramesPass
  BY DEF NetworkInv
<1>2. /\ Written(w) /\ 1 \in DOMAIN writes /\ w = writes[1]
      /\ \A r, d : Pending(r, d)' => Pending(r, d)
      /\ \A r, d : Pending(r, d) => Pending(r, d)' \/ (w.router = r /\ w.dest = d)
      /\ \A k \in DOMAIN writes' : writes'[k] = writes[k + 1] /\ k + 1 \in DOMAIN writes
  BY <1>0, <1>1, WriteFlagFacts
<1>3. /\ m_reachable' = m_reachable /\ m_path_list' = m_path_list /\ searched' = searched
      /\ as_queue' = as_queue /\ to_announce' = to_announce /\ to_signal' = to_signal
      /\ to_erase' = to_erase /\ frames' = frames
  BY DEF WriteFlag, bookkeeping
<1>4. /\ w.value = (to_signal = <<>>)
      /\ \E as \in Plain : /\ w.router \in Range(BorderRouters[as])
                           /\ w.value => w.dest \in m_reachable[as]
  BY <1>1, <1>2 DEF CallsApart
<1>5. TypeOK'
  BY <1>1, WriteFlagType
<1>6. CallsApart' /\ OnePathEach' /\ ProviderFirst' /\ Spread' /\ Erased'
  <2>1. CallsApart'
    BY <1>1, <1>2, <1>3 DEF CallsApart
  <2>2. OnePathEach' /\ ProviderFirst' /\ Erased'
    BY <1>1, <1>3 DEF OnePathEach, ProviderFirst, Erased, Shared
  <2>3. Spread'
    BY <1>1, <1>3 DEF Spread, Shared, Everywhere, Spreading, Told
  <2> QED
    BY <2>1, <2>2, <2>3
<1>7. ASSUME to_signal = <<>>, NEW r \in Routers, NEW d, d \in DOMAIN in_use[r], in_use[r][d]
      PROVE  in_use'[r][d]
  BY <1>2, <1>4, <1>7 DEF Written
<1>8. FlagsSet'
  <2>1. ASSUME to_signal = <<>>, NEW as \in Plain, NEW d \in Shared(as),
               NEW r \in Range(BorderRouters[as]), d \in DOMAIN in_use'[r]
        PROVE  in_use'[r][d] \/ Pending(r, d)'
    <3>1. r \in Routers
      <4>1. BorderRouters[as] \in Seq(Routers)
        BY TopologyAssumption DEF Plain
      <4> QED
        BY <4>1, RangeOfSeq, LenProperties DEF Range
    <3>2. d \in DOMAIN in_use[r]
      BY <1>1, <1>5, <2>1, <3>1 DEF TypeOK
    <3>3. CASE in_use[r][d]
      BY <1>7, <2>1, <3>1, <3>2, <3>3
    <3>4. CASE Pending(r, d) /\ w.router = r /\ w.dest = d
      BY <1>2, <1>4, <2>1, <3>2, <3>4 DEF Written
    <3>5. CASE Pending(r, d)'
      BY <3>5
    <3> QED
      BY <1>1, <1>2, <2>1, <3>2, <3>3, <3>4, <3>5 DEF FlagsSet
  <2> QED
    BY <1>3, <2>1 DEF FlagsSet, Shared
<1>9. FirstRouter \in Routers /\ \A d \in Announced : d \in DOMAIN in_use[FirstRouter]
  BY <1>1, WayAssumption DEF TypeOK
<1>10. EntranceShut'
  <2>1. ASSUME NEW d \in Announced,
               ~(\E as \in Plain : FirstRouter \in Range(BorderRouters[as]) /\ d \in m_reachable[as]),
               ~(Pending(FirstRouter, d)')
        PROVE  ~in_use'[FirstRouter][d]
    <3>1. CASE w.router = FirstRouter /\ w.dest = d
      BY <1>2, <1>4, <1>9, <2>1, <3>1 DEF Written
    <3>2. CASE ~(w.router = FirstRouter /\ w.dest = d)
      <4>1. ~in_use[FirstRouter][d]
        BY <1>1, <1>2, <2>1, <3>2 DEF EntranceShut
      <4> QED
        BY <1>2, <1>9, <3>2, <4>1 DEF Written
    <3> QED
      BY <3>1, <3>2
  <2> QED
    BY <1>3, <2>1 DEF EntranceShut
<1>11. ASSUME to_signal = <<>>, NEW d \in Announced, NEW r \in Way, in_use[r][d]
       PROVE  in_use'[r][d]
  <2>1. r \in Routers /\ d \in DOMAIN in_use[r]
    BY <1>1, WayAssumption DEF TypeOK
  <2> QED
    BY <1>7, <1>11, <2>1
<1>12. WayOpen'
  <2>1. ASSUME to_signal = <<>>, NEW d \in Announced,
               in_use'[FirstRouter][d] \/ Pending(FirstRouter, d)'
        PROVE  in_use[FirstRouter][d] \/ Pending(FirstRouter, d)
    <3>1. CASE w.router = FirstRouter /\ w.dest = d
      BY <1>2, <3>1 DEF Pending
    <3>2. CASE ~(w.router = FirstRouter /\ w.dest = d)
      BY <1>2, <1>9, <2>1, <3>2 DEF Written
    <3> QED
      BY <3>1, <3>2
  <2> QED
    BY <1>1, <1>3, <1>11, <2>1 DEF WayOpen
<1>13. OthersAlone'
  BY <1>1, <1>2, <1>4 DEF OthersAlone, Written
<1>14. FramesPass'
  <2>1. ASSUME NEW k \in DOMAIN frames, ~frames[k].withdrawing
        PROVE  /\ frames[k].at # "lost"
               /\ frames[k].at \in Way \ {FirstRouter} =>
                    to_signal = <<>> /\ \A r \in Way \ {FirstRouter} : in_use'[r][frames[k].dest]
    <3>1. frames[k].dest \in Announced
      BY <1>1, FrameFacts DEF FrameStates
    <3> QED
      BY <1>1, <1>11, <2>1, <3>1 DEF FramesPass
  <2> QED
    BY <1>3, <2>1 DEF FramesPass
<1> QED
  BY <1>5, <1>6, <1>8, <1>10, <1>12, <1>13, <1>14 DEF NetworkInv

\* The provider's list says which destinations are new to the network.
LEMMA NetworkHookUpRequest ==
  ASSUME NetworkInv, HookUpRequest
  PROVE  NetworkInv'
<1>1. /\ TypeOK /\ CallsApart /\ OnePathEach /\ ProviderFirst /\ Spread /\ Erased /\ FlagsSet
      /\ EntranceShut /\ WayOpen /\ OthersAlone /\ FramesPass
  BY DEF NetworkInv
<1>2. /\ to_signal = <<>> /\ to_signal' = <<>> /\ UNCHANGED <<in_use, frames, writes, as_queue>>
      /\ UNCHANGED <<m_reachable, m_path_list, searched, to_erase>>
      /\ to_announce' = m_reachable[Newcomer] \ m_reachable[Provider]
  BY DEF HookUpRequest, Idle, bookkeeping
<1>3. TypeOK'
  BY <1>1, CallType
<1>4. CallsApart' /\ OnePathEach' /\ Erased' /\ OthersAlone' /\ FramesPass'
  BY <1>1, <1>2 DEF CallsApart, OnePathEach, Erased, OthersAlone, FramesPass
<1>5. ProviderFirst' /\ Spread'
  BY <1>1, <1>2 DEF ProviderFirst, Spread, Shared, Everywhere, Spreading, Told
<1>6. FlagsSet' /\ EntranceShut' /\ WayOpen'
  BY <1>1, <1>2 DEF FlagsSet, EntranceShut, WayOpen, Shared, Pending
<1> QED
  BY <1>3, <1>4, <1>5, <1>6 DEF NetworkInv

\* An announcement to a host AS, or to one that has the destination, tells nothing new.
LEMMA NetworkIgnoreUpdate ==
  ASSUME NetworkInv, IgnoreUpdate
  PROVE  NetworkInv'
<1>0. PICK rest, update : rest = Tail(as_queue) /\ update = Head(as_queue)
  OBVIOUS
<1>1. /\ TypeOK /\ CallsApart /\ OnePathEach /\ ProviderFirst /\ Spread /\ Erased /\ FlagsSet
      /\ EntranceShut /\ WayOpen /\ OthersAlone /\ FramesPass
  BY DEF NetworkInv
<1>2. as_queue \in Seq(Updates) /\ as_queue # <<>>
  BY <1>1 DEF TypeOK, Updates, IgnoreUpdate
<1>3. /\ 1 \in DOMAIN as_queue /\ update = as_queue[1]
      /\ \A k \in DOMAIN rest : rest[k] = as_queue[k + 1] /\ k + 1 \in DOMAIN as_queue
      /\ \A k \in DOMAIN as_queue : \/ k = 1
                                   \/ /\ k - 1 \in DOMAIN rest
                                      /\ as_queue[k] = rest[k - 1]
  BY <1>0, <1>2, TailFacts
<1>4. /\ to_signal = <<>> /\ to_signal' = <<>> /\ UNCHANGED <<in_use, frames, writes, to_announce>>
      /\ UNCHANGED <<m_reachable, m_path_list, searched, to_erase>>
      /\ as_queue' = rest
      /\ update.to \in HostASes \/ update.dest \in m_reachable[update.to]
  BY <1>0, <1>1 DEF IgnoreUpdate, bookkeeping, CallsApart
<1>5. TypeOK'
  BY <1>1, CallType
<1>6. CallsApart' /\ OnePathEach' /\ Erased' /\ OthersAlone' /\ FramesPass'
  BY <1>1, <1>4 DEF CallsApart, OnePathEach, Erased, OthersAlone, FramesPass
<1>7. FlagsSet' /\ EntranceShut' /\ WayOpen'
  BY <1>1, <1>4 DEF FlagsSet, EntranceShut, WayOpen, Shared, Pending
<1>8. ProviderFirst'
  BY <1>1, <1>3, <1>4 DEF ProviderFirst, Shared
<1>9. ASSUME NEW d, Spreading(d) PROVE Spreading(d)'
  <2>1. \A k \in DOMAIN as_queue' : as_queue'[k].dest = d
    BY <1>3, <1>4, <1>9 DEF Spreading
  <2>2. ASSUME NEW as \in searched \cap Plain, d \notin m_reachable[as]
        PROVE  Told(as)'
    <3>1. PICK k \in DOMAIN as_queue : as_queue[k].to = as
      BY <1>9, <2>2 DEF Spreading, Told
    <3>2. k # 1
      BY <1>3, <1>4, <1>9, <2>2, <3>1 DEF Spreading, Plain
    <3> QED
      BY <1>3, <1>4, <3>1, <3>2 DEF Told
  <2> QED
    BY <1>4, <1>9, <2>1, <2>2 DEF Spreading
<1>10. Spread'
  BY <1>1, <1>4, <1>9 DEF Spread, Shared, Everywhere
<1> QED
  BY <1>5, <1>6, <1>7, <1>8, <1>10 DEF NetworkInv

\* Every AS is signalled, and every destination of the newcomer erased in each.
LEMMA NetworkWithdrawl ==
  ASSUME NetworkInv, Withdrawl
  PROVE  NetworkInv'
<1>1. /\ TypeOK /\ CallsApart /\ OnePathEach /\ EntranceShut /\ OthersAlone
  BY DEF NetworkInv
<1>2. /\ as_queue = <<>> /\ to_announce = {} /\ writes = <<>>
      /\ to_signal' = ASList /\ to_erase' = m_reachable[Newcomer]
      /\ UNCHANGED <<in_use, m_reachable, m_path_list, as_queue, to_announce, writes>>
      /\ frames' = [k \in DOMAIN frames |-> [frames[k] EXCEPT !.withdrawing = TRUE]]
  BY DEF Withdrawl, Idle, bookkeeping
<1>3. TypeOK'
  BY <1>1, FrameTypes
<1>4. ASList \in Seq(ASes) /\ ASList # <<>> /\ Range(ASList) = ASes
  <2>1. Range(ASList) # {}
    BY TopologyAssumption DEF ASes
  <2> QED
    BY <2>1, NothingInEmpty, TopologyAssumption DEF ASes
<1>5. Erased'
  <2>1. ASSUME NEW as \in Plain, NEW d \in Shared(as)
        PROVE  as \in Range(Tail(ASList)) \/ (as = Head(ASList) /\ d \in m_reachable[Newcomer])
    <3>1. Range(ASList) = Range(Tail(ASList)) \cup {Head(ASList)}
      BY <1>4, TailFacts
    <3>2. as \in Range(ASList) /\ d \in m_reachable[Newcomer]
      BY <1>1, <1>4, TypeAS DEF Shared, Plain
    <3> QED
      BY <3>1, <3>2
  <2> QED
    BY <1>2, <2>1 DEF Erased, Shared
<1>6. CallsApart' /\ OnePathEach' /\ OthersAlone'
  BY <1>1, <1>2 DEF CallsApart, OnePathEach, OthersAlone
<1>7. ProviderFirst' /\ Spread' /\ FlagsSet' /\ WayOpen'
  BY <1>2, <1>4 DEF ProviderFirst, Spread, FlagsSet, WayOpen
<1>8. EntranceShut'
  BY <1>1, <1>2 DEF EntranceShut, Pending
<1>9. FramesPass'
  <2>1. ASSUME NEW k \in DOMAIN frames PROVE frames'[k].withdrawing
    <3>1. frames'[k] = [frames[k] EXCEPT !.withdrawing = TRUE]
      BY <1>2
    <3>2. frames[k] \in FrameStates
      BY <1>1, FrameFacts
    <3> QED
      BY <3>1, <3>2 DEF FrameStates
  <2> QED
    BY <1>2, <2>1 DEF FramesPass
<1> QED
  BY <1>3, <1>5, <1>6, <1>7, <1>8, <1>9 DEF NetworkInv

\* An AS loses a destination, its one path to it, and has its flags to clear.
LEMMA NetworkWithdrawalSignal ==
  ASSUME NetworkInv, NEW dest \in Announced, WithdrawalSignal(dest)
  PROVE  NetworkInv'
<1>0. PICK as, list, less : /\ as = Head(to_signal) /\ list = m_path_list[as]
                            /\ less = WithoutFirst(list, dest)
  OBVIOUS
<1>1. /\ TypeOK /\ CallsApart /\ OnePathEach /\ Erased /\ EntranceShut /\ OthersAlone /\ FramesPass
  BY DEF NetworkInv
<1>2. /\ to_signal # <<>> /\ to_signal' = to_signal /\ writes = <<>>
      /\ UNCHANGED <<in_use, frames, as_queue, to_announce>>
      /\ writes' = FlagsFor(as, dest, FALSE) /\ to_erase' = to_erase \ {dest}
      /\ m_reachable' = [m_reachable EXCEPT ![as] = @ \ {dest}]
      /\ m_path_list' = [m_path_list EXCEPT ![as] = less]
  BY <1>0 DEF WithdrawalSignal
<1>3. as \in Plain /\ as \in ASes /\ Plain \subseteq ASes
  <2>1. to_signal \in Seq(ASes) /\ as \notin HostASes
    BY <1>0, <1>1 DEF TypeOK, WithdrawalSignal, Reacts
  <2> QED
    BY <1>0, <1>2, <2>1, TailFacts DEF Plain
<1>4. TypeOK'
  BY <1>1, WithdrawalSignalType
<1>5. /\ DOMAIN m_reachable = ASes /\ m_path_list \in [ASes -> Seq(PathEntries)]
      /\ list \in Seq(PathEntries)
  BY <1>0, <1>1, <1>3 DEF TypeOK, PathEntries
<1>6. /\ m_reachable'[as] = m_reachable[as] \ {dest} /\ m_path_list'[as] = less
      /\ \A a \in Plain : a # as => /\ m_reachable'[a] = m_reachable[a]
                                    /\ m_path_list'[a] = m_path_list[a]
  BY <1>2, <1>3, <1>5
<1>7. AreFlagsOf(writes', as, dest, FALSE)
  <2>1. AreFlagsOf(FlagsFor(as, dest, FALSE), as, dest, FALSE)
    BY <1>3, FlagsForFacts
  <2> QED
    BY <1>2, <2>1
<1>8. CallsApart'
  <2>1. ASSUME NEW k \in DOMAIN writes'
        PROVE  /\ writes'[k].value = FALSE
               /\ writes'[k].router \in Range(BorderRouters[as])
    BY <1>7 DEF AreFlagsOf
  <2> QED
    BY <1>1, <1>2, <1>3, <2>1 DEF CallsApart
<1>9. OnePathEach'
  <2>1. ASSUME NEW a \in Plain, NEW d \in Announced
        PROVE  IF d \in m_reachable'[a] THEN OneEntry(m_path_list'[a], d)
               ELSE Entries(m_path_list'[a], d) = {}
    <3>0. IF d \in m_reachable[a] THEN OneEntry(m_path_list[a], d)
          ELSE Entries(m_path_list[a], d) = {}
      BY <1>1 DEF OnePathEach
    <3>1. CASE a # as
      BY <1>6, <3>0, <3>1
    <3>2. CASE a = as
      <4>1. /\ OneEntry(list, dest) \/ Entries(list, dest) = {} => Entries(less, dest) = {}
            /\ \A e : e # dest => /\ OneEntry(list, e) => OneEntry(less, e)
                                  /\ Entries(list, e) = {} => Entries(less, e) = {}
        BY <1>0, <1>5, EntryErased
      <4>2. IF d \in m_reachable[as] THEN OneEntry(list, d) ELSE Entries(list, d) = {}
        BY <1>0, <3>0, <3>2
      <4>3. d \in m_reachable'[as] <=> (d \in m_reachable[as] /\ d # dest)
        BY <1>6
      <4>4. CASE d = dest
        <5>1. Entries(less, d) = {}
          BY <4>1, <4>2, <4>4
        <5> QED
          BY <1>6, <3>2, <4>3, <4>4, <5>1
      <4>5. CASE d # dest
        <5>1. IF d \in m_reachable[as] THEN OneEntry(less, d) ELSE Entries(less, d) = {}
          BY <4>1, <4>2, <4>5
        <5> QED
          BY <1>6, <3>2, <4>3, <4>5, <5>1
      <4> QED
        BY <4>4, <4>5
    <3> QED
      BY <3>1, <3>2
  <2> QED
    BY <2>1 DEF OnePathEach
<1>10. Erased'
  <2>1. ASSUME NEW a \in Plain, NEW d \in Announced, d \in m_reachable'[a]
        PROVE  \/ a \in Range(Tail(to_signal))
               \/ a = Head(to_signal) /\ d \in to_erase'
    <3>1. d \in m_reachable[a] /\ (a = as => d # dest)
      BY <1>6, <2>1
    <3>2. \/ a \in Range(Tail(to_signal))
          \/ a = Head(to_signal) /\ d \in to_erase
      BY <1>1, <1>2, <3>1 DEF Erased, Shared
    <3> QED
      BY <1>0, <1>2, <3>1, <3>2
  <2> QED
    BY <1>2, <2>1 DEF Erased, Shared
<1>11. ProviderFirst' /\ Spread' /\ FlagsSet' /\ WayOpen'
  BY <1>2 DEF ProviderFirst, Spread, FlagsSet, WayOpen
<1>12. OthersAlone' /\ FramesPass'
  BY <1>1, <1>2 DEF OthersAlone, FramesPass
<1>13. EntranceShut'
  <2>1. ASSUME NEW d \in Announced,
               ~(\E a \in Plain : FirstRouter \in Range(BorderRouters[a]) /\ d \in m_reachable'[a]),
               ~(Pending(FirstRouter, d)')
        PROVE  ~in_use[FirstRouter][d]
    <3>1. ~Pending(FirstRouter, d)
      BY <1>2, NothingPending
    <3>2. ASSUME NEW a \in Plain, FirstRouter \in Range(BorderRouters[a]), d \in m_reachable[a]
          PROVE  FALSE
      <4>1. a = as /\ d = dest
        BY <1>6, <2>1, <3>2
      <4>2. \E k \in DOMAIN writes' : writes'[k].router = FirstRouter
        BY <1>7, <3>2, <4>1 DEF AreFlagsOf
      <4>3. \A k \in DOMAIN writes' : writes'[k].dest = dest
        BY <1>7 DEF AreFlagsOf
      <4> QED
        BY <2>1, <4>1, <4>2, <4>3 DEF Pending
    <3> QED
      BY <1>1, <3>1, <3>2 DEF EntranceShut
  <2> QED
    BY <1>2, <2>1 DEF EntranceShut
<1> QED
  BY <1>4, <1>8, <1>9, <1>10, <1>11, <1>12, <1>13 DEF NetworkInv

\* The last AS is done: nothing is left, and the first router lets no frame in.
LEMMA NetworkSignalNext ==
  ASSUME NetworkInv, SignalNext
  PROVE  NetworkInv'
<1>0. PICK rest : rest = Tail(to_signal)
  OBVIOUS
<1>1. /\ TypeOK /\ CallsApart /\ OnePathEach /\ Erased /\ EntranceShut /\ OthersAlone /\ FramesPass
  BY DEF NetworkInv
<1>2. /\ to_signal # <<>> /\ to_signal' = rest /\ writes = <<>>
      /\ UNCHANGED <<in_use, frames, as_queue, to_announce, writes, m_reachable, m_path_list>>
      /\ to_erase' = m_reachable[Newcomer]
      /\ Reacts(Head(to_signal)) => to_erase = {}
  BY <1>0 DEF SignalNext, bookkeeping
<1>3. to_signal \in Seq(ASes) /\ rest \in Seq(ASes)
  <2>1. to_signal \in Seq(ASes)
    BY <1>1 DEF TypeOK
  <2> QED
    BY <1>0, <1>2, <2>1, TailFacts
<1>4. TypeOK'
  BY <1>1, CallType
<1>5. as_queue = <<>> /\ to_announce = {}
  BY <1>1, <1>2 DEF CallsApart
<1>6. CallsApart' /\ OnePathEach' /\ OthersAlone'
  BY <1>1, <1>2, <1>5 DEF CallsApart, OnePathEach, OthersAlone
<1>7. EntranceShut'
  BY <1>1, <1>2 DEF EntranceShut, Pending
<1>8. FramesPass'
  BY <1>1, <1>2 DEF FramesPass
<1>9. Erased'
  <2>1. ASSUME rest # <<>>, NEW as \in Plain, NEW d \in Shared(as)
        PROVE  \/ as \in Range(Tail(rest))
               \/ as = Head(rest) /\ d \in m_reachable[Newcomer]
    <3>1. Range(rest) = Range(Tail(rest)) \cup {Head(rest)}
      BY <1>3, <2>1, TailFacts
    <3>2. as \in Range(rest)
      <4>1. \/ as \in Range(rest)
            \/ as = Head(to_signal) /\ d \in to_erase
        BY <1>0, <1>1, <1>2 DEF Erased
      <4>2. Reacts(as)
        BY DEF Reacts, Plain
      <4> QED
        BY <1>2, <4>1, <4>2
    <3>3. d \in m_reachable[Newcomer]
      BY <1>1, TypeAS DEF Shared
    <3> QED
      BY <3>1, <3>2, <3>3
  <2> QED
    BY <1>2, <2>1 DEF Erased, Shared
<1>10. ASSUME rest = <<>>
       PROVE  ProviderFirst' /\ Spread' /\ FlagsSet' /\ WayOpen'
  <2>1. \A as \in Plain : Shared(as) = {}
    BY <1>0, <1>1, <1>10, WithdrawalOver
  <2>2. \A as \in Plain : Shared(as)' = {}
    BY <1>2, <2>1 DEF Shared
  <2>3. Provider \in Plain
    BY <1>1, TypeAS DEF Plain
  <2>4. ProviderFirst' /\ Spread' /\ FlagsSet'
    BY <1>2, <1>5, <2>2, <2>3 DEF ProviderFirst, Spread, FlagsSet
  <2>5. \A d \in Announced : ~in_use[FirstRouter][d] /\ ~Pending(FirstRouter, d)
    <3>1. \A as \in Plain : \A d \in Announced : d \notin m_reachable[as]
      BY <2>1 DEF Shared
    <3>2. \A r, d : ~Pending(r, d)
      BY <1>2, NothingPending
    <3> QED
      BY <1>1, <3>1, <3>2 DEF EntranceShut
  <2>6. WayOpen'
    BY <1>2, <2>5 DEF WayOpen, Pending
  <2> QED
    BY <2>4, <2>6
<1>11. ASSUME rest # <<>>
       PROVE  ProviderFirst' /\ Spread' /\ FlagsSet' /\ WayOpen'
  BY <1>2, <1>11 DEF ProviderFirst, Spread, FlagsSet, WayOpen
<1> QED
  BY <1>4, <1>6, <1>7, <1>8, <1>9, <1>10, <1>11 DEF NetworkInv

LEMMA NetworkFramesMove ==
  ASSUME NetworkInv, UNCHANGED <<in_use, bookkeeping, work>>, TypeOK', FramesPass'
  PROVE  NetworkInv'
<1>1. /\ TypeOK /\ CallsApart /\ OnePathEach /\ ProviderFirst /\ Spread /\ Erased /\ FlagsSet
      /\ EntranceShut /\ WayOpen /\ OthersAlone
  BY DEF NetworkInv
<1>2. /\ UNCHANGED <<in_use, m_reachable, m_path_list, searched>>
      /\ UNCHANGED <<as_queue, to_announce, to_signal, to_erase, writes>>
  BY DEF bookkeeping, work
<1>3. CallsApart' /\ OnePathEach' /\ Erased' /\ OthersAlone'
  BY <1>1, <1>2 DEF CallsApart, OnePathEach, Erased, OthersAlone, Shared
<1>4. ProviderFirst' /\ Spread'
  BY <1>1, <1>2 DEF ProviderFirst, Spread, Shared, Everywhere, Spreading, Told
<1>5. FlagsSet' /\ EntranceShut' /\ WayOpen'
  BY <1>1, <1>2 DEF FlagsSet, EntranceShut, WayOpen, Shared, Pending
<1> QED
  BY <1>3, <1>4, <1>5 DEF NetworkInv

LEMMA NetworkSendFrame ==
  ASSUME NetworkInv, NEW dest \in Announced, SendFrame(dest)
  PROVE  NetworkInv'
<1>1. TypeOK /\ FramesPass
  BY DEF NetworkInv
<1>2. PICK sent : sent = [at |-> FirstRouter, dest |-> dest, withdrawing |-> FALSE]
  OBVIOUS
<1>3. /\ frames' = Append(frames, sent) /\ UNCHANGED <<in_use, bookkeeping, work>>
      /\ UNCHANGED to_signal
  BY <1>2 DEF SendFrame, work
<1>4. TypeOK'
  BY <1>1, FrameTypes
<1>5. FirstRouter \in Way /\ FirstRouter # "lost"
  BY WayAssumption
<1>6. frames \in Seq(FrameStates) /\ sent \in FrameStates
  BY <1>1, <1>2, <1>5, FrameFacts DEF FrameStates
<1>7. \A k \in DOMAIN frames' : \/ k \in DOMAIN frames /\ frames'[k] = frames[k]
                                \/ frames'[k] = sent
  <2>1. PICK longer : longer = Append(frames, sent)
    OBVIOUS
  <2>2. /\ DOMAIN longer = DOMAIN frames \cup {Len(frames) + 1}
        /\ \A k \in DOMAIN frames : longer[k] = frames[k]
        /\ longer[Len(frames) + 1] = sent
    BY <1>6, <2>1, AppendFacts
  <2> QED
    BY <1>3, <2>1, <2>2
<1>8. sent.at = FirstRouter
  BY <1>2
<1>9. FramesPass'
  BY <1>1, <1>3, <1>5, <1>7, <1>8 DEF FramesPass
<1> QED
  BY <1>3, <1>4, <1>9, NetworkFramesMove

\* The first router passes a frame on only where the rest of the way is open.
LEMMA NetworkRouteFrame ==
  ASSUME NetworkInv, NEW k \in DOMAIN frames, RouteFrame(k)
  PROVE  NetworkInv'
<1>0. PICK frame, at, now :
        /\ frame = frames[k]
        /\ at = IF in_use[frame.at][frame.dest] THEN NextRouter[frame.at]
                ELSE IF frame.at = FirstRouter THEN "refused" ELSE "lost"
        /\ now = IF frame.at = FirstRouter THEN Withdrawing ELSE frame.withdrawing
  OBVIOUS
<1>1. TypeOK /\ FramesPass /\ WayOpen
  BY DEF NetworkInv
<1>2. /\ frames \in Seq(FrameStates) /\ DOMAIN frames = 1..Len(frames)
      /\ frame \in FrameStates /\ frame.at \in Routers
  BY <1>0, <1>1, FrameFacts DEF RouteFrame
<1>3. frame.at \in Way /\ frame.dest \in Announced
  BY <1>2, WayAssumption DEF FrameStates
<1>4. /\ frames'[k] = [at |-> at, dest |-> frame.dest, withdrawing |-> now]
      /\ \A j \in DOMAIN frames : j # k => frames'[j] = frames[j]
      /\ DOMAIN frames' = DOMAIN frames
  <2>1. frames' = [frames EXCEPT ![k].at = at, ![k].withdrawing = now]
    BY <1>0 DEF RouteFrame
  <2>2. frames' = [frames EXCEPT ![k] = [@ EXCEPT !.at = at, !.withdrawing = now]]
    BY <1>2, <2>1
  <2>3. [frame EXCEPT !.at = at, !.withdrawing = now]
          = [at |-> at, dest |-> frame.dest, withdrawing |-> now]
    BY <1>2, FrameMoved
  <2> QED
    BY <1>0, <1>2, <2>2, <2>3
<1>5. TypeOK' /\ UNCHANGED <<in_use, bookkeeping, work>>
  BY <1>1, FrameTypes DEF RouteFrame
<1>6. in_use' = in_use /\ to_signal' = to_signal
  BY <1>5 DEF work
<1>7. ASSUME ~now
      PROVE  /\ at # "lost"
             /\ at \in Way \ {FirstRouter} =>
                  to_signal = <<>> /\ \A r \in Way \ {FirstRouter} : in_use[r][frame.dest]
  <2>1. /\ NextRouter[frame.at] \in (Way \ {FirstRouter}) \cup {"receiver"}
        /\ NextRouter[frame.at] # "lost" /\ "refused" \notin Way /\ "lost" \notin Way
    BY <1>3, WayAssumption
  <2>2. CASE frame.at = FirstRouter
    <3>1. to_signal = <<>>
      BY <1>0, <1>7, <2>2 DEF Withdrawing
    <3>2. CASE in_use[FirstRouter][frame.dest]
      <4>1. \A r \in Way \ {FirstRouter} : in_use[r][frame.dest]
        BY <1>1, <1>3, <3>1, <3>2 DEF WayOpen
      <4>2. at = NextRouter[frame.at]
        BY <1>0, <2>2, <3>2
      <4> QED
        BY <2>1, <3>1, <4>1, <4>2
    <3>3. CASE ~in_use[FirstRouter][frame.dest]
      <4>1. at = "refused"
        BY <1>0, <2>2, <3>3
      <4> QED
        BY <2>1, <4>1
    <3> QED
      BY <3>2, <3>3
  <2>3. CASE frame.at # FirstRouter
    <3>1. ~frame.withdrawing
      BY <1>0, <1>7, <2>3
    <3>2. to_signal = <<>> /\ \A r \in Way \ {FirstRouter} : in_use[r][frame.dest]
      BY <1>0, <1>1, <1>3, <2>3, <3>1 DEF FramesPass
    <3>3. at = NextRouter[frame.at]
      BY <1>0, <1>3, <2>3, <3>2
    <3> QED
      BY <2>1, <3>2, <3>3
  <2> QED
    BY <2>2, <2>3
<1>8. FramesPass'
  <2>1. ASSUME NEW j \in DOMAIN frames', ~frames'[j].withdrawing
        PROVE  /\ frames'[j].at # "lost"
               /\ frames'[j].at \in Way \ {FirstRouter} =>
                    to_signal = <<>> /\ \A r \in Way \ {FirstRouter} : in_use[r][frames'[j].dest]
    <3>1. CASE j = k
      <4>1. frames'[j].at = at /\ frames'[j].dest = frame.dest /\ frames'[j].withdrawing = now
        BY <1>4, <3>1
      <4> QED
        BY <1>7, <2>1, <4>1
    <3>2. CASE j # k
      BY <1>1, <1>4, <2>1, <3>2 DEF FramesPass
    <3> QED
      BY <3>1, <3>2
  <2> QED
    BY <1>6, <2>1 DEF FramesPass
<1> QED
  BY <1>5, <1>8, NetworkFramesMove

LEMMA NetworkNext ==
  ASSUME NetworkInv, [Next]_vars
  PROVE  NetworkInv'
<1>1. CASE MainThread
  BY <1>1, NetworkHookUpRequest, NetworkAnnounce, NetworkBroadcastUpdate, NetworkIgnoreUpdate,
     NetworkWithdrawl, NetworkSignalNext, NetworkWithdrawalSignal, NetworkWriteFlag
  DEF MainThread
<1>2. ASSUME NEW dest \in Announced, SendFrame(dest)
      PROVE  NetworkInv'
  BY <1>2, NetworkSendFrame
<1>3. ASSUME NEW k \in DOMAIN frames, RouteFrame(k)
      PROVE  NetworkInv'
  BY <1>3, NetworkRouteFrame
<1>4. CASE UNCHANGED vars
  <2>1. UNCHANGED <<in_use, bookkeeping, work>> /\ UNCHANGED to_signal /\ UNCHANGED frames
        /\ UNCHANGED in_use
    BY <1>4 DEF vars, work
  <2>2. TypeOK' /\ FramesPass'
    BY <1>4, <2>1, TypeNext DEF NetworkInv, FramesPass
  <2> QED
    BY <2>1, <2>2, NetworkFramesMove
<1> QED
  BY <1>1, <1>2, <1>3, <1>4 DEF Next

\* What the invariant says between two calls.
AgreesOn(as, d) ==
  LET known == d \in m_reachable[Provider]
  IN  /\ d \in m_reachable[as] <=> known
      /\ Cardinality(PathsTo(as, d)) = (IF known THEN 1 ELSE 0)
      /\ known => \A r \in Range(BorderRouters[as]) : d \in DOMAIN in_use[r] => in_use[r][d]
      /\ ~known => ~in_use[FirstRouter][d]

LEMMA Agreement ==
  ASSUME NetworkInv, Idle, NEW d \in Announced, NEW as \in ASes \ HostASes
  PROVE  AgreesOn(as, d)
<1>1. /\ TypeOK /\ OnePathEach /\ ProviderFirst /\ Spread /\ FlagsSet /\ EntranceShut
  BY DEF NetworkInv
<1>2. /\ to_signal = <<>> /\ as_queue = <<>> /\ \A r, e : ~Pending(r, e)
      /\ as \in Plain /\ Provider \in Plain
  BY <1>1, NothingPending, TypeAS DEF Idle, Plain
<1>3. d \in m_reachable[Provider] => \A a \in Plain : d \in m_reachable[a]
  <2>1. ASSUME d \in m_reachable[Provider] PROVE Everywhere(d)
    BY <1>1, <1>2, <2>1, SearchOver DEF Spread, Shared
  <2> QED
    BY <2>1 DEF Everywhere
<1>4. \A a \in Plain : d \in m_reachable[a] => d \in m_reachable[Provider]
  BY <1>1, <1>2 DEF ProviderFirst, Shared
<1>5. Cardinality(PathsTo(as, d)) = (IF d \in m_reachable[Provider] THEN 1 ELSE 0)
  <2>1. PathsTo(as, d) = Entries(m_path_list[as], d)
    BY DEF PathsTo, Entries
  <2>2. CASE d \in m_reachable[Provider]
    <3>1. PICK k : PathsTo(as, d) = {k}
      BY <1>1, <1>2, <1>3, <2>1, <2>2 DEF OnePathEach, OneEntry
    <3> QED
      BY <2>2, <3>1, FS_Singleton
  <2>3. CASE d \notin m_reachable[Provider]
    <3>1. PathsTo(as, d) = {}
      BY <1>1, <1>2, <1>4, <2>1, <2>3 DEF OnePathEach
    <3> QED
      BY <2>3, <3>1, FS_EmptySet
  <2> QED
    BY <2>2, <2>3
<1>6. ASSUME d \in m_reachable[Provider], NEW r \in Range(BorderRouters[as]),
             d \in DOMAIN in_use[r]
      PROVE  in_use[r][d]
  BY <1>1, <1>2, <1>3, <1>6 DEF FlagsSet, Shared
<1>7. d \notin m_reachable[Provider] => ~in_use[FirstRouter][d]
  BY <1>1, <1>2, <1>4 DEF EntranceShut
<1>8. d \in m_reachable[as] <=> d \in m_reachable[Provider]
  BY <1>2, <1>3, <1>4
<1>9. d \in m_reachable[Provider] =>
        \A r \in Range(BorderRouters[as]) : d \in DOMAIN in_use[r] => in_use[r][d]
  BY <1>6
<1> QED
  BY <1>5, <1>7, <1>8, <1>9 DEF AgreesOn

\* Between two calls every AS that is no host reaches what the provider reaches of the
\* newcomer, with one path each and its flags set, and where it reaches nothing the first
\* router is shut: in any network, and whatever order the search meets its ASes in.
THEOREM NetworkAgreement == Spec => []NetworkAgrees
<1>1. Init => NetworkInv
  BY NetworkInit
<1>2. NetworkInv /\ [Next]_vars => NetworkInv'
  BY NetworkNext
<1>3. NetworkInv => NetworkAgrees
  <2> SUFFICES ASSUME NetworkInv, Idle, NEW d \in Announced, NEW as \in ASes \ HostASes
               PROVE  AgreesOn(as, d)
    BY DEF NetworkAgrees, AgreesOn
  <2> QED
    BY Agreement
<1> QED
  BY <1>1, <1>2, <1>3, PTL DEF Spec

\* Although the flags are set one by one and without a lock, a frame that the first
\* router let in is lost only if a withdrawal was under way since.
THEOREM NothingLost == Spec => []AttachingLosesNothing
<1>1. Init => NetworkInv
  BY NetworkInit
<1>2. NetworkInv /\ [Next]_vars => NetworkInv'
  BY NetworkNext
<1>3. NetworkInv => AttachingLosesNothing
  BY DEF NetworkInv, FramesPass, AttachingLosesNothing
<1> QED
  BY <1>1, <1>2, <1>3, PTL DEF Spec

-----------------------------------------------------------------------------
(* The two flags of Membership.  Each is the conjunction of an AS's rows,  *)
(* which are written one by one; what is needed of a call half-way is that *)
(* the rows still to be written are as they were before it.                *)

Open(r) == in_use[r][Destination]
AtOnce(rows) == \A r, s \in rows : Open(r) = Open(s)

\* The rows of an AS still to be written.
Still(as) == {r \in RowsFor(as) : Pending(r, Destination)}

\* What is to be written is for one AS and one destination, and for each router once: in
\* a withdrawal the AS signalled and a destination it has erased.
OneBatch ==
  /\ \A j, k \in DOMAIN writes : writes[j].router = writes[k].router => j = k
  /\ writes # <<>> => \E as \in Plain : \E d \in Announced :
       /\ \A k \in DOMAIN writes : /\ writes[k].router \in Range(BorderRouters[as])
                                   /\ writes[k].dest = d
       /\ to_signal # <<>> => as = Head(to_signal) /\ d \notin to_erase

\* The ASes are signalled in the order of the list, each once.
SignalOrder ==
  /\ \A i, j \in DOMAIN to_signal : to_signal[i] = to_signal[j] => i = j
  /\ \A i \in DOMAIN to_signal : to_signal[i] = Entrance =>
       \E j \in DOMAIN to_signal : i < j /\ to_signal[j] = Provider

\* The provider has written its rows before the entrance hears of the destination.
ProviderWritesFirst ==
  to_signal = <<>> /\ Still(Provider) # {} => Destination \notin m_reachable[Entrance]

\* The rows of an AS were all alike before a call, and the written ones are.
Marching(as) ==
  /\ AtOnce(Still(as)) /\ AtOnce(RowsFor(as) \ Still(as))
  /\ Still(as) # {} => \A r \in RowsFor(as) \ Still(as) : Open(r) = (to_signal = <<>>)

BorderInv ==
  /\ NetworkInv /\ OneBatch /\ SignalOrder /\ ProviderWritesFirst
  /\ Marching(Provider) /\ Marching(Entrance)

\* The two ASes are different, and none of their rows is on a router of another AS.
LEMMA BorderFacts ==
  /\ Provider \in Plain /\ Entrance \in Plain /\ Provider # Entrance
  /\ Destination \in Announced
  /\ RowsFor(Provider) # {} /\ RowsFor(Entrance) # {}
  /\ \A a \in Plain : \A r \in RowsFor(a) :
       /\ r \in Range(BorderRouters[a]) /\ r \in Routers /\ Destination \in DOMAIN InitialRoutes[r]
       /\ \A b \in Plain : b # a => r \notin Range(BorderRouters[b])
<1>1. /\ Provider \in Plain /\ Entrance \in Plain /\ Destination \in Announced
      /\ RowsFor(Provider) # {} /\ RowsFor(Entrance) # {} /\ Provider # Entrance
  BY BorderAssumption, TopologyAssumption DEF Plain
<1>2. ASSUME NEW a \in Plain, NEW r \in RowsFor(a)
      PROVE  /\ r \in Range(BorderRouters[a]) /\ r \in Routers
             /\ Destination \in DOMAIN InitialRoutes[r]
  <2>1. BorderRouters[a] \in Seq(Routers)
    BY TopologyAssumption DEF Plain
  <2>2. r \in Range(BorderRouters[a]) /\ Destination \in DOMAIN InitialRoutes[r]
    BY DEF RowsFor
  <2>. QED  BY <2>1, <2>2 DEF Range
<1>3. ASSUME NEW a \in Plain, NEW r \in RowsFor(a), NEW b \in Plain, b # a
      PROVE  r \notin Range(BorderRouters[b])
  BY <1>2, <1>3, BorderAssumption DEF Plain
<1>. QED  BY <1>1, <1>2, <1>3

\* An AS writes each of its routers once.
LEMMA FlagsForOnce ==
  ASSUME NEW as \in Plain, NEW d, NEW v,
         NEW j \in DOMAIN FlagsFor(as, d, v), NEW k \in DOMAIN FlagsFor(as, d, v),
         FlagsFor(as, d, v)[j].router = FlagsFor(as, d, v)[k].router
  PROVE  j = k
<1>1. j \in DOMAIN BorderRouters[as] /\ k \in DOMAIN BorderRouters[as]
  BY DEF FlagsFor
<1>2. BorderRouters[as][j] = BorderRouters[as][k]
  BY <1>1 DEF FlagsFor
<1>3. IsInjective(BorderRouters[as])
  BY BorderAssumption DEF Plain
<1>. QED  BY <1>1, <1>2, <1>3 DEF IsInjective

\* A new batch is for all rows of one AS, or for another destination.
LEMMA NewBatch ==
  ASSUME writes = <<>>, NEW as \in Plain, NEW d \in Announced, NEW v \in BOOLEAN,
         writes' = FlagsFor(as, d, v)
  PROVE  /\ \A j, k \in DOMAIN writes' : writes'[j].router = writes'[k].router => j = k
         /\ \A k \in DOMAIN writes' : /\ writes'[k].router \in Range(BorderRouters[as])
                                      /\ writes'[k].dest = d
         /\ \A b : Still(b) = {}
         /\ \A b \in Plain : Still(b)' = IF b = as /\ d = Destination THEN RowsFor(b) ELSE {}
<1>1. AreFlagsOf(writes', as, d, v)
  BY FlagsForFacts DEF Plain
<1>2. \A j, k \in DOMAIN writes' : writes'[j].router = writes'[k].router => j = k
  BY FlagsForOnce
<1>3. /\ \A k \in DOMAIN writes' : /\ writes'[k].router \in Range(BorderRouters[as])
                                   /\ writes'[k].dest = d
      /\ \A r \in Range(BorderRouters[as]) : \E k \in DOMAIN writes' : writes'[k].router = r
  BY <1>1 DEF AreFlagsOf
<1>4. \A b : Still(b) = {}
  <2>1. \A r, e : ~Pending(r, e)
    BY NothingPending
  <2>. QED  BY <2>1 DEF Still
<1>5. \A r : Pending(r, Destination)' <=> r \in Range(BorderRouters[as]) /\ d = Destination
  BY <1>3 DEF Pending
<1>6. ASSUME NEW b \in Plain
      PROVE  Still(b)' = IF b = as /\ d = Destination THEN RowsFor(b) ELSE {}
  <2>1. \A r : r \in Still(b)' <=> r \in RowsFor(b) /\ r \in Range(BorderRouters[as]) /\ d = Destination
    BY <1>5 DEF Still
  <2>2. \A r \in RowsFor(b) : r \in Range(BorderRouters[as]) <=> b = as
    BY BorderFacts
  <2>. QED  BY <2>1, <2>2
<1>. QED  BY <1>2, <1>3, <1>4, <1>6

\* A new batch of an AS that has written all its rows before.
LEMMA BatchBorder ==
  ASSUME BorderInv, UNCHANGED <<in_use, to_signal>>, writes = <<>>,
         NEW as \in Plain, NEW d \in Announced, writes' = FlagsFor(as, d, to_signal = <<>>),
         to_signal # <<>> => as = Head(to_signal) /\ d \notin to_erase'
  PROVE  OneBatch' /\ SignalOrder' /\ Marching(Provider)' /\ Marching(Entrance)'
<1>1. /\ \A j, k \in DOMAIN writes' : writes'[j].router = writes'[k].router => j = k
      /\ \A k \in DOMAIN writes' : /\ writes'[k].router \in Range(BorderRouters[as])
                                   /\ writes'[k].dest = d
      /\ \A b : Still(b) = {}
      /\ \A b \in Plain : Still(b)' = IF b = as /\ d = Destination THEN RowsFor(b) ELSE {}
  <2>1. PICK v \in BOOLEAN : v = (to_signal = <<>>)
    OBVIOUS
  <2>2. writes' = FlagsFor(as, d, v)
    BY <2>1
  <2>. QED  BY <2>2, NewBatch
<1>2. OneBatch' /\ SignalOrder'
  BY <1>1 DEF OneBatch, SignalOrder, BorderInv
<1>3. ASSUME NEW b \in {Provider, Entrance} PROVE Marching(b)'
  <2>1. AtOnce(RowsFor(b))
    BY <1>1 DEF BorderInv, Marching
  <2>2. Still(b)' = RowsFor(b) \/ Still(b)' = {}
    BY <1>1, BorderFacts
  <2>. QED  BY <2>1, <2>2 DEF Marching, AtOnce, Open
<1>. QED  BY <1>2, <1>3

\* One row of the batch is written.
LEMMA RowWritten ==
  ASSUME BorderInv, WriteFlag
  PROVE  LET w == Head(writes)
             mine(r) == r = w.router /\ w.dest = Destination
         IN  /\ w.router \in Routers /\ w.dest \in Announced
             /\ w.dest = Destination => Pending(w.router, Destination)
             /\ \A r : Pending(r, Destination)' <=> Pending(r, Destination) /\ ~mine(r)
             /\ \A r \in Routers : Destination \in DOMAIN InitialRoutes[r] =>
                  Open(r)' = IF mine(r) THEN to_signal = <<>> ELSE Open(r)
<1>p1. PICK w : w = Head(writes)
  OBVIOUS
<1>1. /\ TypeOK /\ CallsApart /\ OneBatch
  BY DEF BorderInv, NetworkInv
<1>2. /\ Written(w) /\ 1 \in DOMAIN writes /\ w = writes[1]
      /\ \A r, e : Pending(r, e)' => Pending(r, e)
      /\ \A r, e : Pending(r, e) => Pending(r, e)' \/ (w.router = r /\ w.dest = e)
      /\ \A k \in DOMAIN writes' : writes'[k] = writes[k + 1] /\ k + 1 \in DOMAIN writes
  BY <1>p1, <1>1, WriteFlagFacts
<1>3. ~Pending(w.router, Destination)'
  <2>1. ASSUME NEW k \in DOMAIN writes', writes'[k].router = w.router PROVE FALSE
    <3>1. k + 1 = 1
      BY <1>1, <1>2, <2>1 DEF OneBatch
    <3>2. k \in Nat \ {0}
      <4>1. writes' \in Seq(FlagWrites)
        <5>1. writes \in Seq(FlagWrites) /\ writes # <<>> /\ writes' = Tail(writes)
          BY <1>1 DEF TypeOK, FlagWrites, WriteFlag
        <5>. QED  BY <5>1
      <4>. QED  BY <2>1, <4>1
    <3>. QED  BY <3>1, <3>2
  <2>. QED  BY <2>1 DEF Pending
<1>4. w.dest = Destination => Pending(w.router, Destination)
  BY <1>2 DEF Pending
<1>5. w.value = (to_signal = <<>>)
  BY <1>1, <1>2 DEF CallsApart
<1>6. \A r \in Routers : DOMAIN in_use[r] = DOMAIN InitialRoutes[r]
  BY <1>1 DEF TypeOK
<1>7. ASSUME NEW r \in Routers, Destination \in DOMAIN InitialRoutes[r]
      PROVE  Open(r)' = IF r = w.router /\ w.dest = Destination THEN to_signal = <<>> ELSE Open(r)
  <2>1. CASE r = w.router /\ w.dest = Destination
    BY <1>2, <1>5, <1>6, <1>7, <2>1 DEF Written, Open
  <2>2. CASE ~(r = w.router /\ w.dest = Destination)
    BY <1>2, <2>2 DEF Written, Open
  <2>. QED  BY <2>1, <2>2
<1>8. w.router \in Routers /\ w.dest \in Announced
  BY <1>2 DEF Written
<1>9. \A r : Pending(r, Destination)' <=>
              Pending(r, Destination) /\ ~(r = w.router /\ w.dest = Destination)
  BY <1>2, <1>3
<1>. QED  BY <1>p1, <1>4, <1>7, <1>8, <1>9

\* What a batch is for stays, and so does what its AS has written.
LEMMA WriteBorder ==
  ASSUME BorderInv, WriteFlag
  PROVE  OneBatch' /\ SignalOrder' /\ ProviderWritesFirst'
         /\ Marching(Provider)' /\ Marching(Entrance)'
<1>p1. PICK w : w = Head(writes)
  OBVIOUS
<1>1. /\ w.router \in Routers /\ w.dest \in Announced
      /\ w.dest = Destination => Pending(w.router, Destination)
      /\ \A r : Pending(r, Destination)' <=>
                  Pending(r, Destination) /\ ~(r = w.router /\ w.dest = Destination)
      /\ \A r \in Routers : Destination \in DOMAIN InitialRoutes[r] =>
           Open(r)' = IF r = w.router /\ w.dest = Destination THEN to_signal = <<>> ELSE Open(r)
  BY <1>p1, RowWritten
<1>2. UNCHANGED <<to_signal, to_erase, m_reachable>>
  BY DEF WriteFlag, bookkeeping
<1>3. OneBatch'
  <2>1. /\ \A k \in DOMAIN writes' : writes'[k] = writes[k + 1] /\ k + 1 \in DOMAIN writes
        /\ writes # <<>>
    BY WriteFlagFacts DEF BorderInv, NetworkInv, WriteFlag
  <2>2. DOMAIN writes' \subseteq Nat
    <3>1. writes' \in Seq(FlagWrites)
      <4>1. writes \in Seq(FlagWrites) /\ writes # <<>> /\ writes' = Tail(writes)
        BY DEF BorderInv, NetworkInv, TypeOK, FlagWrites, WriteFlag
      <4>. QED  BY <4>1
    <3>. QED  BY <3>1
  <2>3. ASSUME NEW j \in DOMAIN writes', NEW k \in DOMAIN writes',
               writes'[j].router = writes'[k].router
        PROVE  j = k
    <3>1. j + 1 = k + 1
      BY <2>1, <2>3 DEF BorderInv, OneBatch
    <3>. QED  BY <2>2, <3>1
  <2>4. PICK as \in Plain, d \in Announced :
          /\ \A k \in DOMAIN writes : /\ writes[k].router \in Range(BorderRouters[as])
                                      /\ writes[k].dest = d
          /\ to_signal # <<>> => as = Head(to_signal) /\ d \notin to_erase
    BY <2>1 DEF BorderInv, OneBatch
  <2>5. \A k \in DOMAIN writes' : /\ writes'[k].router \in Range(BorderRouters[as])
                                  /\ writes'[k].dest = d
    BY <2>1, <2>4
  <2>. QED  BY <1>2, <2>3, <2>4, <2>5 DEF OneBatch
<1>4. SignalOrder'
  BY <1>2 DEF BorderInv, SignalOrder
<1>5. ASSUME NEW b \in {Provider, Entrance} PROVE Marching(b)' /\ Still(b)' \subseteq Still(b)
  <2>1. \A r \in RowsFor(b) : r \in Routers /\ Destination \in DOMAIN InitialRoutes[r]
    BY BorderFacts
  <2>2. \A r : r \in Still(b)' <=>
                 r \in Still(b) /\ ~(r = w.router /\ w.dest = Destination)
    BY <1>1 DEF Still
  <2>3. \A r \in Still(b)' : Open(r)' = Open(r) /\ r \in Still(b)
    BY <1>1, <2>1, <2>2 DEF Still
  <2>4. Marching(b)
    BY DEF BorderInv
  <2>5. ASSUME NEW r \in RowsFor(b), r \notin Still(b)', Still(b) # {}
        PROVE  Open(r)' = (to_signal = <<>>)
    <3>1. CASE r = w.router /\ w.dest = Destination
      BY <1>1, <2>1, <3>1
    <3>2. CASE ~(r = w.router /\ w.dest = Destination)
      <4>1. Open(r)' = Open(r)
        BY <1>1, <2>1, <3>2
      <4>2. r \notin Still(b)
        BY <2>2, <2>5, <3>2
      <4>. QED  BY <2>4, <2>5, <4>1, <4>2 DEF Marching
    <3>. QED  BY <3>1, <3>2
  <2>6. CASE Still(b) # {}
    <3>1. AtOnce(Still(b))'
      BY <2>3, <2>4 DEF Marching, AtOnce
    <3>2. AtOnce(RowsFor(b) \ Still(b))'
      BY <2>5, <2>6 DEF AtOnce
    <3>3. \A r \in RowsFor(b) \ Still(b)' : Open(r)' = (to_signal' = <<>>)
      BY <1>2, <2>5, <2>6
    <3>. QED  BY <2>3, <3>1, <3>2, <3>3 DEF Marching
  <2>7. CASE Still(b) = {}
    <3>1. Still(b)' = {}
      BY <2>2, <2>7
    <3>2. \A r \in RowsFor(b) : Open(r)' = Open(r)
      <4>1. ASSUME NEW r \in RowsFor(b) PROVE ~(r = w.router /\ w.dest = Destination)
        BY <1>1, <2>7 DEF Still
      <4>. QED  BY <1>1, <2>1, <4>1
    <3>3. AtOnce(RowsFor(b))'
      BY <2>4, <2>7, <3>2 DEF Marching, AtOnce
    <3>. QED  BY <3>1, <3>3 DEF Marching, AtOnce
  <2>. QED  BY <2>3, <2>6, <2>7
<1>6. ProviderWritesFirst'
  BY <1>2, <1>5 DEF BorderInv, ProviderWritesFirst
<1>. QED  BY <1>3, <1>4, <1>5, <1>6

\* No flag is under way when the calls of hookUpRequest and withdrawl change hands.
LEMMA SignalBorder ==
  ASSUME BorderInv, Withdrawl \/ SignalNext
  PROVE  OneBatch' /\ SignalOrder' /\ ProviderWritesFirst'
         /\ Marching(Provider)' /\ Marching(Entrance)'
<1>1. /\ writes = <<>> /\ writes' = <<>> /\ UNCHANGED <<in_use, m_reachable>>
      /\ to_signal' = ASList \/ (to_signal # <<>> /\ to_signal' = Tail(to_signal))
  BY DEF Withdrawl, SignalNext, Idle, bookkeeping
<1>2. \A b : Still(b) = {} /\ Still(b)' = {}
  <2>1. \A r, e : ~Pending(r, e) /\ ~Pending(r, e)'
    BY <1>1 DEF Pending
  <2>. QED  BY <2>1 DEF Still
<1>3. OneBatch'
  BY <1>1 DEF OneBatch
<1>4. SignalOrder'
  <2>1. CASE to_signal' = ASList
    BY <2>1, BorderAssumption DEF SignalOrder, IsInjective
  <2>2. CASE to_signal # <<>> /\ to_signal' = Tail(to_signal)
    <3>1. to_signal \in Seq(ASes)
      BY DEF BorderInv, NetworkInv, TypeOK
    <3>2. /\ \A k \in DOMAIN to_signal' : /\ to_signal'[k] = to_signal[k + 1]
                                          /\ k + 1 \in DOMAIN to_signal /\ k \in Nat
          /\ \A k \in DOMAIN to_signal : k \in Nat /\ (k > 1 => k - 1 \in DOMAIN to_signal')
      BY <2>2, <3>1
    <3>3. ASSUME NEW i \in DOMAIN to_signal', NEW j \in DOMAIN to_signal',
                 to_signal'[i] = to_signal'[j]
          PROVE  i = j
      <4>1. i + 1 = j + 1
        BY <3>2, <3>3 DEF BorderInv, SignalOrder
      <4>. QED  BY <3>2, <4>1
    <3>4. ASSUME NEW i \in DOMAIN to_signal', to_signal'[i] = Entrance
          PROVE  \E j \in DOMAIN to_signal' : i < j /\ to_signal'[j] = Provider
      <4>1. PICK k \in DOMAIN to_signal : i + 1 < k /\ to_signal[k] = Provider
        BY <3>2, <3>4 DEF BorderInv, SignalOrder
      <4>2. k \in Nat /\ i \in Nat /\ k > 1
        BY <3>2, <4>1
      <4>3. k - 1 \in DOMAIN to_signal'
        BY <3>2, <4>2
      <4>4. to_signal'[k - 1] = to_signal[(k - 1) + 1]
        BY <3>2, <4>3
      <4>5. (k - 1) + 1 = k /\ i < k - 1
        BY <4>1, <4>2
      <4>. QED  BY <4>1, <4>3, <4>4, <4>5
    <3>. QED  BY <3>3, <3>4 DEF SignalOrder
  <2>. QED  BY <1>1, <2>1, <2>2
<1>5. ASSUME NEW b \in {Provider, Entrance} PROVE Marching(b)'
  BY <1>1, <1>2 DEF BorderInv, Marching, AtOnce, Open
<1>. QED  BY <1>2, <1>3, <1>4, <1>5 DEF ProviderWritesFirst

\* A destination is told to the entrance only after the provider's rows are written.
LEMMA AnnounceBorder ==
  ASSUME BorderInv, NEW dest \in Announced,
         Announce(dest) \/ WithdrawalSignal(dest) \/ BroadcastUpdate
  PROVE  OneBatch' /\ SignalOrder' /\ ProviderWritesFirst'
         /\ Marching(Provider)' /\ Marching(Entrance)'
<1>0. /\ TypeOK /\ CallsApart /\ ProviderFirst
  BY DEF BorderInv, NetworkInv
<1>1. CASE Announce(dest)
  <2>1. /\ writes = <<>> /\ UNCHANGED <<in_use, to_signal, to_erase>> /\ dest \in to_announce
        /\ writes' = FlagsFor(Provider, dest, TRUE)
        /\ m_reachable' = [m_reachable EXCEPT ![Provider] = @ \cup {dest}]
    BY <1>1 DEF Announce
  <2>2. to_signal = <<>> /\ dest \notin m_reachable[Provider]
    BY <1>0, <2>1 DEF CallsApart, ProviderFirst
  <2>3. writes' = FlagsFor(Provider, dest, to_signal = <<>>)
    BY <2>1, <2>2
  <2>4. OneBatch' /\ SignalOrder' /\ Marching(Provider)' /\ Marching(Entrance)'
    BY <2>1, <2>2, <2>3, BatchBorder, BorderFacts
  <2>5. ASSUME Still(Provider)' # {} PROVE Destination \notin m_reachable'[Entrance]
    <3>1. dest = Destination
      BY <2>1, <2>5, NewBatch, BorderFacts
    <3>2. Destination \notin m_reachable[Entrance]
      BY <1>0, <2>2, <3>1, BorderFacts DEF ProviderFirst, Shared
    <3>3. m_reachable'[Entrance] = m_reachable[Entrance]
      BY <1>0, <2>1, BorderFacts DEF TypeOK, Plain
    <3>. QED  BY <3>2, <3>3
  <2>. QED  BY <2>4, <2>5 DEF ProviderWritesFirst
<1>2. CASE WithdrawalSignal(dest)
  <2>1. PICK as : as = Head(to_signal)
    OBVIOUS
  <2>2. /\ writes = <<>> /\ UNCHANGED <<in_use, to_signal>> /\ to_signal # <<>> /\ Reacts(as)
        /\ to_erase' = to_erase \ {dest} /\ writes' = FlagsFor(as, dest, FALSE)
    BY <1>2, <2>1 DEF WithdrawalSignal
  <2>3. as \in Plain
    <3>1. to_signal \in Seq(ASes)
      BY <1>0 DEF TypeOK
    <3>2. as \in ASes
      BY <2>1, <2>2, <3>1
    <3>. QED  BY <2>2, <3>2 DEF Reacts, Plain
  <2>4. writes' = FlagsFor(as, dest, to_signal = <<>>) /\ dest \notin to_erase'
    BY <2>2
  <2>5. OneBatch' /\ SignalOrder' /\ Marching(Provider)' /\ Marching(Entrance)'
    BY <2>1, <2>2, <2>3, <2>4, BatchBorder
  <2>. QED  BY <2>2, <2>5 DEF ProviderWritesFirst
<1>3. CASE BroadcastUpdate
  <2>1. PICK as, d : as = Head(as_queue).to /\ d = Head(as_queue).dest
    OBVIOUS
  <2>2. /\ writes = <<>> /\ UNCHANGED <<in_use, to_signal, to_erase>> /\ as_queue # <<>>
        /\ as \notin HostASes /\ d \notin m_reachable[as] /\ writes' = FlagsFor(as, d, TRUE)
    BY <1>3, <2>1 DEF BroadcastUpdate
  <2>3. as \in Plain /\ d \in Announced /\ to_signal = <<>> /\ d \in m_reachable[Provider]
    <3>1. as_queue \in Seq(Updates)
      BY <1>0 DEF TypeOK, Updates
    <3>2. Head(as_queue) \in Updates /\ 1 \in DOMAIN as_queue /\ Head(as_queue) = as_queue[1]
      BY <2>2, <3>1, TailFacts
    <3>. QED  BY <1>0, <2>1, <2>2, <3>2 DEF Updates, Plain, CallsApart, ProviderFirst
  <2>4. writes' = FlagsFor(as, d, to_signal = <<>>)
    BY <2>2, <2>3
  <2>5. OneBatch' /\ SignalOrder' /\ Marching(Provider)' /\ Marching(Entrance)'
    BY <2>2, <2>3, <2>4, BatchBorder
  <2>6. Still(Provider)' = {}
    <3>1. as # Provider
      BY <2>2, <2>3
    <3>. QED  BY <2>2, <2>3, <3>1, NewBatch, BorderFacts
  <2>. QED  BY <2>5, <2>6 DEF ProviderWritesFirst
<1>. QED  BY <1>1, <1>2, <1>3

borderVars == <<in_use, m_reachable, to_signal, to_erase, writes>>

\* Frames, and what an AS does with news it has already, touch no flag.
LEMMA QuietSteps ==
  ASSUME \/ HookUpRequest \/ IgnoreUpdate \/ UNCHANGED vars
         \/ \E dest \in Announced : SendFrame(dest)
         \/ \E k \in DOMAIN frames : RouteFrame(k)
  PROVE  UNCHANGED borderVars
BY DEF HookUpRequest, IgnoreUpdate, SendFrame, RouteFrame, vars, bookkeeping, work, borderVars

LEMMA BorderInit == Init => BorderInv
<1>. SUFFICES ASSUME Init PROVE BorderInv
  OBVIOUS
<1>1. NetworkInv
  BY NetworkInit
<1>2. \A i \in DOMAIN <<>> : FALSE
  BY SMT
<1>3. writes = <<>> /\ to_signal = <<>> /\ in_use = InitialRoutes
  BY DEF Init
<1>4. \A b : Still(b) = {}
  <2>1. \A r, e : ~Pending(r, e)
    BY <1>3, NothingPending
  <2>. QED  BY <2>1 DEF Still
<1>5. ASSUME NEW b \in {Provider, Entrance} PROVE Marching(b)
  <2>1. \A r \in RowsFor(b) : InitialRoutes[r][Destination] \in BOOLEAN
    BY BorderFacts, WayAssumption
  <2>2. \/ \A r \in RowsFor(b) : InitialRoutes[r][Destination]
        \/ \A r \in RowsFor(b) : ~InitialRoutes[r][Destination]
    BY BorderAssumption
  <2>3. \A r, s \in RowsFor(b) : InitialRoutes[r][Destination] = InitialRoutes[s][Destination]
    BY <2>1, <2>2
  <2>. QED  BY <1>3, <1>4, <2>3 DEF Marching, AtOnce, Open
<1>. QED  BY <1>1, <1>2, <1>3, <1>4, <1>5
     DEF BorderInv, OneBatch, SignalOrder, ProviderWritesFirst

LEMMA BorderNext == BorderInv /\ [Next]_vars => BorderInv'
<1>. SUFFICES ASSUME BorderInv, [Next]_vars PROVE BorderInv'
  OBVIOUS
<1>1. NetworkInv'
  BY NetworkNext DEF BorderInv
<1>2. CASE WriteFlag
  BY <1>1, <1>2, WriteBorder DEF BorderInv
<1>3. CASE Withdrawl \/ SignalNext
  BY <1>1, <1>3, SignalBorder DEF BorderInv
<1>4. ASSUME NEW dest \in Announced, Announce(dest) \/ WithdrawalSignal(dest) PROVE BorderInv'
  BY <1>1, <1>4, AnnounceBorder DEF BorderInv
<1>5. CASE BroadcastUpdate
  BY <1>1, <1>5, AnnounceBorder, BorderFacts DEF BorderInv
<1>6. CASE UNCHANGED borderVars
  BY <1>1, <1>6 DEF BorderInv, borderVars, OneBatch, SignalOrder, ProviderWritesFirst, Marching,
                    AtOnce, Open, Still, Pending
<1>. QED  BY <1>2, <1>3, <1>4, <1>5, <1>6, QuietSteps DEF Next, MainThread

-----------------------------------------------------------------------------
(* What Membership sees of a state.                                        *)

ChangesAre ==
  LET setP == StillToSet(Provider)    setE == StillToSet(Entrance)
      clrP == StillToClear(Provider)  clrE == StillToClear(Entrance)
  IN  /\ ~setP /\ ~setE /\ ~clrE /\ ~clrP => StillToChange = <<>>
      /\ setP /\ setE /\ ~clrE /\ ~clrP => StillToChange = <<<<"AS4", TRUE>>, <<"AS1", TRUE>>>>
      /\ ~setP /\ setE /\ ~clrE /\ ~clrP => StillToChange = <<<<"AS1", TRUE>>>>
      /\ ~setP /\ ~setE /\ clrE /\ clrP => StillToChange = <<<<"AS1", FALSE>>, <<"AS4", FALSE>>>>
      /\ ~setP /\ ~setE /\ ~clrE /\ clrP => StillToChange = <<<<"AS4", FALSE>>>>

LEMMA ChangesBefore == ChangesAre
<1>1. \A a, b : /\ <<>> \o <<>> \o <<>> \o <<>> = <<>>
                /\ <<a>> \o <<b>> \o <<>> \o <<>> = <<a, b>>
                /\ <<>> \o <<b>> \o <<>> \o <<>> = <<b>>
                /\ <<>> \o <<>> \o <<a>> \o <<b>> = <<a, b>>
                /\ <<>> \o <<>> \o <<>> \o <<b>> = <<b>>
  <2>. TAKE a, b
  <2>1. <<>> \o <<>> = <<>>
    BY SMT
  <2>2. <<>> \o <<b>> = <<b>> /\ <<b>> \o <<>> = <<b>>
    BY SMT
  <2>3. <<>> \o <<a>> = <<a>>
    BY SMT
  <2>5. <<a>> \o <<b>> = <<a, b>>
    <3>1. PICK S, s, t, st : S = {a, b} /\ s = <<a>> /\ t = <<b>> /\ st = s \o t
      OBVIOUS
    <3>2. s \in Seq(S) /\ t \in Seq(S) /\ Len(s) = 1 /\ Len(t) = 1 /\ s[1] = a /\ t[1] = b
      BY <3>1
    <3>3. /\ st \in Seq(S) /\ Len(st) = 2
          /\ \A i \in 1..2 : st[i] = IF i <= 1 THEN s[i] ELSE t[i - 1]
      <4>1. /\ s \o t \in Seq(S) /\ Len(s \o t) = Len(s) + Len(t)
            /\ \A i \in 1..(Len(s) + Len(t)) :
                 (s \o t)[i] = IF i <= Len(s) THEN s[i] ELSE t[i - Len(s)]
        BY <3>2, ConcatProperties
      <4>. QED  BY <3>1, <3>2, <4>1
    <3>4. st = [i \in 1..2 |-> st[i]] /\ st[1] = a /\ st[2] = b
      BY <3>2, <3>3
    <3>5. <<a, b>> = [i \in 1..2 |-> IF i = 1 THEN a ELSE b]
      BY SMT
    <3>6. \A i \in 1..2 : st[i] = IF i = 1 THEN a ELSE b
      BY <3>4
    <3>7. st = [i \in 1..2 |-> IF i = 1 THEN a ELSE b]
      BY <3>4, <3>6
    <3>. QED  BY ONLY <3>1, <3>5, <3>7
  <2>4. <<a, b>> \o <<>> = <<a, b>>
    BY SMT
  <2>. QED  BY <2>1, <2>2, <2>3, <2>4, <2>5, Zenon
<1>. QED  BY <1>1, Zenon DEF ChangesAre, StillToChange, OneIf

LEMMA ChangesAfter == ChangesAre'
BY ChangesBefore, PTL

\* A change of one flag, the first of what is left to change.
Begins(left, a, v, rest) ==
  left # <<>> /\ Head(left)[1] = a /\ Head(left)[2] = v /\ Tail(left) = rest

LEMMA FirstChange ==
  ASSUME NEW a, NEW v, NEW b
  PROVE  Begins(<<<<a, v>>, b>>, a, v, <<b>>) /\ Begins(<<<<a, v>>>>, a, v, <<>>)
<1>1. PICK x : x = <<a, v>>
  OBVIOUS
<1>2. x[1] = a /\ x[2] = v
  BY <1>1
<1>3. <<x, b>> # <<>> /\ Tail(<<x, b>>) = <<b>> /\ Head(<<x, b>>) = x
  BY SMT
<1>4. <<x>> # <<>> /\ Tail(<<x>>) = <<>> /\ Head(<<x>>) = x
  BY SMT
<1>. QED  BY <1>1, <1>2, <1>3, <1>4, Zenon DEF Begins

LEMMA FlagOrders ==
  /\ Begins(<<<<"AS4", TRUE>>, <<"AS1", TRUE>>>>, "AS4", TRUE, <<<<"AS1", TRUE>>>>)
  /\ Begins(<<<<"AS1", TRUE>>>>, "AS1", TRUE, <<>>)
  /\ Begins(<<<<"AS1", FALSE>>, <<"AS4", FALSE>>>>, "AS1", FALSE, <<<<"AS4", FALSE>>>>)
  /\ Begins(<<<<"AS4", FALSE>>>>, "AS4", FALSE, <<>>)
BY FirstChange, Zenon

\* A step Membership does not see.
LEMMA SameFlags ==
  ASSUME Passes(Provider)' = Passes(Provider), Passes(Entrance)' = Passes(Entrance),
         Attached' = Attached,
         StillToSet(Provider)' = StillToSet(Provider),
         StillToSet(Entrance)' = StillToSet(Entrance),
         StillToClear(Provider)' = StillToClear(Provider),
         StillToClear(Entrance)' = StillToClear(Entrance)
  PROVE  UNCHANGED Flags!membership
<1>1. StillToChange' = StillToChange
  BY DEF StillToChange, OneIf
<1>2. BorderInUse' = BorderInUse
  BY DEF BorderInUse
<1>. QED  BY <1>1, <1>2 DEF Flags!membership

\* Which writes are left, by the kind of call that is under way.
LEMMA WritesLeft ==
  ASSUME TypeOK, CallsApart, NEW as \in Plain, NEW v \in BOOLEAN
  PROVE  StillToWrite(as, v) = IF v = (to_signal = <<>>) THEN Still(as) ELSE {}
<1>1. ASSUME NEW r, NEW k \in DOMAIN writes
      PROVE  writes[k] = [router |-> r, dest |-> Destination, value |-> v] <=>
               /\ writes[k].router = r /\ writes[k].dest = Destination
               /\ v = (to_signal = <<>>)
  <2>1. writes \in Seq(FlagWrites)
    BY DEF TypeOK, FlagWrites
  <2>2. writes[k] \in FlagWrites /\ writes[k].value = (to_signal = <<>>)
    BY <2>1 DEF CallsApart
  <2>3. writes[k] = [router |-> writes[k].router, dest |-> writes[k].dest,
                     value |-> writes[k].value]
    BY <2>2 DEF FlagWrites
  <2>. QED  BY <2>2, <2>3
<1>2. \A r : (\E k \in DOMAIN writes :
                writes[k] = [router |-> r, dest |-> Destination, value |-> v]) <=>
             Pending(r, Destination) /\ v = (to_signal = <<>>)
  BY <1>1 DEF Pending
<1>. QED  BY <1>2 DEF StillToWrite, Still

\* What is left to change, without the writes of the other kind of call.
ShownOf(as) ==
  /\ to_signal = <<>> =>
       /\ ~StillToClear(as)
       /\ Attached <=> Destination \in m_reachable[Provider]
       /\ StillToSet(as) <=> /\ Destination \in m_reachable[Provider]
                             /\ Destination \notin m_reachable[as] \/ Still(as) # {}
  /\ to_signal # <<>> =>
       /\ ~Attached /\ ~StillToSet(as)
       /\ StillToClear(as) <=> \/ as \in Range(Tail(to_signal))
                               \/ as = Head(to_signal) /\ Destination \in to_erase
                               \/ Still(as) = RowsFor(as)

BorderShown == \A as \in {Provider, Entrance} : ShownOf(as)

LEMMA ShownNow ==
  ASSUME BorderInv, NEW as \in {Provider, Entrance}
  PROVE  ShownOf(as)
<1>1. as \in Plain /\ RowsFor(as) # {} /\ Provider \in Plain /\ Destination \in Announced
  BY BorderFacts
<1>2. /\ StillToWrite(as, TRUE) = IF to_signal = <<>> THEN Still(as) ELSE {}
      /\ StillToWrite(as, FALSE) = IF to_signal = <<>> THEN {} ELSE Still(as)
  <2>1. /\ StillToWrite(as, TRUE) = IF TRUE = (to_signal = <<>>) THEN Still(as) ELSE {}
        /\ StillToWrite(as, FALSE) = IF FALSE = (to_signal = <<>>) THEN Still(as) ELSE {}
    BY <1>1, WritesLeft DEF BorderInv, NetworkInv
  <2>. QED  BY <2>1
<1>3. ASSUME to_signal = <<>> PROVE Provider \notin Range(to_signal)
  BY <1>3, NothingInEmpty
<1>4. ASSUME to_signal # <<>> PROVE ~Attached
  <2>1. Range(to_signal) = Range(Tail(to_signal)) \cup {Head(to_signal)}
    <3>1. to_signal \in Seq(ASes)
      BY DEF BorderInv, NetworkInv, TypeOK
    <3>. QED  BY <1>4, <3>1, TailFacts
  <2>. QED  BY <1>1, <1>4, <2>1 DEF Attached, BorderInv, NetworkInv, Erased, Shared
<1>. QED  BY <1>1, <1>2, <1>3, <1>4 DEF ShownOf, Attached, StillToSet, StillToClear

LEMMA BorderShows == BorderInv => BorderShown
BY ShownNow DEF BorderShown

LEMMA BorderShowsNext == BorderInv' => BorderShown'
BY BorderShows, PTL

\* What the mapping shows is true or false.
LEMMA Truths ==
  /\ Attached \in BOOLEAN /\ Attached' \in BOOLEAN
  /\ \A as : /\ StillToSet(as) \in BOOLEAN /\ StillToSet(as)' \in BOOLEAN
             /\ StillToClear(as) \in BOOLEAN /\ StillToClear(as)' \in BOOLEAN
             /\ Passes(as) \in BOOLEAN /\ Passes(as)' \in BOOLEAN
BY DEF Attached, StillToSet, StillToClear, Passes

\* One flag is written.
LEMMA FlagSet ==
  ASSUME NEW v
  PROVE  /\ Passes(Entrance)' = Passes(Entrance) /\ Passes(Provider)' = v
              => BorderInUse' = [BorderInUse EXCEPT !["AS4"] = v]
         /\ Passes(Provider)' = Passes(Provider) /\ Passes(Entrance)' = v
              => BorderInUse' = [BorderInUse EXCEPT !["AS1"] = v]
BY DEF BorderInUse

LEMMA QuietShown == UNCHANGED borderVars => UNCHANGED Flags!membership
BY DEF borderVars, Flags!membership, StillToChange, BorderInUse, Attached, StillToSet,
       StillToClear, StillToWrite, Passes

FlagStep == Flags!MembershipNext \/ UNCHANGED Flags!membership

\* The round for the destination is the HookUpRequest of Membership.
LEMMA AnnounceShown ==
  ASSUME BorderInv, BorderInv', NEW dest \in Announced, Announce(dest)
  PROVE  FlagStep
<1>1. /\ TypeOK /\ CallsApart /\ ProviderFirst /\ BorderShown /\ BorderShown'
      /\ Provider \in Plain /\ Entrance \in Plain /\ Provider # Entrance
      /\ RowsFor(Provider) # {} /\ Destination \in Announced
  BY BorderShows, BorderShowsNext, BorderFacts DEF BorderInv, NetworkInv
<1>2. /\ writes = <<>> /\ UNCHANGED <<in_use, to_signal, to_erase>> /\ dest \in to_announce
      /\ writes' = FlagsFor(Provider, dest, TRUE)
      /\ m_reachable' = [m_reachable EXCEPT ![Provider] = @ \cup {dest}]
  BY DEF Announce
<1>3. to_signal = <<>> /\ to_signal' = <<>> /\ dest \notin m_reachable[Provider]
  BY <1>1, <1>2 DEF CallsApart, ProviderFirst
<1>4. /\ Still(Provider) = {} /\ Still(Entrance) = {} /\ Still(Entrance)' = {}
      /\ Still(Provider)' = IF dest = Destination THEN RowsFor(Provider) ELSE {}
  <2>1. /\ \A b : Still(b) = {}
        /\ \A b \in Plain : Still(b)' = IF b = Provider /\ dest = Destination THEN RowsFor(b) ELSE {}
    <3>1. /\ writes = <<>> /\ Provider \in Plain /\ dest \in Announced /\ TRUE \in BOOLEAN
          /\ writes' = FlagsFor(Provider, dest, TRUE)
      BY <1>1, <1>2
    <3>. QED  BY ONLY <3>1, NewBatch
  <2>. QED  BY <1>1, <2>1
<1>5. /\ m_reachable'[Provider] = m_reachable[Provider] \cup {dest}
      /\ m_reachable'[Entrance] = m_reachable[Entrance]
  BY <1>1, <1>2 DEF TypeOK, Plain
<1>6. /\ \A as : Passes(as)' = Passes(as)
      /\ BorderInUse' = BorderInUse
  BY <1>2 DEF Passes, BorderInUse
<1>7. /\ Attached <=> Destination \in m_reachable[Provider]
      /\ Attached' <=> Destination \in m_reachable'[Provider]
      /\ ~StillToClear(Provider) /\ ~StillToClear(Entrance)
      /\ ~StillToClear(Provider)' /\ ~StillToClear(Entrance)'
      /\ StillToSet(Provider) <=> /\ Destination \in m_reachable[Provider]
                                  /\ Destination \notin m_reachable[Provider] \/ Still(Provider) # {}
      /\ StillToSet(Entrance) <=> /\ Destination \in m_reachable[Provider]
                                  /\ Destination \notin m_reachable[Entrance] \/ Still(Entrance) # {}
      /\ StillToSet(Provider)' <=> /\ Destination \in m_reachable'[Provider]
                                   /\ Destination \notin m_reachable'[Provider] \/ Still(Provider)' # {}
      /\ StillToSet(Entrance)' <=> /\ Destination \in m_reachable'[Provider]
                                   /\ Destination \notin m_reachable'[Entrance] \/ Still(Entrance)' # {}
  BY <1>1, <1>3 DEF BorderShown, ShownOf
<1>8. CASE dest # Destination
  <2>1. /\ Attached' = Attached
        /\ StillToSet(Provider)' = StillToSet(Provider)
        /\ StillToSet(Entrance)' = StillToSet(Entrance)
        /\ StillToClear(Provider)' = StillToClear(Provider)
        /\ StillToClear(Entrance)' = StillToClear(Entrance)
    BY <1>4, <1>5, <1>7, <1>8, Truths
  <2>. QED  BY <1>6, <2>1, SameFlags DEF FlagStep
<1>9. CASE dest = Destination
  <2>1. Destination \notin m_reachable[Entrance]
    BY <1>1, <1>3, <1>9 DEF ProviderFirst, Shared
  <2>2. /\ ~Attached /\ ~StillToSet(Provider) /\ ~StillToSet(Entrance)
        /\ Attached' /\ StillToSet(Provider)' /\ StillToSet(Entrance)'
    BY <1>1, <1>3, <1>4, <1>5, <1>7, <1>9, <2>1
  <2>3. StillToChange = <<>>
    BY <1>7, <2>2, ChangesBefore DEF ChangesAre
  <2>4. StillToChange' = <<<<"AS4", TRUE>>, <<"AS1", TRUE>>>>
    BY <1>7, <2>2, ChangesAfter DEF ChangesAre
  <2>5. Attached' = TRUE
    BY <2>2, Truths
  <2>. QED  BY <1>6, <2>2, <2>3, <2>4, <2>5
       DEF FlagStep, Flags!MembershipNext, Flags!HookUpRequest, Flags!Change, Flags!HookUpOrder
<1>. QED  BY <1>8, <1>9

\* The entrance hears of the destination, as it was to.
LEMMA BroadcastShown ==
  ASSUME BorderInv, BorderInv', BroadcastUpdate
  PROVE  FlagStep
<1>0. PICK as, d : as = Head(as_queue).to /\ d = Head(as_queue).dest
  OBVIOUS
<1>1. /\ TypeOK /\ CallsApart /\ ProviderFirst /\ BorderShown /\ BorderShown'
      /\ Provider \in Plain /\ Entrance \in Plain /\ Provider # Entrance
      /\ RowsFor(Entrance) # {} /\ Destination \in Announced
  BY BorderShows, BorderShowsNext, BorderFacts DEF BorderInv, NetworkInv
<1>2. /\ writes = <<>> /\ UNCHANGED <<in_use, to_signal, to_erase>> /\ as_queue # <<>>
      /\ as \notin HostASes /\ d \notin m_reachable[as] /\ writes' = FlagsFor(as, d, TRUE)
      /\ m_reachable' = [m_reachable EXCEPT ![as] = @ \cup {d}]
  BY <1>0 DEF BroadcastUpdate
<1>3. as \in Plain /\ d \in Announced /\ to_signal = <<>> /\ d \in m_reachable[Provider]
  <2>1. as_queue \in Seq(Updates)
    BY <1>1 DEF TypeOK, Updates
  <2>2. Head(as_queue) \in Updates /\ 1 \in DOMAIN as_queue /\ Head(as_queue) = as_queue[1]
    BY <1>2, <2>1, TailFacts
  <2>. QED  BY <1>0, <1>1, <1>2, <2>2 DEF Updates, Plain, CallsApart, ProviderFirst
<1>4. /\ Still(Provider) = {} /\ Still(Entrance) = {} /\ Still(Provider)' = {}
      /\ Still(Entrance)' = IF as = Entrance /\ d = Destination THEN RowsFor(Entrance) ELSE {}
  <2>1. /\ \A b : Still(b) = {}
        /\ \A b \in Plain : Still(b)' = IF b = as /\ d = Destination THEN RowsFor(b) ELSE {}
    <3>1. /\ writes = <<>> /\ as \in Plain /\ d \in Announced /\ TRUE \in BOOLEAN
          /\ writes' = FlagsFor(as, d, TRUE)
      BY <1>2, <1>3
    <3>. QED  BY ONLY <3>1, NewBatch
  <2>2. as # Provider
    BY <1>2, <1>3
  <2>. QED  BY <1>1, <2>1, <2>2
<1>5. /\ m_reachable'[Provider] = m_reachable[Provider]
      /\ m_reachable'[Entrance] = IF as = Entrance THEN m_reachable[Entrance] \cup {d}
                                  ELSE m_reachable[Entrance]
  <2>1. as \in DOMAIN m_reachable /\ Provider \in DOMAIN m_reachable /\ Entrance \in DOMAIN m_reachable
    BY <1>1, <1>3 DEF TypeOK, Plain
  <2>2. as # Provider
    BY <1>2, <1>3
  <2>. QED  BY <1>2, <2>1, <2>2
<1>6. \A b : Passes(b)' = Passes(b)
  BY <1>2 DEF Passes
<1>7. /\ Attached <=> Destination \in m_reachable[Provider]
      /\ Attached' <=> Destination \in m_reachable'[Provider]
      /\ ~StillToClear(Provider) /\ ~StillToClear(Entrance)
      /\ ~StillToClear(Provider)' /\ ~StillToClear(Entrance)'
      /\ StillToSet(Provider) <=> /\ Destination \in m_reachable[Provider]
                                  /\ Destination \notin m_reachable[Provider] \/ Still(Provider) # {}
      /\ StillToSet(Entrance) <=> /\ Destination \in m_reachable[Provider]
                                  /\ Destination \notin m_reachable[Entrance] \/ Still(Entrance) # {}
      /\ StillToSet(Provider)' <=> /\ Destination \in m_reachable'[Provider]
                                   /\ Destination \notin m_reachable'[Provider] \/ Still(Provider)' # {}
      /\ StillToSet(Entrance)' <=> /\ Destination \in m_reachable'[Provider]
                                   /\ Destination \notin m_reachable'[Entrance] \/ Still(Entrance)' # {}
  BY <1>1, <1>2, <1>3 DEF BorderShown, ShownOf
<1>8. StillToSet(Entrance)' <=> StillToSet(Entrance)
  <2>1. CASE as = Entrance /\ d = Destination
    BY <1>1, <1>2, <1>4, <1>5, <1>7, <2>1
  <2>2. CASE as = Entrance /\ d # Destination
    BY <1>4, <1>5, <1>7, <2>2
  <2>3. CASE as # Entrance
    BY <1>4, <1>5, <1>7, <2>3
  <2>. QED  BY <2>1, <2>2, <2>3
<1>9. /\ Attached' = Attached
      /\ StillToSet(Provider)' = StillToSet(Provider)
      /\ StillToSet(Entrance)' = StillToSet(Entrance)
      /\ StillToClear(Provider)' = StillToClear(Provider)
      /\ StillToClear(Entrance)' = StillToClear(Entrance)
  BY <1>4, <1>5, <1>7, <1>8, Truths
<1>. QED  BY <1>6, <1>9, SameFlags DEF FlagStep

\* Between two batches no row is left.
LEMMA StillNothing ==
  ASSUME writes = <<>>
  PROVE  Still(Provider) = {} /\ Still(Entrance) = {}
<1>1. \A r, e : ~Pending(r, e)
  BY NothingPending
<1>. QED  BY <1>1 DEF Still

\* withdrawl begins when the network agrees: nothing is left of the call before.
LEMMA WithdrawlShown ==
  ASSUME BorderInv, BorderInv', Withdrawl
  PROVE  FlagStep
<1>1. /\ TypeOK /\ BorderShown /\ BorderShown'
      /\ Provider \in Plain /\ Entrance \in Plain /\ Provider # Entrance
      /\ Destination \in Announced
  BY BorderShows, BorderShowsNext, BorderFacts DEF BorderInv, NetworkInv
<1>2. /\ Idle /\ writes = <<>> /\ to_signal = <<>> /\ UNCHANGED in_use
      /\ to_signal' = ASList /\ to_erase' = m_reachable[Newcomer]
  BY DEF Withdrawl, Idle
<1>3. Destination \in m_reachable[Provider] <=> Destination \in m_reachable[Entrance]
  <2>1. AgreesOn(Entrance, Destination)
    BY <1>1, <1>2, Agreement DEF BorderInv, Plain
  <2>. QED  BY <2>1 DEF AgreesOn
<1>4. Still(Provider) = {} /\ Still(Entrance) = {}
  BY <1>2, StillNothing
<1>5. /\ ~StillToClear(Provider) /\ ~StillToClear(Entrance)
      /\ ~StillToSet(Provider) /\ ~StillToSet(Entrance)
  BY <1>1, <1>2, <1>3, <1>4 DEF BorderShown, ShownOf
<1>6. /\ ASList # <<>> /\ Destination \in to_erase'
      /\ Range(ASList) = Range(Tail(ASList)) \cup {Head(ASList)}
  <2>1. ASList \in Seq(ASes) /\ Provider \in Range(ASList)
    BY <1>1, TopologyAssumption DEF Plain, ASes
  <2>2. ASList # <<>>
    BY <2>1, NothingInEmpty
  <2>. QED  BY <1>1, <1>2, <2>1, <2>2, TailFacts, TypeAS
<1>7. /\ ~Attached' /\ ~StillToSet(Provider)' /\ ~StillToSet(Entrance)'
      /\ StillToClear(Provider)' /\ StillToClear(Entrance)'
  <2>1. Provider \in Range(ASList) /\ Entrance \in Range(ASList)
    BY <1>1 DEF Plain, ASes
  <2>2. to_signal' # <<>>
    BY <1>2, <1>6
  <2>3. ASSUME NEW b \in {Provider, Entrance}
        PROVE  ~Attached' /\ ~StillToSet(b)' /\ StillToClear(b)'
    <3>1. /\ ~Attached' /\ ~StillToSet(b)'
          /\ StillToClear(b)' <=> \/ b \in Range(Tail(to_signal'))
                                  \/ b = Head(to_signal') /\ Destination \in to_erase'
                                  \/ Still(b)' = RowsFor(b)
      BY <1>1, <2>2 DEF BorderShown, ShownOf
    <3>. QED  BY <1>2, <1>6, <2>1, <3>1
  <2>. QED  BY <2>3
<1>8. StillToChange = <<>>
  BY <1>5, ChangesBefore DEF ChangesAre
<1>9. StillToChange' = <<<<"AS1", FALSE>>, <<"AS4", FALSE>>>>
  BY <1>7, ChangesAfter DEF ChangesAre
<1>10. Attached' = FALSE /\ BorderInUse' = BorderInUse
  BY <1>2, <1>7, Truths DEF BorderInUse, Passes
<1>. QED  BY <1>8, <1>9, <1>10
     DEF FlagStep, Flags!MembershipNext, Flags!Withdrawl, Flags!Change, Flags!WithdrawalOrder

\* The AS signalled is done; the last of them leaves nothing.
LEMMA SignalNextShown ==
  ASSUME BorderInv, BorderInv', SignalNext
  PROVE  FlagStep
<1>1. /\ TypeOK /\ BorderShown /\ BorderShown' /\ Erased
      /\ Provider \in Plain /\ Entrance \in Plain
      /\ RowsFor(Provider) # {} /\ RowsFor(Entrance) # {} /\ Destination \in Announced
  BY BorderShows, BorderShowsNext, BorderFacts DEF BorderInv, NetworkInv
<1>0. PICK rest : rest = Tail(to_signal)
  OBVIOUS
<1>2. /\ writes = <<>> /\ writes' = <<>> /\ to_signal # <<>> /\ UNCHANGED <<in_use, m_reachable>>
      /\ Reacts(Head(to_signal)) => to_erase = {}
      /\ to_signal' = rest /\ to_erase' = m_reachable[Newcomer]
  BY <1>0 DEF SignalNext, bookkeeping
<1>3. Still(Provider) = {} /\ Still(Entrance) = {}
  BY <1>2, StillNothing
<1>4. Still(Provider)' = {} /\ Still(Entrance)' = {}
  <2>1. \A r, e : ~Pending(r, e)'
    BY <1>2 DEF Pending
  <2>. QED  BY <2>1 DEF Still
<1>5. \A b : Passes(b)' = Passes(b)
  BY <1>2 DEF Passes
<1>6. ASSUME NEW b \in {Provider, Entrance}
      PROVE  /\ ~Attached /\ ~StillToSet(b)
             /\ StillToClear(b) <=> b \in Range(rest)
  <2>1. /\ ~Attached /\ ~StillToSet(b)
        /\ StillToClear(b) <=> \/ b \in Range(rest)
                               \/ b = Head(to_signal) /\ Destination \in to_erase
                               \/ Still(b) = RowsFor(b)
    BY <1>0, <1>1, <1>2 DEF BorderShown, ShownOf
  <2>2. Reacts(b)
    BY <1>1 DEF Reacts, Plain
  <2>. QED  BY <1>1, <1>2, <1>3, <2>1, <2>2
<1>7. ASSUME NEW b \in {Provider, Entrance}
      PROVE  /\ ~Attached' /\ ~StillToSet(b)'
             /\ StillToClear(b)' <=> b \in Range(rest)
  <2>1. CASE rest = <<>>
    <3>1. Destination \notin m_reachable[Provider]
      <4>1. \A as \in Plain : Shared(as) = {}
        BY <1>0, <1>1, <2>1, WithdrawalOver
      <4>. QED  BY <1>1, <4>1 DEF Shared
    <3>2. b \notin Range(rest)
      BY <2>1, NothingInEmpty
    <3>3. /\ ~StillToClear(b)'
          /\ Attached' <=> Destination \in m_reachable'[Provider]
          /\ StillToSet(b)' => Destination \in m_reachable'[Provider]
      BY <1>1, <1>2, <2>1 DEF BorderShown, ShownOf
    <3>. QED  BY <1>2, <3>1, <3>2, <3>3
  <2>2. CASE rest # <<>>
    <3>1. /\ ~Attached' /\ ~StillToSet(b)'
          /\ StillToClear(b)' <=> \/ b \in Range(Tail(rest))
                                  \/ b = Head(rest) /\ Destination \in to_erase'
                                  \/ Still(b)' = RowsFor(b)
      BY <1>1, <1>2, <2>2 DEF BorderShown, ShownOf
    <3>2. Destination \in to_erase'
      BY <1>1, <1>2, TypeAS
    <3>3. Range(rest) = Range(Tail(rest)) \cup {Head(rest)}
      <4>1. to_signal \in Seq(ASes) /\ to_signal # <<>>
        BY <1>1, <1>2 DEF TypeOK
      <4>2. rest \in Seq(ASes)
        BY <1>0, <4>1
      <4>. QED  BY <2>2, <4>2, TailFacts
    <3>. QED  BY <1>1, <1>4, <3>1, <3>2, <3>3
  <2>. QED  BY <2>1, <2>2
<1>8. /\ Attached' = Attached
      /\ StillToSet(Provider)' = StillToSet(Provider)
      /\ StillToSet(Entrance)' = StillToSet(Entrance)
      /\ StillToClear(Provider)' = StillToClear(Provider)
      /\ StillToClear(Entrance)' = StillToClear(Entrance)
  BY <1>6, <1>7, Truths
<1>. QED  BY <1>5, <1>8, SameFlags DEF FlagStep

\* The rows to be cleared now were to be cleared before.
LEMMA WithdrawalSignalShown ==
  ASSUME BorderInv, BorderInv', NEW dest \in Announced, WithdrawalSignal(dest)
  PROVE  FlagStep
<1>1. /\ TypeOK /\ BorderShown /\ BorderShown'
      /\ Provider \in Plain /\ Entrance \in Plain
      /\ RowsFor(Provider) # {} /\ RowsFor(Entrance) # {}
  BY BorderShows, BorderShowsNext, BorderFacts DEF BorderInv, NetworkInv
<1>0. PICK as : as = Head(to_signal)
  OBVIOUS
<1>2. /\ writes = <<>> /\ UNCHANGED <<in_use, to_signal>> /\ to_signal # <<>> /\ Reacts(as)
      /\ dest \in to_erase /\ to_erase' = to_erase \ {dest}
      /\ writes' = FlagsFor(as, dest, FALSE)
  BY <1>0 DEF WithdrawalSignal
<1>3. as \in Plain
  <2>1. to_signal \in Seq(ASes)
    BY <1>1 DEF TypeOK
  <2>2. as \in ASes
    BY <1>0, <1>2, <2>1
  <2>. QED  BY <1>2, <2>2 DEF Reacts, Plain
<1>4. ASSUME NEW b \in {Provider, Entrance}
      PROVE  /\ Still(b) = {}
             /\ Still(b)' = IF b = as /\ dest = Destination THEN RowsFor(b) ELSE {}
  <2>1. /\ \A c : Still(c) = {}
        /\ \A c \in Plain : Still(c)' = IF c = as /\ dest = Destination THEN RowsFor(c) ELSE {}
    <3>1. /\ writes = <<>> /\ as \in Plain /\ FALSE \in BOOLEAN
          /\ writes' = FlagsFor(as, dest, FALSE)
      BY <1>2, <1>3
    <3>. QED  BY ONLY <3>1, dest \in Announced, NewBatch
  <2>. QED  BY <1>1, <2>1
<1>5. \A b : Passes(b)' = Passes(b)
  BY <1>2 DEF Passes
<1>6. ASSUME NEW b \in {Provider, Entrance}
      PROVE  ~Attached /\ ~Attached' /\ ~StillToSet(b) /\ ~StillToSet(b)'
             /\ (StillToClear(b)' <=> StillToClear(b))
  <2>1. /\ ~Attached /\ ~StillToSet(b)
        /\ StillToClear(b) <=> \/ b \in Range(Tail(to_signal))
                               \/ b = as /\ Destination \in to_erase
                               \/ Still(b) = RowsFor(b)
    BY <1>0, <1>1, <1>2 DEF BorderShown, ShownOf
  <2>2. /\ ~Attached' /\ ~StillToSet(b)'
        /\ StillToClear(b)' <=> \/ b \in Range(Tail(to_signal))
                                \/ b = as /\ Destination \in to_erase'
                                \/ Still(b)' = RowsFor(b)
    BY <1>0, <1>1, <1>2 DEF BorderShown, ShownOf
  <2>3. Still(b) # RowsFor(b)
    BY <1>1, <1>4
  <2>4. Still(b)' = RowsFor(b) <=> b = as /\ dest = Destination
    BY <1>1, <1>4
  <2>. QED  BY <1>2, <2>1, <2>2, <2>3, <2>4
<1>8. /\ Attached' = Attached
      /\ StillToSet(Provider)' = StillToSet(Provider)
      /\ StillToSet(Entrance)' = StillToSet(Entrance)
      /\ StillToClear(Provider)' = StillToClear(Provider)
      /\ StillToClear(Entrance)' = StillToClear(Entrance)
  BY <1>6, Truths
<1>. QED  BY <1>5, <1>8, SameFlags DEF FlagStep

\* Of a batch that writes a row of one AS, the other has none.
LEMMA OneOfTwo ==
  ASSUME BorderInv, NEW b \in Plain, NEW c \in Plain, b # c, Still(b) # {}
  PROVE  /\ Still(c) = {}
         /\ to_signal # <<>> => b = Head(to_signal) /\ Destination \notin to_erase
<1>1. PICK r \in Still(b), k \in DOMAIN writes :
        writes[k].router = r /\ writes[k].dest = Destination
  BY DEF Still, Pending
<1>2. PICK as \in Plain, d \in Announced :
        /\ \A j \in DOMAIN writes : /\ writes[j].router \in Range(BorderRouters[as])
                                    /\ writes[j].dest = d
        /\ to_signal # <<>> => as = Head(to_signal) /\ d \notin to_erase
  BY <1>1 DEF BorderInv, OneBatch
<1>3. as = b /\ d = Destination
  BY <1>1, <1>2, BorderFacts DEF Still
<1>4. ASSUME NEW s \in Still(c) PROVE FALSE
  <2>1. s \in RowsFor(c) /\ s \in Range(BorderRouters[b])
    BY <1>2, <1>3 DEF Still, Pending
  <2>. QED  BY <2>1, BorderFacts
<1>. QED  BY <1>2, <1>3, <1>4

\* The AS told first is told no more, and the provider after the entrance.
LEMMA ToldInOrder ==
  ASSUME BorderInv, to_signal # <<>>, NEW b, b = Head(to_signal)
  PROVE  /\ b \notin Range(Tail(to_signal))
         /\ b = Entrance => Provider \in Range(Tail(to_signal))
         /\ b = Provider => Entrance \notin Range(Tail(to_signal))
<1>0. PICK list, rest : list = to_signal /\ rest = Tail(to_signal)
  OBVIOUS
<1>1. list \in Seq(ASes) /\ list # <<>> /\ rest = Tail(list) /\ b = Head(list)
  BY <1>0 DEF BorderInv, NetworkInv, TypeOK
<1>2. /\ \A i, j \in DOMAIN list : list[i] = list[j] => i = j
      /\ \A i \in DOMAIN list : list[i] = Entrance => \E j \in DOMAIN list : i < j /\ list[j] = Provider
  BY <1>0 DEF BorderInv, SignalOrder
<1>3. /\ 1 \in DOMAIN list /\ b = list[1]
      /\ \A k \in DOMAIN rest : rest[k] = list[k + 1] /\ k + 1 \in DOMAIN list
      /\ \A k \in DOMAIN list : \/ k = 1
                                \/ k - 1 \in DOMAIN rest /\ list[k] = rest[k - 1]
  BY <1>1, TailFacts
<1>4. DOMAIN list \subseteq Nat \ {0} /\ DOMAIN rest \subseteq Nat \ {0}
  <2>1. rest \in Seq(ASes)
    BY <1>1
  <2>. QED  BY <1>1, <2>1
<1>5. ASSUME NEW k \in DOMAIN rest PROVE rest[k] = list[k + 1] /\ k + 1 \in DOMAIN list /\ k + 1 > 1
  BY <1>3, <1>4
<1>6. b \notin Range(rest)
  <2>1. ASSUME NEW k \in DOMAIN rest, rest[k] = b PROVE FALSE
    <3>1. k + 1 = 1
      BY <1>2, <1>3, <1>5, <2>1
    <3>. QED  BY <1>4, <3>1
  <2>. QED  BY <2>1 DEF Range
<1>7. ASSUME b = Entrance PROVE Provider \in Range(rest)
  <2>1. PICK j \in DOMAIN list : 1 < j /\ list[j] = Provider
    BY <1>2, <1>3, <1>7
  <2>2. j - 1 \in DOMAIN rest /\ list[j] = rest[j - 1]
    BY <1>3, <2>1
  <2>. QED  BY <2>1, <2>2 DEF Range
<1>8. ASSUME b = Provider PROVE Entrance \notin Range(rest)
  <2>1. ASSUME NEW k \in DOMAIN rest, rest[k] = Entrance PROVE FALSE
    <3>1. PICK j \in DOMAIN list : k + 1 < j /\ list[j] = Provider
      BY <1>2, <1>5, <2>1
    <3>2. j = 1
      BY <1>2, <1>3, <1>8, <3>1
    <3>. QED  BY <1>4, <3>1, <3>2
  <2>. QED  BY <2>1 DEF Range
<1>. QED  BY <1>0, <1>6, <1>7, <1>8

\* A row that is none of theirs.
LEMMA OtherRowShown ==
  ASSUME BorderInv, BorderInv', UNCHANGED <<to_signal, to_erase, m_reachable>>,
         \A b \in {Provider, Entrance} : Still(b)' = Still(b) /\ Passes(b)' = Passes(b)
  PROVE  FlagStep
<1>1. BorderShown /\ BorderShown'
  BY BorderShows, BorderShowsNext
<1>2. ASSUME NEW b \in {Provider, Entrance}
      PROVE  /\ Attached' = Attached
             /\ StillToSet(b)' = StillToSet(b) /\ StillToClear(b)' = StillToClear(b)
  <2>1. Still(b)' = Still(b)
    OBVIOUS
  <2>2. CASE to_signal = <<>>
    BY <1>1, <2>1, <2>2, Truths DEF BorderShown, ShownOf
  <2>3. CASE to_signal # <<>>
    BY <1>1, <2>1, <2>3, Truths DEF BorderShown, ShownOf
  <2>. QED  BY <2>2, <2>3
<1>. QED  BY <1>2, SameFlags DEF FlagStep

\* One row of an AS is written, the other AS has none left.
RowOf(b, c, r) ==
  /\ b \in {Provider, Entrance} /\ c \in {Provider, Entrance} /\ b # c
  /\ r \in Still(b) /\ Still(b)' = Still(b) \ {r}
  /\ Open(r)' = (to_signal = <<>>)
  /\ \A s \in RowsFor(b) \ {r} : Open(s)' = Open(s)
  /\ Still(c) = {} /\ Still(c)' = {} /\ Passes(c)' = Passes(c)
  /\ UNCHANGED <<to_signal, to_erase, m_reachable>>

\* The first of the changes left is made.
LEMMA RouteSet ==
  ASSUME NEW a, NEW v, Begins(StillToChange, a, v, StillToChange'),
         BorderInUse' = [BorderInUse EXCEPT ![a] = v], Attached' = Attached
  PROVE  Flags!MembershipNext
BY DEF Begins, Flags!MembershipNext, Flags!SetRoute

\* hookUpRequest and broadcastUpdate: the AS passes frames on with its last row.
LEMMA RowSetShown ==
  ASSUME BorderInv, BorderInv', NEW b, NEW c, NEW r, RowOf(b, c, r), to_signal = <<>>,
         Destination \in m_reachable[b]
  PROVE  FlagStep
<1>1. /\ BorderShown /\ BorderShown' /\ Marching(b) /\ ProviderFirst /\ ProviderWritesFirst
      /\ Provider # Entrance /\ Provider \in Plain /\ Entrance \in Plain
      /\ Destination \in Announced
  BY BorderShows, BorderShowsNext, BorderFacts DEF RowOf, BorderInv, NetworkInv
<1>2. /\ r \in RowsFor(b) /\ Still(b) # {} /\ Still(b) \subseteq RowsFor(b)
      /\ to_signal' = <<>> /\ m_reachable' = m_reachable
  BY DEF RowOf, Still
<1>3. Destination \in m_reachable[Provider]
  BY <1>1 DEF ProviderFirst, Shared, RowOf
<1>4. /\ Attached /\ Attached'
      /\ ~StillToClear(Provider) /\ ~StillToClear(Entrance)
      /\ ~StillToClear(Provider)' /\ ~StillToClear(Entrance)'
      /\ \A a \in {Provider, Entrance} :
           /\ StillToSet(a) <=> (Destination \notin m_reachable[a] \/ Still(a) # {})
           /\ StillToSet(a)' <=> (Destination \notin m_reachable[a] \/ Still(a)' # {})
  BY <1>1, <1>2, <1>3 DEF BorderShown, ShownOf
<1>5. StillToSet(c)' <=> StillToSet(c)
  BY <1>4 DEF RowOf
<1>6. /\ \A s, t \in Still(b) : Open(s) = Open(t)
      /\ \A s \in RowsFor(b) \ Still(b) : Open(s)
  BY <1>1, <1>2 DEF Marching, AtOnce
<1>7. Attached' = Attached
  BY <1>4, Truths
<1>8. CASE Still(b)' # {}
  <2>1. Passes(b)' = Passes(b)
    <3>1. PICK t \in Still(b) : t # r
      BY <1>8 DEF RowOf
    <3>2. Passes(b) <=> Open(t)
      BY <1>2, <1>6, <3>1 DEF Passes, Open
    <3>3. \A s \in RowsFor(b) : Open(s)' <=> (s = r \/ Open(s))
      BY <1>2 DEF RowOf
    <3>4. Passes(b)' <=> Open(t)
      <4>1. Passes(b)' <=> \A s \in RowsFor(b) : Open(s)'
        BY DEF Passes, Open
      <4>. QED  BY <1>2, <1>6, <3>1, <3>3, <4>1
    <3>. QED  BY <3>2, <3>4, Truths
  <2>2. StillToSet(b)' /\ StillToSet(b)
    BY <1>2, <1>4, <1>8 DEF RowOf
  <2>3. /\ Passes(Provider)' = Passes(Provider) /\ Passes(Entrance)' = Passes(Entrance)
        /\ StillToSet(Provider)' = StillToSet(Provider)
        /\ StillToSet(Entrance)' = StillToSet(Entrance)
    BY <1>5, <2>1, <2>2, Truths DEF RowOf
  <2>4. /\ StillToClear(Provider)' = StillToClear(Provider)
        /\ StillToClear(Entrance)' = StillToClear(Entrance)
    BY <1>4, Truths
  <2>. QED  BY <1>7, <2>3, <2>4, SameFlags DEF FlagStep
<1>9. CASE Still(b)' = {}
  <2>1. Passes(b)' = TRUE
    <3>1. \A s \in RowsFor(b) : Open(s)'
      BY <1>2, <1>6, <1>9 DEF RowOf
    <3>. QED  BY <3>1, Truths DEF Passes, Open
  <2>2. StillToSet(b) /\ ~StillToSet(b)'
    BY <1>2, <1>4, <1>9 DEF RowOf
  <2>3. CASE b = Provider
    <3>1. c = Entrance /\ StillToSet(Entrance)
      <4>1. Destination \notin m_reachable[Entrance]
        BY <1>1, <1>2, <2>3 DEF ProviderWritesFirst
      <4>. QED  BY <1>4, <2>3, <4>1 DEF RowOf
    <3>2. BorderInUse' = [BorderInUse EXCEPT !["AS4"] = TRUE]
      BY <2>1, <2>3, <3>1, FlagSet DEF RowOf
    <3>3. StillToChange = <<<<"AS4", TRUE>>, <<"AS1", TRUE>>>>
      BY <1>4, <2>2, <2>3, <3>1, ChangesBefore DEF ChangesAre
    <3>4. StillToChange' = <<<<"AS1", TRUE>>>>
      BY <1>4, <1>5, <2>2, <2>3, <3>1, ChangesAfter DEF ChangesAre
    <3>5. Begins(StillToChange, "AS4", TRUE, StillToChange')
      BY <3>3, <3>4, FlagOrders, Zenon
    <3>. QED  BY <1>7, <3>2, <3>5, RouteSet DEF FlagStep
  <2>4. CASE b = Entrance
    <3>1. c = Provider /\ ~StillToSet(Provider)
      BY <1>3, <1>4, <2>4 DEF RowOf
    <3>2. BorderInUse' = [BorderInUse EXCEPT !["AS1"] = TRUE]
      BY <2>1, <2>4, <3>1, FlagSet DEF RowOf
    <3>3. StillToChange = <<<<"AS1", TRUE>>>>
      BY <1>4, <2>2, <2>4, <3>1, ChangesBefore DEF ChangesAre
    <3>4. StillToChange' = <<>>
      BY <1>4, <1>5, <2>2, <2>4, <3>1, ChangesAfter DEF ChangesAre
    <3>5. Begins(StillToChange, "AS1", TRUE, StillToChange')
      BY <3>3, <3>4, FlagOrders, Zenon
    <3>. QED  BY <1>7, <3>2, <3>5, RouteSet DEF FlagStep
  <2>. QED  BY <2>3, <2>4 DEF RowOf
<1>. QED  BY <1>8, <1>9

\* withdrawalSignal: the AS stops frames with its first row.
LEMMA RowClearedShown ==
  ASSUME BorderInv, BorderInv', NEW b, NEW c, NEW r, RowOf(b, c, r), to_signal # <<>>
  PROVE  FlagStep
<1>1. /\ BorderShown /\ BorderShown' /\ Marching(b)
      /\ Provider # Entrance /\ Provider \in Plain /\ Entrance \in Plain
      /\ RowsFor(Provider) # {} /\ RowsFor(Entrance) # {}
  BY BorderShows, BorderShowsNext, BorderFacts DEF RowOf, BorderInv
<1>2. /\ r \in RowsFor(b) /\ Still(b) # {} /\ Still(b) \subseteq RowsFor(b)
      /\ UNCHANGED <<to_signal, to_erase, m_reachable>> /\ b \in Plain /\ c \in Plain
      /\ b # c /\ Still(c) = {} /\ Still(c)' = {}
  BY <1>1 DEF RowOf, Still
<1>3. b = Head(to_signal) /\ Destination \notin to_erase
  BY <1>2, OneOfTwo
<1>4. /\ b \notin Range(Tail(to_signal))
      /\ b = Entrance => Provider \in Range(Tail(to_signal))
      /\ b = Provider => Entrance \notin Range(Tail(to_signal))
  BY <1>3, ToldInOrder
<1>5. /\ ~Attached /\ ~Attached'
      /\ ~StillToSet(Provider) /\ ~StillToSet(Entrance)
      /\ ~StillToSet(Provider)' /\ ~StillToSet(Entrance)'
      /\ \A a \in {Provider, Entrance} :
           /\ StillToClear(a) <=> a \in Range(Tail(to_signal)) \/ Still(a) = RowsFor(a)
           /\ StillToClear(a)' <=> a \in Range(Tail(to_signal)) \/ Still(a)' = RowsFor(a)
  BY <1>1, <1>2, <1>3 DEF BorderShown, ShownOf
<1>6. /\ StillToClear(c) <=> c \in Range(Tail(to_signal))
      /\ StillToClear(c)' <=> c \in Range(Tail(to_signal))
      /\ StillToClear(b) <=> Still(b) = RowsFor(b)
      /\ ~StillToClear(b)'
  BY <1>1, <1>2, <1>4, <1>5 DEF RowOf
<1>7. Passes(b)' = FALSE
  <2>1. ~Open(r)'
    BY DEF RowOf
  <2>. QED  BY <1>2, <2>1, Truths DEF Passes, Open
<1>8. Attached' = Attached
  BY <1>5, Truths
<1>9. CASE Still(b) # RowsFor(b)
  <2>1. Passes(b) = FALSE
    <3>1. PICK s \in RowsFor(b) \ Still(b) : ~Open(s)
      BY <1>1, <1>2, <1>9 DEF Marching
    <3>. QED  BY <3>1, Truths DEF Passes, Open
  <2>2. /\ Passes(Provider)' = Passes(Provider) /\ Passes(Entrance)' = Passes(Entrance)
        /\ StillToClear(Provider)' = StillToClear(Provider)
        /\ StillToClear(Entrance)' = StillToClear(Entrance)
    BY <1>6, <1>7, <1>9, <2>1, Truths DEF RowOf
  <2>3. /\ StillToSet(Provider)' = StillToSet(Provider)
        /\ StillToSet(Entrance)' = StillToSet(Entrance)
    BY <1>5, Truths
  <2>. QED  BY <1>8, <2>2, <2>3, SameFlags DEF FlagStep
<1>10. CASE Still(b) = RowsFor(b)
  <2>1. CASE b = Provider
    <3>1. c = Entrance /\ ~StillToClear(Entrance)
      BY <1>4, <1>6, <2>1 DEF RowOf
    <3>2. BorderInUse' = [BorderInUse EXCEPT !["AS4"] = FALSE]
      BY <1>7, <2>1, <3>1, FlagSet DEF RowOf
    <3>3. StillToChange = <<<<"AS4", FALSE>>>>
      BY <1>5, <1>6, <1>10, <2>1, <3>1, ChangesBefore DEF ChangesAre
    <3>4. StillToChange' = <<>>
      BY <1>5, <1>6, <2>1, <3>1, ChangesAfter DEF ChangesAre
    <3>5. Begins(StillToChange, "AS4", FALSE, StillToChange')
      BY <3>3, <3>4, FlagOrders, Zenon
    <3>. QED  BY <1>8, <3>2, <3>5, RouteSet DEF FlagStep
  <2>2. CASE b = Entrance
    <3>1. c = Provider /\ StillToClear(Provider)
      BY <1>4, <1>6, <2>2 DEF RowOf
    <3>2. BorderInUse' = [BorderInUse EXCEPT !["AS1"] = FALSE]
      BY <1>7, <2>2, <3>1, FlagSet DEF RowOf
    <3>3. StillToChange = <<<<"AS1", FALSE>>, <<"AS4", FALSE>>>>
      BY <1>5, <1>6, <1>10, <2>2, <3>1, ChangesBefore DEF ChangesAre
    <3>4. StillToChange' = <<<<"AS4", FALSE>>>>
      BY <1>5, <1>6, <2>2, <3>1, ChangesAfter DEF ChangesAre
    <3>5. Begins(StillToChange, "AS1", FALSE, StillToChange')
      BY <3>3, <3>4, FlagOrders, Zenon
    <3>. QED  BY <1>8, <3>2, <3>5, RouteSet DEF FlagStep
  <2>. QED  BY <2>1, <2>2 DEF RowOf
<1>. QED  BY <1>9, <1>10

\* A row is one of the provider, one of the entrance, or none of theirs.
LEMMA WriteFlagShown ==
  ASSUME BorderInv, BorderInv', WriteFlag
  PROVE  FlagStep
<1>0. PICK w : w = Head(writes)
  OBVIOUS
<1>1. /\ w.router \in Routers /\ w.dest \in Announced
      /\ w.dest = Destination => Pending(w.router, Destination)
      /\ \A r : Pending(r, Destination)' <=>
                  Pending(r, Destination) /\ ~(r = w.router /\ w.dest = Destination)
      /\ \A r \in Routers : Destination \in DOMAIN InitialRoutes[r] =>
           Open(r)' = IF r = w.router /\ w.dest = Destination THEN to_signal = <<>> ELSE Open(r)
  BY <1>0, RowWritten
<1>2. UNCHANGED <<to_signal, to_erase, m_reachable>>
  BY DEF WriteFlag, bookkeeping
<1>3. Provider \in Plain /\ Entrance \in Plain /\ Provider # Entrance
  BY BorderFacts
<1>4. ASSUME NEW b \in {Provider, Entrance}, ~(w.dest = Destination /\ w.router \in RowsFor(b))
      PROVE  Still(b)' = Still(b) /\ Passes(b)' = Passes(b)
  <2>1. \A r \in RowsFor(b) : r \in Routers /\ Destination \in DOMAIN InitialRoutes[r]
    BY <1>3, BorderFacts
  <2>2. \A r \in RowsFor(b) : /\ Pending(r, Destination)' <=> Pending(r, Destination)
                              /\ Open(r)' = Open(r)
    BY <1>1, <1>4, <2>1
  <2>3. Still(b)' = Still(b)
    BY <2>2 DEF Still
  <2>4. Passes(b)' = Passes(b)
    BY <2>2 DEF Passes, Open
  <2>. QED  BY <2>3, <2>4
<1>5. ASSUME NEW b \in {Provider, Entrance}, NEW c \in {Provider, Entrance}, b # c,
             w.dest = Destination, w.router \in RowsFor(b)
      PROVE  FlagStep
  <2>1. \A r \in RowsFor(b) : /\ r \in Routers /\ Destination \in DOMAIN InitialRoutes[r]
                              /\ r \notin Range(BorderRouters[c])
    BY <1>3, <1>5, BorderFacts
  <2>2. w.router \in Still(b)
    BY <1>1, <1>5 DEF Still
  <2>3. Still(b)' = Still(b) \ {w.router}
    BY <1>1, <1>5 DEF Still
  <2>4. /\ Open(w.router)' = (to_signal = <<>>)
        /\ \A s \in RowsFor(b) \ {w.router} : Open(s)' = Open(s)
    BY <1>1, <1>5, <2>1
  <2>5. Still(c)' = Still(c) /\ Passes(c)' = Passes(c)
    <3>1. w.router \notin RowsFor(c)
      BY <1>5, <2>1 DEF RowsFor
    <3>. QED  BY <1>4, <3>1
  <2>6. Still(c) = {}
    BY <1>3, <1>5, <2>2, OneOfTwo
  <2>7. RowOf(b, c, w.router)
    BY <1>2, <1>5, <2>2, <2>3, <2>4, <2>5, <2>6 DEF RowOf
  <2>8. CASE to_signal = <<>>
    <3>1. Destination \in m_reachable[b]
      <4>1. CallsApart /\ 1 \in DOMAIN writes /\ w = writes[1]
        BY <1>0, WriteFlagFacts DEF BorderInv, NetworkInv
      <4>2. PICK as \in Plain : w.router \in Range(BorderRouters[as]) /\ w.dest \in m_reachable[as]
        BY <2>8, <4>1 DEF CallsApart
      <4>3. as = b
        BY <1>3, <1>5, <4>2, BorderFacts
      <4>. QED  BY <1>5, <4>2, <4>3
    <3>. QED  BY <2>7, <2>8, <3>1, RowSetShown
  <2>9. CASE to_signal # <<>>
    BY <2>7, <2>9, RowClearedShown
  <2>. QED  BY <2>8, <2>9
<1>6. CASE w.dest = Destination /\ w.router \in RowsFor(Provider)
  BY <1>3, <1>5, <1>6
<1>7. CASE w.dest = Destination /\ w.router \in RowsFor(Entrance)
  BY <1>3, <1>5, <1>7
<1>8. CASE \A b \in {Provider, Entrance} : ~(w.dest = Destination /\ w.router \in RowsFor(b))
  BY <1>2, <1>4, <1>8, OtherRowShown
<1>. QED  BY <1>6, <1>7, <1>8

LEMMA InitShown == Init => Flags!MembershipInit
<1>. SUFFICES ASSUME Init PROVE Flags!MembershipInit
  OBVIOUS
<1>1. /\ BorderShown /\ Provider \in Plain /\ Entrance \in Plain /\ Destination \in Announced
  BY BorderInit, BorderShows, BorderFacts
<1>2. to_signal = <<>> /\ in_use = InitialRoutes /\ m_reachable = InitialReach /\ writes = <<>>
  BY DEF Init
<1>3. Destination \notin m_reachable[Provider]
  BY <1>1, <1>2, WayAssumption DEF Plain
<1>4. /\ ~Attached /\ ~StillToSet(Provider) /\ ~StillToSet(Entrance)
      /\ ~StillToClear(Provider) /\ ~StillToClear(Entrance)
  BY <1>1, <1>2, <1>3 DEF BorderShown, ShownOf
<1>5. StillToChange = <<>>
  BY <1>4, ChangesBefore DEF ChangesAre
<1>6. Passes(Provider) = TRUE /\ Passes(Entrance) = FALSE
  BY <1>2, BorderAssumption DEF Passes
<1>7. BorderInUse = [as \in {"AS1", "AS4"} |-> as = "AS4"]
  BY <1>6 DEF BorderInUse
<1>8. Attached = FALSE
  BY <1>4, Truths
<1>. QED  BY <1>5, <1>7, <1>8 DEF Flags!MembershipInit, Flags!BorderASes

LEMMA StepShown ==
  BorderInv /\ BorderInv' /\ [Next]_vars => [Flags!MembershipNext]_Flags!membership
<1>. SUFFICES ASSUME BorderInv, BorderInv', [Next]_vars PROVE FlagStep
  BY DEF FlagStep
<1>1. CASE WriteFlag
  BY <1>1, WriteFlagShown
<1>2. CASE Withdrawl
  BY <1>2, WithdrawlShown
<1>3. CASE SignalNext
  BY <1>3, SignalNextShown
<1>4. ASSUME NEW dest \in Announced, Announce(dest) \/ WithdrawalSignal(dest) PROVE FlagStep
  BY <1>4, AnnounceShown, WithdrawalSignalShown
<1>5. CASE BroadcastUpdate
  BY <1>5, BroadcastShown
<1>6. CASE UNCHANGED borderVars
  BY <1>6, QuietShown DEF FlagStep
<1>. QED  BY <1>1, <1>2, <1>3, <1>4, <1>5, <1>6, QuietSteps DEF Next, MainThread

\* Whatever the network, the routes to one destination through the AS of the sender and
\* through the provider are the two flags of Membership: hookUpRequest opens the provider's
\* before the entrance's, withdrawl closes the entrance's before the provider's, row by row
\* and with no lock, and neither begins before the other is over.
THEOREM FlagsInOrder == Spec => ImplementsMembership
<1>1. Init => Flags!MembershipInit
  BY InitShown
<1>2. Init => BorderInv
  BY BorderInit
<1>3. BorderInv /\ [Next]_vars => BorderInv'
  BY BorderNext
<1>4. BorderInv /\ BorderInv' /\ [Next]_vars => [Flags!MembershipNext]_Flags!membership
  BY StepShown
<1>. QED  BY <1>1, <1>2, <1>3, <1>4, PTL DEF Spec, ImplementsMembership, Flags!MembershipSpec
=============================================================================
