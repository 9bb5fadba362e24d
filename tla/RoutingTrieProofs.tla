------------------------- MODULE RoutingTrieProofs -------------------------
(***************************************************************************)
(* The trie answers like a comparison of all rows, for every address width *)
(* and every routing table, whatever is written to in_use while it is used.*)
(*                                                                         *)
(* A lookup walks the nodes and a row is where its masked address leads.   *)
(* What connects the two is that the nodes are closed under prefixes, that *)
(* every row's node is there, that a node points to the row trieInsert was *)
(* to keep, and that a node as deep as an address is wide is some row's:   *)
(* none of this changes when in_use does, since what was in use when the   *)
(* file was read decides.                                                  *)
(***************************************************************************)
EXTENDS RoutingTrie, TLAPS, SequenceTheorems, WellFoundedInduction, NaturalsInduction

RowsAt(p) == {k \in DOMAIN m_routing_table : EndOf(m_routing_table[k]) = p}
UsableAt(p) == {k \in RowsAt(p) : configured[k]}

\* The row a node points to: the first usable one, or else the last one.
Kept(p) ==
  \/ RowsAt(p) = {} /\ dest_addr[p] = NULL
  \/ dest_addr[p] \in UsableAt(p) /\ \A j \in UsableAt(p) : dest_addr[p] <= j
  \/ UsableAt(p) = {} /\ dest_addr[p] \in RowsAt(p) /\ \A j \in RowsAt(p) : dest_addr[p] >= j

TableTypes ==
  /\ m_routing_table \in Seq(RowsOfFile) /\ configured \in Seq(BOOLEAN)
  /\ Len(configured) = Len(m_routing_table)
  /\ built \in BOOLEAN

\* Until the file is read nobody has written in_use.
AsInFile == ~built => \A k \in DOMAIN m_routing_table :
                        m_routing_table[k].in_use = configured[k]
Closed == /\ nodes \subseteq Prefixes /\ Root \in nodes
          /\ \A p \in nodes : \A n \in 0..Len(p) : Prefix(p, n) \in nodes
RowsHaveNodes == \A k \in DOMAIN m_routing_table : EndOf(m_routing_table[k]) \in nodes
LeavesHaveRows == \A p \in nodes : Len(p) = Width => RowsAt(p) # {}
Pointers == DOMAIN dest_addr = nodes /\ \A p \in nodes : Kept(p)

TrieInv == TableTypes /\ AsInFile /\ Closed /\ RowsHaveNodes /\ LeavesHaveRows /\ Pointers

-----------------------------------------------------------------------------
\* The first bits of an address, or of a node.
LEMMA PrefixFacts ==
  ASSUME NEW m \in Nat, NEW a \in [1..m -> {0, 1}], NEW n \in 0..m
  PROVE  /\ a \in Seq({0, 1}) /\ Len(a) = m
         /\ Prefix(a, n) \in [1..n -> {0, 1}]
         /\ Prefix(a, n) \in Seq({0, 1}) /\ Len(Prefix(a, n)) = n
         /\ \A i \in 1..n : Prefix(a, n)[i] = a[i]
<1>1. a \in Seq({0, 1}) /\ Len(a) = m
  OBVIOUS
<1>2. \A i \in 1..n : a[i] \in {0, 1}
  OBVIOUS
<1>3. /\ SubSeq(a, 1, n) \in Seq({0, 1})
      /\ Len(SubSeq(a, 1, n)) = n
      /\ \A i \in 1..n : SubSeq(a, 1, n)[i] = a[1 + i - 1]
  BY <1>2, SubSeqProperties
<1>4. SubSeq(a, 1, n) \in [1..n -> {0, 1}]
  BY <1>3, LenProperties
<1>. QED  BY <1>1, <1>3, <1>4 DEF Prefix

\* A prefix of a prefix.
LEMMA PrefixOfPrefix ==
  ASSUME NEW m \in Nat, NEW a \in [1..m -> {0, 1}], NEW n \in 0..m, NEW k \in 0..n
  PROVE  Prefix(Prefix(a, n), k) = Prefix(a, k)
<1>1. n \in Nat /\ k \in 0..m
  OBVIOUS
<1>2. Prefix(a, n) \in [1..n -> {0, 1}]
  BY PrefixFacts
<1>3. /\ Prefix(Prefix(a, n), k) \in Seq({0, 1}) /\ Len(Prefix(Prefix(a, n), k)) = k
      /\ \A i \in 1..k : Prefix(Prefix(a, n), k)[i] = Prefix(a, n)[i]
  BY <1>1, <1>2, PrefixFacts
<1>4. /\ Prefix(a, k) \in Seq({0, 1}) /\ Len(Prefix(a, k)) = k
      /\ \A i \in 1..k : Prefix(a, k)[i] = a[i]
  BY <1>1, PrefixFacts
<1>5. \A i \in 1..k : Prefix(a, n)[i] = a[i]
  BY PrefixFacts
<1>. QED  BY <1>3, <1>4, <1>5, SeqEqual

\* A set of bounded numbers has a greatest one.
LEMMA Greatest ==
  ASSUME NEW m \in Nat, NEW T \in SUBSET (0..m), T # {}
  PROVE  \E n \in T : \A k \in T : n >= k
<1>. DEFINE U == {m - n : n \in T}
            R == {ss \in Nat \X Nat : ss[1] < ss[2]}
<1>1. U \subseteq Nat /\ U # {}
  <2>1. \A n \in T : n \in 0..m /\ m - n \in Nat
    OBVIOUS
  <2>. QED  BY <2>1
<1>2. IsWellFoundedOn(R, Nat)
  BY NatLessThanWellFounded DEF OpToRel
<1>3. PICK u \in U : \A v \in U : ~(<<v, u>> \in R)
  BY <1>1, <1>2, WFMin
<1>4. PICK n \in T : u = m - n
  OBVIOUS
<1>5. \A k \in T : ~(m - k < m - n)
  BY <1>1, <1>3, <1>4
<1>. QED  BY <1>5

\* The first or last of a set of row numbers.
LEMMA GreatestIs ==
  ASSUME NEW T \in SUBSET Nat, NEW x \in T, \A k \in T : x >= k
  PROVE  (CHOOSE n \in T : \A k \in T : n >= k) = x
<1>. DEFINE y == CHOOSE n \in T : \A k \in T : n >= k
<1>1. y \in T /\ \A k \in T : y >= k
  OBVIOUS
<1>2. y >= x /\ x >= y /\ x \in Nat /\ y \in Nat
  BY <1>1
<1>. QED  BY <1>2

LEMMA LeastIs ==
  ASSUME NEW T \in SUBSET Nat, NEW x \in T, \A k \in T : x <= k
  PROVE  (CHOOSE n \in T : \A k \in T : n <= k) = x
<1>. DEFINE y == CHOOSE n \in T : \A k \in T : n <= k
<1>1. y \in T /\ \A k \in T : y <= k
  OBVIOUS
<1>2. y <= x /\ x <= y /\ x \in Nat /\ y \in Nat
  BY <1>1
<1>. QED  BY <1>2

-----------------------------------------------------------------------------
\* Where the rows are, what they are.
LEMMA RowFacts ==
  ASSUME TableTypes
  PROVE  /\ DOMAIN m_routing_table = 1..Len(m_routing_table)
         /\ Len(m_routing_table) \in Nat
         /\ \A k \in DOMAIN m_routing_table :
              /\ k \in Nat \ {0}
              /\ m_routing_table[k] \in RowsOfFile
              /\ m_routing_table[k].dest_addr \in Addresses
              /\ m_routing_table[k].mask \in 0..Width
              /\ configured[k] \in BOOLEAN
<1>1. /\ DOMAIN m_routing_table = 1..Len(m_routing_table) /\ Len(m_routing_table) \in Nat
      /\ m_routing_table \in [1..Len(m_routing_table) -> RowsOfFile]
      /\ configured \in [1..Len(m_routing_table) -> BOOLEAN]
  BY LenProperties DEF TableTypes
<1>2. ASSUME NEW k \in DOMAIN m_routing_table
      PROVE  k \in Nat \ {0} /\ m_routing_table[k] \in RowsOfFile /\ configured[k] \in BOOLEAN
  BY <1>1
<1>. QED  BY <1>1, <1>2 DEF RowsOfFile

\* The node of a row is as long as its mask.
LEMMA EndFacts ==
  ASSUME NEW row \in RowsOfFile
  PROVE  /\ EndOf(row) \in [1..row.mask -> {0, 1}] /\ Len(EndOf(row)) = row.mask
         /\ row.mask \in 0..Width /\ row.dest_addr \in Addresses
         /\ \A n \in 0..row.mask : Prefix(row.dest_addr, n) \in Prefixes
<1>1. row.mask \in 0..Width /\ row.dest_addr \in [1..Width -> {0, 1}] /\ Width \in Nat
  BY WidthAssumption DEF RowsOfFile, Addresses
<1>2. EndOf(row) \in [1..row.mask -> {0, 1}] /\ Len(EndOf(row)) = row.mask
  BY <1>1, PrefixFacts DEF EndOf
<1>3. \A n \in 0..Width : Prefix(row.dest_addr, n) \in [1..n -> {0, 1}]
  BY <1>1, PrefixFacts
<1>4. \A n \in 0..row.mask : n \in 0..Width
  BY <1>1
<1>5. \A n \in 0..row.mask : Prefix(row.dest_addr, n) \in Prefixes
  BY <1>3, <1>4 DEF Prefixes
<1>. QED  BY <1>1, <1>2, <1>5 DEF Addresses

LEMMA InitInv == Init => TrieInv
<1>. SUFFICES ASSUME Init PROVE TrieInv
  OBVIOUS
<1>1. TableTypes /\ AsInFile /\ RowsHaveNodes
  <2>1. /\ m_routing_table = <<>> /\ DOMAIN m_routing_table = {}
        /\ configured = <<>> /\ built = FALSE
    BY DEF Init
  <2>2. TableTypes
    <3>1. \A S : <<>> \in Seq(S)
      BY EmptySeq
    <3>. QED  BY <2>1, <3>1, Zenon DEF TableTypes
  <2>. QED  BY <2>1, <2>2 DEF AsInFile, RowsHaveNodes
<1>2. Closed
  <2>1. Root \in [1..0 -> {0, 1}] /\ 0 \in 0..Width /\ Len(Root) = 0
    BY WidthAssumption DEF Root
  <2>2. Root \in Prefixes
    BY <2>1 DEF Prefixes
  <2>3. Prefix(Root, 0) = Root
    BY SubSeqEmpty DEF Prefix, Root
  <2>. QED  BY <2>1, <2>2, <2>3 DEF Closed, Init
<1>3. Pointers
  BY DEF Init, Pointers, Kept, RowsAt
<1>4. LeavesHaveRows
  <2>1. \A p \in nodes : Len(p) = 0
    BY DEF Init, Root
  <2>. QED  BY <2>1, WidthAssumption DEF LeavesHaveRows
<1>. QED  BY <1>1, <1>2, <1>3, <1>4 DEF TrieInv

\* The nodes a row adds are all the prefixes of its own node.
LEMMA InsertCloses ==
  ASSUME TrieInv, NEW row \in RowsOfFile, TrieInsert(row)
  PROVE  /\ Closed'
         /\ EndOf(row) \in nodes' /\ nodes \subseteq nodes'
         /\ \A p \in nodes' \ nodes : Len(p) = Width => p = EndOf(row)
<1>. DEFINE path == {Prefix(row.dest_addr, n) : n \in 0..row.mask}
<1>1. nodes' = nodes \cup path
  BY DEF TrieInsert
<1>2. /\ row.mask \in 0..Width /\ row.dest_addr \in [1..Width -> {0, 1}] /\ Width \in Nat
      /\ \A n \in 0..row.mask : Prefix(row.dest_addr, n) \in Prefixes
  BY EndFacts, WidthAssumption DEF Addresses
<1>3. EndOf(row) \in path
  BY <1>2 DEF EndOf
<1>4. ASSUME NEW p \in path, NEW k \in 0..Len(p) PROVE Prefix(p, k) \in path
  <2>1. PICK n \in 0..row.mask : p = Prefix(row.dest_addr, n)
    OBVIOUS
  <2>2. n \in 0..Width /\ Len(p) = n
    BY <1>2, <2>1, PrefixFacts
  <2>3. Prefix(p, k) = Prefix(row.dest_addr, k)
    BY <1>2, <2>1, <2>2, PrefixOfPrefix
  <2>4. k \in 0..row.mask
    BY <1>2, <2>2
  <2>. QED  BY <2>3, <2>4
<1>5. nodes' \subseteq Prefixes /\ Root \in nodes'
  BY <1>1, <1>2 DEF TrieInv, Closed
<1>6. ASSUME NEW p \in path, Len(p) = Width PROVE p = EndOf(row)
  <2>1. PICK n \in 0..row.mask : p = Prefix(row.dest_addr, n)
    OBVIOUS
  <2>2. n \in 0..Width /\ Len(p) = n
    BY <1>2, <2>1, PrefixFacts
  <2>3. n = row.mask
    BY <1>2, <1>6, <2>2
  <2>. QED  BY <2>1, <2>3 DEF EndOf
<1>. QED  BY <1>1, <1>3, <1>4, <1>5, <1>6 DEF TrieInv, Closed

\* trieInsert keeps the first usable row of a node, and makes way for the newest as long
\* as none is usable.
LEMMA InsertKeeps ==
  ASSUME TrieInv, NEW row \in RowsOfFile, TrieInsert(row), NEW p \in nodes'
  PROVE  Kept(p)'
<1>. DEFINE number == Len(m_routing_table) + 1
            end == EndOf(row)
            found == IF end \in nodes THEN dest_addr[end] ELSE NULL
            path == {Prefix(row.dest_addr, n) : n \in 0..row.mask}
<1>. USE DEF TrieInv
<1>1. /\ ~built /\ m_routing_table' = Append(m_routing_table, row)
      /\ configured' = Append(configured, row.in_use)
      /\ nodes' = nodes \cup path
      /\ dest_addr' = [q \in nodes \cup path |->
                         IF q = end /\ ~Keeps(found) THEN number
                         ELSE IF q \in nodes THEN dest_addr[q] ELSE NULL]
  BY DEF TrieInsert
<1>2. /\ DOMAIN m_routing_table = 1..Len(m_routing_table) /\ Len(m_routing_table) \in Nat
      /\ m_routing_table \in Seq(RowsOfFile) /\ configured \in Seq(BOOLEAN)
      /\ Len(configured) = Len(m_routing_table) /\ row.in_use \in BOOLEAN
  BY RowFacts DEF TableTypes, RowsOfFile
<1>3. /\ DOMAIN m_routing_table' = 1..number /\ number \in Nat
      /\ m_routing_table'[number] = row /\ configured'[number] = row.in_use
      /\ \A k \in 1..Len(m_routing_table) : /\ m_routing_table'[k] = m_routing_table[k]
                                            /\ configured'[k] = configured[k]
  BY <1>1, <1>2
<1>4. RowsAt(p)' = RowsAt(p) \cup (IF p = end THEN {number} ELSE {})
  BY <1>2, <1>3 DEF RowsAt
<1>5. UsableAt(p)' = UsableAt(p) \cup (IF p = end /\ row.in_use THEN {number} ELSE {})
  <2>1. number \notin RowsAt(p) /\ \A k \in RowsAt(p) : configured'[k] = configured[k]
    BY <1>2, <1>3 DEF RowsAt
  <2>. QED  BY <1>3, <1>4, <2>1 DEF UsableAt
<1>6. \A k \in RowsAt(p) : k \in Nat \ {0} /\ k < number
  BY <1>2 DEF RowsAt
<1>7. UsableAt(p) \subseteq RowsAt(p)
  BY DEF UsableAt
<1>8. p \notin nodes => RowsAt(p) = {} /\ UsableAt(p) = {}
  BY DEF RowsHaveNodes, RowsAt, UsableAt
<1>9. CASE p # end
  <2>1. RowsAt(p)' = RowsAt(p) /\ UsableAt(p)' = UsableAt(p)
    BY <1>4, <1>5, <1>9
  <2>2. CASE p \in nodes
    <3>1. dest_addr'[p] = dest_addr[p]
      BY <1>1, <1>9, <2>2
    <3>. QED  BY <2>1, <2>2, <3>1 DEF Kept, Pointers
  <2>3. CASE p \notin nodes
    <3>1. dest_addr'[p] = NULL
      BY <1>1, <1>9, <2>3
    <3>. QED  BY <2>1, <2>3, <3>1, <1>8 DEF Kept
  <2>. QED  BY <2>2, <2>3
<1>10. CASE p = end
  <2>1. CASE UsableAt(p) # {}
    <3>1. /\ p \in nodes /\ dest_addr[p] \in UsableAt(p)
          /\ \A j \in UsableAt(p) : dest_addr[p] <= j
      BY <1>8, <2>1 DEF Pointers, Kept, UsableAt
    <3>2. found = dest_addr[p] /\ dest_addr[p] \in Nat \ {0} /\ dest_addr[p] < number
      BY <1>6, <1>7, <1>10, <3>1
    <3>3. Keeps(found)
      BY <1>1, <3>1, <3>2 DEF Keeps, NULL, AsInFile, UsableAt, RowsAt
    <3>4. dest_addr'[p] = dest_addr[p]
      BY <1>1, <1>10, <3>1, <3>3
    <3>5. \A j \in UsableAt(p)' : dest_addr[p] <= j
      BY <1>3, <1>5, <3>1, <3>2
    <3>. QED  BY <3>1, <3>4, <3>5, <1>5 DEF Kept
  <2>2. CASE UsableAt(p) = {}
    <3>1. ~Keeps(found)
      <4>1. CASE p \in nodes /\ dest_addr[p] \in RowsAt(p)
        <5>1. found = dest_addr[p] /\ ~configured[dest_addr[p]]
          BY <1>10, <2>2, <4>1 DEF UsableAt
        <5>2. m_routing_table[dest_addr[p]].in_use = configured[dest_addr[p]]
          BY <1>1, <4>1 DEF AsInFile, RowsAt
        <5>. QED  BY <5>1, <5>2 DEF Keeps
      <4>2. CASE ~(p \in nodes /\ dest_addr[p] \in RowsAt(p))
        <5>1. found = NULL
          BY <1>10, <2>2, <4>2 DEF Pointers, Kept
        <5>. QED  BY <5>1 DEF Keeps
      <4>. QED  BY <4>1, <4>2
    <3>2. dest_addr'[p] = number
      BY <1>1, <1>10, <3>1
    <3>3. CASE row.in_use
      BY <1>3, <1>5, <1>10, <2>2, <3>2, <3>3 DEF Kept
    <3>4. CASE ~row.in_use
      <4>1. UsableAt(p)' = {} /\ number \in RowsAt(p)'
        BY <1>4, <1>5, <1>10, <2>2, <3>4
      <4>2. \A j \in RowsAt(p)' : number >= j
        BY <1>3, <1>4, <1>6
      <4>. QED  BY <3>2, <4>1, <4>2 DEF Kept
    <3>. QED  BY <3>3, <3>4
  <2>. QED  BY <2>1, <2>2
<1>. QED  BY <1>9, <1>10

LEMMA TrieInsertInv ==
  ASSUME TrieInv, NEW row \in RowsOfFile, TrieInsert(row)
  PROVE  TrieInv'
<1>1. /\ ~built /\ m_routing_table' = Append(m_routing_table, row)
      /\ configured' = Append(configured, row.in_use) /\ UNCHANGED built
  BY DEF TrieInsert
<1>2. /\ DOMAIN m_routing_table = 1..Len(m_routing_table) /\ Len(m_routing_table) \in Nat
      /\ m_routing_table \in Seq(RowsOfFile) /\ configured \in Seq(BOOLEAN)
      /\ Len(configured) = Len(m_routing_table) /\ row.in_use \in BOOLEAN
  BY RowFacts DEF TrieInv, TableTypes, RowsOfFile
<1>3. /\ DOMAIN m_routing_table' = 1..Len(m_routing_table) + 1
      /\ m_routing_table'[Len(m_routing_table) + 1] = row
      /\ configured'[Len(m_routing_table) + 1] = row.in_use
      /\ \A k \in 1..Len(m_routing_table) : /\ m_routing_table'[k] = m_routing_table[k]
                                            /\ configured'[k] = configured[k]
  BY <1>1, <1>2
<1>4. TableTypes'
  BY <1>1, <1>2 DEF TrieInv, TableTypes
<1>5. AsInFile'
  BY <1>1, <1>2, <1>3 DEF TrieInv, AsInFile
<1>6. Closed' /\ EndOf(row) \in nodes' /\ nodes \subseteq nodes'
  BY InsertCloses
<1>7. RowsHaveNodes'
  <2>. SUFFICES ASSUME NEW k \in DOMAIN m_routing_table'
                PROVE  EndOf(m_routing_table'[k]) \in nodes'
    BY DEF RowsHaveNodes
  <2>1. CASE k = Len(m_routing_table) + 1
    BY <2>1, <1>3, <1>6
  <2>2. CASE k # Len(m_routing_table) + 1
    <3>1. k \in DOMAIN m_routing_table
      BY <2>2, <1>2, <1>3
    <3>. QED  BY <3>1, <1>2, <1>3, <1>6 DEF TrieInv, RowsHaveNodes
  <2>. QED  BY <2>1, <2>2
<1>8. Pointers'
  <2>1. DOMAIN dest_addr' = nodes'
    BY DEF TrieInsert
  <2>. QED  BY <2>1, InsertKeeps DEF Pointers
<1>9. LeavesHaveRows'
  <2>. SUFFICES ASSUME NEW p \in nodes', Len(p) = Width PROVE RowsAt(p)' # {}
    BY DEF LeavesHaveRows
  <2>1. CASE p = EndOf(row)
    <3>1. Len(m_routing_table) + 1 \in DOMAIN m_routing_table'
      BY <1>2, <1>3
    <3>2. Len(m_routing_table) + 1 \in RowsAt(p)'
      BY <2>1, <3>1, <1>3 DEF RowsAt
    <3>. QED  BY <3>2
  <2>2. CASE p # EndOf(row)
    <3>1. p \in nodes
      BY <2>2, InsertCloses
    <3>2. PICK k \in RowsAt(p) : TRUE
      BY <3>1 DEF TrieInv, LeavesHaveRows
    <3>3. k \in 1..Len(m_routing_table) /\ EndOf(m_routing_table[k]) = p
      BY <1>2 DEF RowsAt
    <3>4. k \in DOMAIN m_routing_table' /\ EndOf(m_routing_table'[k]) = p
      BY <1>2, <1>3, <3>3
    <3>5. k \in RowsAt(p)'
      BY <3>4 DEF RowsAt
    <3>. QED  BY <3>5
  <2>. QED  BY <2>1, <2>2
<1>. QED  BY <1>4, <1>5, <1>6, <1>7, <1>8, <1>9 DEF TrieInv

\* Writing in_use changes no row's node and no history.
LEMMA SetInUseInv ==
  ASSUME TrieInv, NEW address \in Addresses, NEW value \in BOOLEAN, SetInUse(address, value)
  PROVE  TrieInv'
<1>1. /\ built /\ UNCHANGED <<configured, nodes, dest_addr, built>>
      /\ m_routing_table' = [k \in DOMAIN m_routing_table |->
                               IF m_routing_table[k].dest_addr = address
                               THEN [m_routing_table[k] EXCEPT !.in_use = value]
                               ELSE m_routing_table[k]]
  BY DEF SetInUse
<1>2. /\ DOMAIN m_routing_table = 1..Len(m_routing_table) /\ Len(m_routing_table) \in Nat
      /\ \A k \in DOMAIN m_routing_table : m_routing_table[k] \in RowsOfFile
  BY RowFacts DEF TrieInv
<1>3. DOMAIN m_routing_table' = DOMAIN m_routing_table
  BY <1>1
<1>4. \A k \in DOMAIN m_routing_table :
        /\ m_routing_table'[k] \in RowsOfFile
        /\ m_routing_table'[k].dest_addr = m_routing_table[k].dest_addr
        /\ m_routing_table'[k].mask = m_routing_table[k].mask
  BY <1>1, <1>2 DEF RowsOfFile
<1>5. \A k \in DOMAIN m_routing_table : EndOf(m_routing_table'[k]) = EndOf(m_routing_table[k])
  BY <1>4 DEF EndOf
<1>6. TableTypes'
  <2>1. m_routing_table' \in [1..Len(m_routing_table) -> RowsOfFile]
    BY <1>1, <1>2, <1>3, <1>4
  <2>2. m_routing_table' \in Seq(RowsOfFile) /\ Len(m_routing_table') = Len(m_routing_table)
    BY <1>2, <2>1
  <2>. QED  BY <2>2, <1>1 DEF TrieInv, TableTypes
<1>7. AsInFile' /\ Closed'
  BY <1>1 DEF TrieInv, AsInFile, Closed
<1>8. RowsHaveNodes'
  BY <1>1, <1>3, <1>5 DEF TrieInv, RowsHaveNodes
<1>9. Pointers' /\ LeavesHaveRows'
  <2>1. \A p \in nodes : RowsAt(p)' = RowsAt(p) /\ UsableAt(p)' = UsableAt(p)
    BY <1>1, <1>3, <1>5 DEF RowsAt, UsableAt
  <2>2. Pointers'
    BY <2>1, <1>1 DEF TrieInv, Pointers, Kept
  <2>3. LeavesHaveRows'
    BY <2>1, <1>1 DEF TrieInv, LeavesHaveRows
  <2>. QED  BY <2>2, <2>3
<1>. QED  BY <1>6, <1>7, <1>8, <1>9 DEF TrieInv

LEMMA NextInv ==
  ASSUME TrieInv, [Next]_vars
  PROVE  TrieInv'
<1>1. CASE EndOfFile
  BY <1>1 DEF EndOfFile, TrieInv, TableTypes, AsInFile, Closed, RowsHaveNodes, LeavesHaveRows,
              Pointers, Kept, RowsAt, UsableAt
<1>2. CASE UNCHANGED vars
  BY <1>2 DEF vars, TrieInv, TableTypes, AsInFile, Closed, RowsHaveNodes, LeavesHaveRows,
              Pointers, Kept, RowsAt, UsableAt
<1>. QED  BY <1>1, <1>2, TrieInsertInv, SetInUseInv DEF Next

\* The invariant holds in every state the table can be in.
LEMMA TrieAlways == Spec => []TrieInv
BY InitInv, NextInv, PTL DEF Spec

-----------------------------------------------------------------------------
\* Every node but the root hangs below another, and points to a row of its own prefix.
\* (trieInsert, for every width and table.)
THEOREM TypesAlways == Spec => []TypeOK
<1>1. ASSUME TrieInv PROVE TypeOK
  <2>. USE DEF TrieInv
  <2>1. \A p \in nodes \ {Root} : Prefix(p, Len(p) - 1) \in nodes
    <3>. SUFFICES ASSUME NEW p \in nodes \ {Root} PROVE Len(p) - 1 \in 0..Len(p)
      BY <1>1 DEF Closed
    <3>1. PICK n \in 0..Width : p \in [1..n -> {0, 1}]
      BY <1>1 DEF Closed, Prefixes
    <3>2. n \in Nat /\ Len(p) = n /\ p \in Seq({0, 1})
      BY <3>1, WidthAssumption
    <3>3. n # 0
      BY <3>2 DEF Root
    <3>. QED  BY <3>2, <3>3
  <2>2. ASSUME NEW p \in nodes, dest_addr[p] # NULL
        PROVE  EndOf(m_routing_table[dest_addr[p]]) = p
    BY <1>1, <2>2 DEF Pointers, Kept, RowsAt, UsableAt
  <2>. QED  BY <1>1, <2>1, <2>2 DEF TypeOK, Closed, Pointers, EndOf
<1>. QED  BY TrieAlways, <1>1, PTL

\* The row a node points to is the one that is meant of its rows.
LEMMA KeptIsMeant ==
  ASSUME TrieInv, NEW p \in nodes
  PROVE  dest_addr[p] = Meant(RowsAt(p))
<1>1. UsableAt(p) \subseteq RowsAt(p) /\ RowsAt(p) \in SUBSET Nat
  BY RowFacts DEF TrieInv, UsableAt, RowsAt
<1>2. Kept(p)
  BY DEF TrieInv, Pointers
<1>3. Meant(RowsAt(p)) =
        IF RowsAt(p) = {} THEN NULL
        ELSE IF UsableAt(p) # {} THEN CHOOSE k \in UsableAt(p) : \A j \in UsableAt(p) : k <= j
        ELSE CHOOSE k \in RowsAt(p) : \A j \in RowsAt(p) : k >= j
  BY DEF Meant, UsableAt
<1>4. CASE RowsAt(p) = {}
  BY <1>1, <1>2, <1>3, <1>4 DEF Kept
<1>5. CASE UsableAt(p) # {}
  <2>1. dest_addr[p] \in UsableAt(p) /\ \A j \in UsableAt(p) : dest_addr[p] <= j
    BY <1>1, <1>2, <1>5 DEF Kept
  <2>. QED  BY <1>1, <1>3, <1>5, <2>1, LeastIs
<1>6. CASE RowsAt(p) # {} /\ UsableAt(p) = {}
  <2>1. dest_addr[p] \in RowsAt(p) /\ \A j \in RowsAt(p) : dest_addr[p] >= j
    BY <1>2, <1>6 DEF Kept
  <2>. QED  BY <1>1, <1>3, <1>6, <2>1, GreatestIs
<1>. QED  BY <1>4, <1>5, <1>6

\* Whatever the table, a node keeps the first of its rows that the file has in use, or its
\* last row if none is, and no later write of in_use moves it (router.cpp:395-401).
THEOREM FirstUsableRowAlways == Spec => []FirstUsableRowKept
<1>1. ASSUME TrieInv PROVE FirstUsableRowKept
  BY <1>1, KeptIsMeant DEF FirstUsableRowKept, RowsAt, EndOf
<1>. QED  BY TrieAlways, <1>1, PTL

-----------------------------------------------------------------------------
\* The walk of a lookup ends somewhere, with everything behind it among the nodes.
LEMMA DepthFacts ==
  ASSUME TrieInv, NEW a \in Addresses
  PROVE  /\ Depth(a) \in 0..Width
         /\ Prefix(a, Depth(a)) \in nodes
         /\ \A n \in 0..Width : Prefix(a, n) \in nodes <=> n <= Depth(a)
<1>. DEFINE T == {n \in 0..Width : Prefix(a, n) \in nodes}
            P(n) == /\ Prefix(a, n) \in nodes
                    /\ n < Width => Prefix(a, n + 1) \notin nodes
<1>1. Width \in Nat /\ a \in [1..Width -> {0, 1}]
  BY WidthAssumption DEF Addresses
<1>2. Prefix(a, 0) = Root
  BY SubSeqEmpty DEF Prefix, Root
<1>3. T # {} /\ T \in SUBSET (0..Width)
  BY <1>1, <1>2 DEF TrieInv, Closed
<1>4. PICK d \in T : \A k \in T : d >= k
  BY <1>1, <1>3, Greatest
<1>5. d \in 0..Width /\ P(d)
  <2>1. d < Width => d + 1 \in 0..Width /\ ~(d >= d + 1)
    BY <1>1, <1>4
  <2>. QED  BY <1>4, <2>1
<1>6. Depth(a) \in 0..Width /\ P(Depth(a))
  <2>1. \E n \in 0..Width : P(n)
    BY <1>5
  <2>. QED  BY <2>1 DEF Depth
<1>7. ASSUME NEW n \in 0..Width, NEW k \in 0..n, Prefix(a, n) \in nodes
      PROVE  Prefix(a, k) \in nodes
  <2>1. Len(Prefix(a, n)) = n /\ Prefix(Prefix(a, n), k) = Prefix(a, k)
    BY <1>1, PrefixFacts, PrefixOfPrefix
  <2>2. \A i \in 0..Len(Prefix(a, n)) : Prefix(Prefix(a, n), i) \in nodes
    BY <1>7 DEF TrieInv, Closed
  <2>. QED  BY <2>1, <2>2
<1>8. ASSUME NEW n \in 0..Width PROVE Prefix(a, n) \in nodes <=> n <= Depth(a)
  <2>1. CASE n <= Depth(a)
    <3>1. n \in 0..Depth(a)
      BY <1>6, <2>1
    <3>. QED  BY <1>6, <1>7, <2>1, <3>1
  <2>2. CASE ~(n <= Depth(a))
    <3>1. Depth(a) < Width /\ Depth(a) + 1 \in 0..n
      BY <1>1, <1>6, <2>2
    <3>. QED  BY <1>6, <1>7, <2>2, <3>1
  <2>. QED  BY <2>1, <2>2
<1>. QED  BY <1>6, <1>8

\* A row that matches an address has its node on the walk, and that node points to a row.
LEMMA MatchingRow ==
  ASSUME TrieInv, NEW a \in Addresses, NEW k \in RowsFor(a)
  PROVE  /\ k \in DOMAIN m_routing_table
         /\ m_routing_table[k].mask \in 1..Depth(a)
         /\ k \in RowsAt(Prefix(a, m_routing_table[k].mask))
         /\ dest_addr[Prefix(a, m_routing_table[k].mask)] # NULL
<1>. DEFINE m == m_routing_table[k].mask
<1>1. /\ k \in DOMAIN m_routing_table /\ m > 0 /\ m \in 0..Width
      /\ EndOf(m_routing_table[k]) = Prefix(a, m)
  BY RowFacts DEF RowsFor, EndOf, TrieInv
<1>2. Prefix(a, m) \in nodes
  BY <1>1 DEF TrieInv, RowsHaveNodes
<1>3. m \in 1..Depth(a)
  BY <1>1, <1>2, DepthFacts, WidthAssumption
<1>4. k \in RowsAt(Prefix(a, m))
  BY <1>1 DEF RowsAt
<1>5. \A j \in RowsAt(Prefix(a, m)) : j # NULL
  BY RowFacts DEF RowsAt, NULL, TrieInv
<1>6. dest_addr[Prefix(a, m)] # NULL
  BY <1>2, <1>4, <1>5 DEF TrieInv, Pointers, Kept, UsableAt
<1>. QED  BY <1>1, <1>3, <1>4, <1>6

\* What a lookup meets last: the row of the longest prefix that points to one.
LEMMA RecentFacts ==
  ASSUME TrieInv, NEW a \in Addresses, RecentMatch(a) # NULL
  PROVE  \E n \in 1..Depth(a) :
           /\ RecentMatch(a) = dest_addr[Prefix(a, n)]
           /\ RecentMatch(a) \in RowsFor(a) /\ m_routing_table[RecentMatch(a)].mask = n
           /\ \A i \in 1..Depth(a) : dest_addr[Prefix(a, i)] # NULL => i <= n
<1>. DEFINE met == {n \in 1..Depth(a) : dest_addr[Prefix(a, n)] # NULL}
            n == CHOOSE i \in met : \A j \in met : i >= j
            row == RecentMatch(a)
<1>1. Depth(a) \in Nat /\ Depth(a) \in 0..Width /\ Width \in Nat
      /\ a \in [1..Width -> {0, 1}]
  BY DepthFacts, WidthAssumption DEF Addresses
<1>2. met # {} /\ met \in SUBSET (0..Depth(a)) /\ row = dest_addr[Prefix(a, n)]
  BY <1>1 DEF RecentMatch
<1>3. \E i \in met : \A j \in met : i >= j
  BY <1>1, <1>2, Greatest
<1>4. n \in met /\ \A j \in met : n >= j
  BY <1>3
<1>. HIDE DEF n
<1>5. n \in 1..Depth(a) /\ n \in 0..Width /\ n > 0 /\ \A i \in met : i <= n
  BY <1>1, <1>4
<1>6. Prefix(a, n) \in nodes
  BY <1>1, <1>5, DepthFacts
<1>7. row \in RowsAt(Prefix(a, n))
  BY <1>2, <1>4, <1>6 DEF TrieInv, Pointers, Kept, UsableAt
<1>8. row \in DOMAIN m_routing_table /\ EndOf(m_routing_table[row]) = Prefix(a, n)
      /\ m_routing_table[row] \in RowsOfFile
  BY <1>7, RowFacts DEF RowsAt, TrieInv
<1>9. m_routing_table[row].mask = n
  <2>1. Len(EndOf(m_routing_table[row])) = m_routing_table[row].mask
    BY <1>8, EndFacts
  <2>2. Len(Prefix(a, n)) = n
    BY <1>1, <1>5, PrefixFacts
  <2>. QED  BY <1>8, <2>1, <2>2
<1>10. row \in RowsFor(a)
  BY <1>5, <1>8, <1>9 DEF RowsFor, EndOf
<1>. QED  BY <1>2, <1>5, <1>9, <1>10

\* Where there is a row for an address, a lookup meets one.
LEMMA RecentFound ==
  ASSUME TrieInv, NEW a \in Addresses, RowsFor(a) # {}
  PROVE  RecentMatch(a) # NULL
<1>. DEFINE met == {n \in 1..Depth(a) : dest_addr[Prefix(a, n)] # NULL}
            n == CHOOSE i \in met : \A j \in met : i >= j
<1>1. PICK k \in RowsFor(a) : TRUE
  OBVIOUS
<1>2. m_routing_table[k].mask \in met /\ Depth(a) \in 0..Width
  BY <1>1, MatchingRow, DepthFacts
<1>3. met # {} /\ met \in SUBSET (0..Depth(a)) /\ Depth(a) \in Nat
  BY <1>2, WidthAssumption
<1>4. \E i \in met : \A j \in met : i >= j
  BY <1>3, Greatest
<1>5. n \in met
  BY <1>4
<1>6. RecentMatch(a) = dest_addr[Prefix(a, n)]
  BY <1>3 DEF RecentMatch
<1>. QED  BY <1>5, <1>6

\* For every width and table, a lookup answers exactly what a comparison with all rows
\* answers, nothing included (router.cpp:405-443).
THEOREM LongestAlways == Spec => []LookupIsLongest
<1>1. ASSUME TrieInv, NEW a \in Addresses
      PROVE  LET mask(k) == m_routing_table[k].mask
                 longest == {k \in RowsFor(a) : \A j \in RowsFor(a) : mask(j) <= mask(k)}
                 row == Meant(longest)
             IN  LongestPrefixMatch(a) =
                   IF longest = {} \/ (mask(row) = Width /\ ~m_routing_table[row].in_use)
                   THEN NULL ELSE row
  <2>. DEFINE mask(k) == m_routing_table[k].mask
              longest == {k \in RowsFor(a) : \A j \in RowsFor(a) : mask(j) <= mask(k)}
              row == Meant(longest)
              answer == IF longest = {} \/ (mask(row) = Width /\ ~m_routing_table[row].in_use)
                        THEN NULL ELSE row
  <2>1. CASE RowsFor(a) = {}
    <3>1. RecentMatch(a) = NULL
      BY <1>1, <2>1, RecentFacts
    <3>2. LongestPrefixMatch(a) = NULL /\ longest = {}
      BY <2>1, <3>1 DEF LongestPrefixMatch
    <3>. QED  BY <3>2
  <2>2. CASE RowsFor(a) # {}
    <3>1. RecentMatch(a) # NULL
      BY <1>1, <2>2, RecentFound
    <3>2. PICK n \in 1..Depth(a) :
            /\ RecentMatch(a) = dest_addr[Prefix(a, n)]
            /\ RecentMatch(a) \in RowsFor(a) /\ mask(RecentMatch(a)) = n
            /\ \A i \in 1..Depth(a) : dest_addr[Prefix(a, i)] # NULL => i <= n
      BY <1>1, <3>1, RecentFacts
    <3>3. /\ Depth(a) \in 0..Width /\ Width \in Nat /\ a \in [1..Width -> {0, 1}]
          /\ \A i \in 0..Width : Prefix(a, i) \in nodes <=> i <= Depth(a)
      BY <1>1, DepthFacts, WidthAssumption DEF Addresses
    <3>4. n \in 0..Width /\ n > 0 /\ Prefix(a, n) \in nodes
      BY <3>3
    <3>5. \A k \in RowsFor(a) : mask(k) \in Nat /\ mask(k) <= n
      BY <1>1, <3>2, MatchingRow
    <3>6. longest = {k \in RowsFor(a) : mask(k) = n}
      BY <3>2, <3>4, <3>5
    <3>7. longest = RowsAt(Prefix(a, n))
      <4>1. ASSUME NEW k \in longest PROVE k \in RowsAt(Prefix(a, n))
        BY <1>1, <3>6, <4>1, MatchingRow
      <4>2. ASSUME NEW k \in RowsAt(Prefix(a, n)) PROVE k \in longest
        <5>1. /\ k \in DOMAIN m_routing_table /\ m_routing_table[k] \in RowsOfFile
              /\ EndOf(m_routing_table[k]) = Prefix(a, n)
          BY <1>1, RowFacts DEF RowsAt, TrieInv
        <5>2. Len(Prefix(a, n)) = n
          BY <3>3, <3>4, PrefixFacts
        <5>3. mask(k) = n
          BY <5>1, <5>2, EndFacts
        <5>4. k \in RowsFor(a)
          BY <5>1, <5>3, <3>4 DEF RowsFor, EndOf
        <5>. QED  BY <3>6, <5>3, <5>4
      <4>. QED  BY <4>1, <4>2
    <3>8. row = RecentMatch(a)
      BY <1>1, <3>2, <3>4, <3>7, KeptIsMeant
    <3>9. Depth(a) = Width <=> n = Width
      <4>1. CASE Depth(a) = Width
        <5>1. Prefix(a, Width) \in nodes /\ Len(Prefix(a, Width)) = Width /\ Width \in 1..Depth(a)
          BY <3>3, <4>1, PrefixFacts, WidthAssumption
        <5>2. RowsAt(Prefix(a, Width)) # {}
          BY <1>1, <5>1 DEF TrieInv, LeavesHaveRows
        <5>3. \A j \in RowsAt(Prefix(a, Width)) : j # NULL
          BY <1>1, RowFacts DEF RowsAt, NULL, TrieInv
        <5>4. dest_addr[Prefix(a, Width)] # NULL
          BY <1>1, <5>1, <5>2, <5>3 DEF TrieInv, Pointers, Kept, UsableAt
        <5>5. Width <= n
          BY <3>2, <5>1, <5>4
        <5>. QED  BY <3>3, <3>4, <4>1, <5>5
      <4>2. CASE Depth(a) # Width
        BY <3>3, <4>2
      <4>. QED  BY <4>1, <4>2
    <3>10. longest # {}
      BY <3>2, <3>6
    <3>11. mask(row) = n
      BY <3>2, <3>8
    <3>12. LongestPrefixMatch(a) =
             IF n = Width /\ ~m_routing_table[RecentMatch(a)].in_use THEN NULL ELSE RecentMatch(a)
      BY <3>1, <3>9 DEF LongestPrefixMatch
    <3>13. LongestPrefixMatch(a) = answer
      <4>. HIDE DEF longest, row, mask
      <4>. QED  BY <3>8, <3>10, <3>11, <3>12
    <3>. QED  BY <3>13
  <2>. QED  BY <2>1, <2>2
<1>2. TrieInv => LookupIsLongest
  BY <1>1 DEF LookupIsLongest
<1>. QED  BY TrieAlways, <1>2, PTL

\* A host route that is the only row for its address is found exactly while in_use says
\* so, whatever other rows the table has (router.cpp:437).
THEOREM HostRoutesAlways == Spec => []HostRoutesFollowFlags
<1>1. ASSUME TrieInv PROVE HostRoutesFollowFlags
  <2>. SUFFICES ASSUME NEW k \in DOMAIN m_routing_table,
                       m_routing_table[k].mask = Width,
                       RowsFor(m_routing_table[k].dest_addr) = {k}
                PROVE  LongestPrefixMatch(m_routing_table[k].dest_addr)
                         = IF m_routing_table[k].in_use THEN k ELSE NULL
    BY DEF HostRoutesFollowFlags
  <2>. DEFINE a == m_routing_table[k].dest_addr
  <2>1. a \in Addresses /\ k \in RowsFor(a) /\ k # NULL
    BY <1>1, RowFacts DEF TrieInv, NULL
  <2>2. Width \in 1..Depth(a) /\ dest_addr[Prefix(a, Width)] # NULL /\ Depth(a) \in 0..Width
    BY <1>1, <2>1, MatchingRow, DepthFacts
  <2>3. Depth(a) = Width
    BY <2>2, WidthAssumption
  <2>4. RecentMatch(a) # NULL
    BY <1>1, <2>1, RecentFound
  <2>5. RecentMatch(a) = k
    BY <1>1, <2>1, <2>4, RecentFacts
  <2>. QED  BY <2>1, <2>3, <2>5 DEF LongestPrefixMatch
<1>. QED  BY TrieAlways, <1>1, PTL

=============================================================================
