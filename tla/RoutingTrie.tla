---------------------------- MODULE RoutingTrie ----------------------------
(***************************************************************************)
(* The routing table of a router as a trie (router.cpp trieConstructor,    *)
(* trieInsert and longestPrefixMatch), whose rows the main thread marks    *)
(* in use and out of use while lookups go on (AS.cpp).                     *)
(*                                                                         *)
(* An address is its bits, first bit first; a node of the trie is the path *)
(* that leads to it.  A mask counts for its leading ones, all that         *)
(* trieInsert looks at.                                                    *)
(***************************************************************************)
EXTENDS Naturals, Sequences, FiniteSets

CONSTANTS Width,   \* bits of an address (32 in the code)
          MaxRows  \* bound: rows of the routing table

ASSUME WidthAssumption == Width \in Nat \ {0} /\ MaxRows \in Nat

VARIABLES
  m_routing_table,  \* the rows read so far
  configured,       \* history: in_use as the file had it, row by row
  nodes,            \* the nodes of m_address_trie
  dest_addr,        \* the row each node points to, 0 for NULL
  built             \* has trieConstructor finished?

vars == <<m_routing_table, configured, nodes, dest_addr, built>>

Addresses == [1..Width -> {0, 1}]
Prefix(address, length) == SubSeq(address, 1, length)
Prefixes == UNION {[1..n -> {0, 1}] : n \in 0..Width}
Root == <<>>
NULL == 0
RowsOfFile == [dest_addr : Addresses, mask : 0..Width, in_use : BOOLEAN]

Init ==
  /\ m_routing_table = <<>> /\ configured = <<>>
  /\ nodes = {Root} /\ dest_addr = [p \in {Root} |-> NULL]
  /\ built = FALSE

-----------------------------------------------------------------------------
\* Mutant: a later row always takes the node over.
KeepsNever(pointer) == pointer < NULL
\* A node keeps its row if that row is in use.
Keeps(pointer) == pointer # NULL /\ m_routing_table[pointer].in_use

\* Mutant: the mask is forgotten.
EndOfUnmasked(row) == row.dest_addr
EndOf(row) == Prefix(row.dest_addr, row.mask)

\* trieInsert: walk down the masked address, making the nodes that are missing.
TrieInsert(row) ==
  LET number == Len(m_routing_table) + 1
      end == EndOf(row)
      path == {Prefix(row.dest_addr, n) : n \in 0..row.mask}
      found == IF end \in nodes THEN dest_addr[end] ELSE NULL
  IN  /\ ~built /\ number <= MaxRows
      /\ m_routing_table' = Append(m_routing_table, row)
      /\ configured' = Append(configured, row.in_use)
      /\ nodes' = nodes \cup path
      /\ dest_addr' = [p \in nodes \cup path |->
                         IF p = end /\ ~Keeps(found) THEN number
                         ELSE IF p \in nodes THEN dest_addr[p] ELSE NULL]
      /\ UNCHANGED built

EndOfFile ==
  /\ ~built /\ built' = TRUE
  /\ UNCHANGED <<m_routing_table, configured, nodes, dest_addr>>

\* hookUpRequest, broadcastUpdate and withdrawalSignal write in_use of every row for
\* the destination, whatever its mask.
SetInUse(address, value) ==
  /\ built
  /\ m_routing_table' = [k \in DOMAIN m_routing_table |->
                           IF m_routing_table[k].dest_addr = address
                           THEN [m_routing_table[k] EXCEPT !.in_use = value]
                           ELSE m_routing_table[k]]
  /\ UNCHANGED <<configured, nodes, dest_addr, built>>

Next == \/ \E row \in RowsOfFile : TrieInsert(row)
        \/ EndOfFile
        \/ \E address \in Addresses, value \in BOOLEAN : SetInUse(address, value)

Spec == Init /\ [][Next]_vars

-----------------------------------------------------------------------------
(* longestPrefixMatch.                                                     *)

\* How deep the walk gets before a child is missing.
Depth(address) == CHOOSE n \in 0..Width :
                    /\ Prefix(address, n) \in nodes
                    /\ n < Width => Prefix(address, n + 1) \notin nodes

\* Mutant: the first row met is kept instead of the last.
RecentMatchShortest(address) ==
  LET met == {n \in 1..Depth(address) : dest_addr[Prefix(address, n)] # NULL}
  IN  IF met = {} THEN NULL
      ELSE dest_addr[Prefix(address, CHOOSE n \in met : \A m \in met : n <= m)]

\* The root itself is never looked at: a default route is never met.
RecentMatch(address) ==
  LET met == {n \in 1..Depth(address) : dest_addr[Prefix(address, n)] # NULL}
  IN  IF met = {} THEN NULL
      ELSE dest_addr[Prefix(address, CHOOSE n \in met : \A m \in met : n >= m)]

\* Mutant: in_use is never tested.
LongestPrefixMatchUnchecked(address) == RecentMatch(address)

\* in_use is tested only when the walk has used up all the bits of the address.
LongestPrefixMatch(address) ==
  LET recent == RecentMatch(address)
  IN  IF Depth(address) = Width /\ recent # NULL /\ ~m_routing_table[recent].in_use
      THEN NULL ELSE recent

-----------------------------------------------------------------------------
(* Properties.                                                             *)

RowsFor(address) ==
  {k \in DOMAIN m_routing_table :
     /\ m_routing_table[k].mask > 0
     /\ Prefix(m_routing_table[k].dest_addr, m_routing_table[k].mask)
          = Prefix(address, m_routing_table[k].mask)}

\* The nodes are closed under taking prefixes, and point to rows of their own prefix.
TypeOK ==
  /\ nodes \subseteq Prefixes /\ Root \in nodes
  /\ \A p \in nodes \ {Root} : Prefix(p, Len(p) - 1) \in nodes
  /\ DOMAIN dest_addr = nodes
  /\ \A p \in nodes : dest_addr[p] # NULL =>
       Prefix(m_routing_table[dest_addr[p]].dest_addr, m_routing_table[dest_addr[p]].mask) = p

\* Of rows for one prefix the first that the file has in use is meant, or the last one
\* if none is.
Meant(rows) ==
  LET usable == {k \in rows : configured[k]}
  IN  IF rows = {} THEN NULL
      ELSE IF usable # {} THEN CHOOSE k \in usable : \A j \in usable : k <= j
      ELSE CHOOSE k \in rows : \A j \in rows : k >= j

\* A lookup answers what a comparison with every row of the table answers: of the rows
\* for that address those of the longest mask, in use or not, and of these the one that
\* is meant; nothing if there is no row, or if that one is a host route out of use.
LookupIsLongest ==
  \A a \in Addresses :
    LET mask(k) == m_routing_table[k].mask
        longest == {k \in RowsFor(a) : \A j \in RowsFor(a) : mask(j) <= mask(k)}
        row == Meant(longest)
    IN  LongestPrefixMatch(a) =
          IF longest = {} \/ (mask(row) = Width /\ ~m_routing_table[row].in_use)
          THEN NULL ELSE row

\* Each node points to the row that is meant of those with its prefix, and later writes
\* of in_use never move it to another.
FirstUsableRowKept ==
  \A p \in nodes \ {Root} :
    dest_addr[p] = Meant({k \in DOMAIN m_routing_table :
      Prefix(m_routing_table[k].dest_addr, m_routing_table[k].mask) = p})

\* A host route (a full mask, as all rows of router_*.txt have) that is the only row
\* for its address is found exactly while it is in use.
HostRoutesFollowFlags ==
  \A k \in DOMAIN m_routing_table :
    LET row == m_routing_table[k]
    IN  row.mask = Width /\ RowsFor(row.dest_addr) = {k}
          => LongestPrefixMatch(row.dest_addr) = (IF row.in_use THEN k ELSE NULL)

=============================================================================
