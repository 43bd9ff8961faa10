-------------------------------- MODULE Ring --------------------------------
(***************************************************************************)
(* The token ring of a datacenter: its nodes in the order of their tokens, *)
(* and the placement of a token on them.  A node is a record with an id    *)
(* and a token; tokens are numbers, as bytes.Compare orders byte strings.  *)
(***************************************************************************)
EXTENDS Integers, Sequences, FiniteSets, SequencesExt

\* The nodes of the ring (nodeMap), and the ids they are filed under
Nodes(ring) == {ring[k] : k \in DOMAIN ring}
Ids(ring) == {n.id : n \in Nodes(ring)}

\* Mutant: the order of insertion is kept
refreshUnsorted(ring, S) == ring \o SetToSeq(S \ Nodes(ring))

\* nodeSorter puts the nodes S in order; the ring before plays no part
refreshRing(ring, S) ==
    CHOOSE s \in SetToSeqs(S) : \A j, k \in DOMAIN s : j < k => s[j].token < s[k].token

\* Ring.AddNode: a known id is an error and changes nothing
CanAdd(ring, n) == n.id \notin Ids(ring)
AddNode(ring, n) == refreshRing(ring, Nodes(ring) \cup {n})

\* Mutant: a token that equals a node's belongs to the next node
SearchAbove(ring, t) == Cardinality({k \in DOMAIN ring : ring[k].token <= t})

\* sort.Search: the first index, from 0, of a token that is not below t, or the length
Search(ring, t) == Cardinality({k \in DOMAIN ring : ring[k].token < t})

\* Mutant: keys are spread by the remainder of their token
GetNodesByRemainder(ring, t, replicationFactor) ==
    LET n == Len(ring)
    IN  [i \in 1..(IF n < replicationFactor THEN n ELSE replicationFactor) |->
            ring[((t + i - 1) % n) + 1]]

\* The owner of the token and the nodes after it
GetNodesForToken(ring, t, replicationFactor) ==
    LET n == Len(ring)
    IN  [i \in 1..(IF n < replicationFactor THEN n ELSE replicationFactor) |->
            ring[((Search(ring, t) + i - 1) % n) + 1]]
=============================================================================
