------------------------------- MODULE Cluster -------------------------------
(***************************************************************************)
(* The static configuration of a raftkv cluster (internal/raft/config.go): *)
(* who the nodes are and how many of them make a majority.  A node's own   *)
(* Config lists everyone else as Peers; here the set of all nodes is one   *)
(* constant and Peers(i) recovers node i's list.                           *)
(***************************************************************************)
EXTENDS Naturals, FiniteSets

CONSTANTS Node,   \* the NodeIDs of the cluster
          None    \* the empty NodeID ""

\* Config.Validate: ids are distinct (Node is a set) and never empty, and an
\* even-sized cluster is refused at start-up.
ASSUME ClusterAssumption ==
    /\ IsFiniteSet(Node)
    /\ Cardinality(Node) % 2 = 1
    /\ None \notin Node

\* Mutant: a configuration that lists the node among its own peers.
PeersAndSelf(i) == Node

Peers(i) == Node \ {i}

ClusterSize == Cardinality(Node)

\* Mutant: half of the nodes are a majority.
HalfIsMajority == ClusterSize \div 2

Majority == (ClusterSize \div 2) + 1

\* The loops of campaign, Propose and confirmRound all start counting at one,
\* for the node itself, and stop once the count reaches Majority.
IsMajority(S) == Cardinality(S) >= Majority
=============================================================================
