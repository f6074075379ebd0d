----------------------------- MODULE MCPeerTable -----------------------------
(* Model-checking instance of PeerTable.                                     *)
EXTENDS PeerTable, TLC

\* A default route and a prefix below an empty node.
Nested == {<<>>, <<0, 1>>}

Symmetry == Permutations(PublicKeys) \cup Permutations(Remotes)
                \cup Permutations(Keypairs)
=============================================================================
