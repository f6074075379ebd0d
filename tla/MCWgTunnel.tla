----------------------------- MODULE MCWgTunnel -----------------------------
(* Model-checking instances of WgTunnel.                                     *)
EXTENDS WgTunnel, TLC

CONSTANTS A, B

SessionAndCore == (A :> "session") @@ (B :> "core")

MoreFromB == (A :> 1) @@ (B :> 2)

Symmetry == Permutations(Indices)
=============================================================================
