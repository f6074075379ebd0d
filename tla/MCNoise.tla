------------------------------- MODULE MCNoise -------------------------------
(* Model-checking instance of Noise, with the mutated forms of its           *)
(* definitions that the properties must tell from the code.                  *)
EXTENDS Noise, TLC

Symmetry ==
    Permutations(Remotes) \cup Permutations(Keypairs)
        \cup Permutations(Indices) \cup Permutations(Users)
=============================================================================
