------------------------------ MODULE MCTunnels ------------------------------
\* Instances of Tunnels: two sites, one with two subnets.
EXTENDS Tunnels, TLC

CONSTANTS east, west, w1, w2, east1, east2, west1

Homes == (east1 :> east) @@ (east2 :> east) @@ (west1 :> west)

Symmetry == Permutations(Workers) \union Permutations({east1, east2})
=============================================================================
