--------------------------- MODULE MCAccessStores ---------------------------
(***************************************************************************)
(* AccessStores on a few devices, addresses and tokens.                    *)
(***************************************************************************)
EXTENDS AccessStores, TLC

CONSTANTS k1, k2, k3, h1, h2, t1, t2, o1, o2

Symmetry == Permutations(Keys) \cup Permutations(Hosts)
              \cup Permutations(Tokens) \cup Permutations(Owners)
=============================================================================
