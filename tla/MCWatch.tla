------------------------------ MODULE MCWatch ------------------------------
EXTENDS Watch, TLC

CONSTANTS i, j, h, r

MCAddresses == {<<h, i>>, <<j, j>>}
MCCovers == [k \in {h, r} |-> IF k = r THEN {i} ELSE {}]

Symmetry == Permutations(Conns)

=============================================================================
