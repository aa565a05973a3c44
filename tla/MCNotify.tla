------------------------------ MODULE MCNotify ------------------------------
\* An instance of Notify for TLC: who is matched by which mask.
EXTENDS Notify, TLC

CONSTANTS e1, e2, u1, u2, c1, bad, good, badMask, chanMask

Everything == {"S", "c", "d", "j", "k", "m", "n", "p", "s", "t", "u"}
Matching   == [m \in {badMask, chanMask} |-> IF m = badMask THEN {bad} ELSE {c1}]
FlagChoice == {Everything}
LifeChoice == {Never, 1}
Exclusions == {{}, {good}}
Symmetry   == Permutations({e1, e2})
=============================================================================
