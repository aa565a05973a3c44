----------------------------- MODULE MCChanTrap -----------------------------
\* An instance of ChanTrap for TLC: one user, two channels and a
\* mask that covers both.
EXTENDS ChanTrap, TLC

CONSTANTS u1, u2, h1, c1, c2, w1, d1, d2, b1

HostsOf   == [u \in Users |-> h1]
MaskedBy  == [m \in {c1, c2, w1} |-> IF m = w1 THEN {c1, c2} ELSE {m}]
Symmetry  == Permutations({c1, c2}) \union Permutations({d1, d2})
=============================================================================
