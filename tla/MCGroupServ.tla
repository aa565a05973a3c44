---------------------------- MODULE MCGroupServ ----------------------------
\* Instances of GroupServ for TLC: the flag strings users type.
EXTENDS GroupServ

CONSTANTS alice, bob, carol, dev, ops

NoChanges     == {}
FounderOnly   == {<<Plus({"FOUNDER"})>>}
AccessChanges == {<<Plus({"FOUNDER"})>>, <<Minus({"FOUNDER"})>>, <<BareMinus>>,
                  <<Plus({"BAN"})>>}
SomeJoinFlags == {<<>>, <<Plus({"FOUNDER"})>>}

\* Accounts without privileges are interchangeable.
UserSymmetry == Permutations(Accounts \ Admins)
=============================================================================
