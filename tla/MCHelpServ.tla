----------------------------- MODULE MCHelpServ -----------------------------
\* Instances of HelpServ for TLC: which nicks belong to which account.
EXTENDS HelpServ

OneName == [o \in Owners |-> IF o = "A" THEN {"ann"} ELSE {"bob"}]
TwoNames == [o \in Owners |-> IF o = "A" THEN {"ann", "andy"} ELSE {"bob"}]
=============================================================================
