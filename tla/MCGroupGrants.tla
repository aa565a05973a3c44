--------------------------- MODULE MCGroupGrants ---------------------------
(***************************************************************************)
(* All lists of up to two entries over the channels and a group.           *)
(***************************************************************************)
EXTENDS GroupGrants, TLC

\* A group has the privilege or not; that of other entries plays no part.
Entries == [mask : Groups, priv : BOOLEAN] \union [mask : Channels \union {Other}, priv : {FALSE}]
MCLists == UNION {[1..n -> Entries] : n \in 0..2}
Sym == Permutations(Channels)
=============================================================================
