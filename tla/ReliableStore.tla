--------------------------- MODULE ReliableStore ---------------------------
(***************************************************************************)
(* What a flat-file database of the services modules is for: the stored    *)
(* tables are replaced by those in memory all at once, and a start reads   *)
(* the tables that were stored last.  On an unreliable file system a save  *)
(* may lose items, but it stores nothing that is not in memory.            *)
(***************************************************************************)
CONSTANT Items          \* lines of the database: groups, invitations, ...

VARIABLES reliable,     \* no call of the file system fails
          up,           \* the module is loaded
          memory,       \* the tables in memory
          stored        \* what a start would read

vars == <<reliable, up, memory, stored>>

Init == reliable \in BOOLEAN /\ up = TRUE /\ memory = {} /\ stored = {}

Change == up /\ memory' \in SUBSET Items /\ UNCHANGED <<reliable, up, stored>>

Replace == up /\ stored' = memory /\ UNCHANGED <<reliable, up, memory>>

Damage ==
  /\ up /\ ~reliable
  /\ stored' \in SUBSET memory
  /\ UNCHANGED <<reliable, up, memory>>

Stop == up /\ up' = FALSE /\ memory' = {} /\ UNCHANGED <<reliable, stored>>

Start == ~up /\ up' = TRUE /\ memory' = stored /\ UNCHANGED <<reliable, stored>>

Next == Change \/ Replace \/ Damage \/ Stop \/ Start

Spec == Init /\ [][Next]_vars
=============================================================================
