----------------------------- MODULE GroupStore -----------------------------
(***************************************************************************)
(* groupserv.db on disk, below the tables of module GroupServ: SaveDB      *)
(* writes groupserv.db.tmp, closes it and renames it, with a remove and a  *)
(* second rename when the first one fails; services may crash between any  *)
(* two of these calls (src/GroupServ/groupserv_core.cpp).                  *)
(*                                                                         *)
(* The tables are a set of items, one per group or invitation.  SaveDB     *)
(* runs inside a command handler or the save timer, so nothing else of     *)
(* services changes the tables meanwhile.  A file is {} when it does not   *)
(* exist and {contents} when it does.                                      *)
(***************************************************************************)
CONSTANTS Items

VARIABLES faults,   \* what may fail in this behaviour
          up,       \* services run
          memory,   \* the tables
          pc,       \* where SaveDB is, "idle" outside of it
          todo,     \* items not yet written
          tmp,      \* groupserv.db.tmp
          db        \* groupserv.db

vars == <<faults, up, memory, pc, todo, tmp, db>>

FaultKinds == {"disk",        \* opening and writing
               "rename"}      \* rename and remove

NoFile == {}
File(contents) == {contents}
ContentsOf(file) == UNION file      \* nothing when there is no file

Init ==
  /\ faults \in SUBSET FaultKinds
  /\ up = TRUE /\ memory = {}
  /\ pc = "idle" /\ todo = {}
  /\ tmp = NoFile /\ db = NoFile

\* A handler changes the tables, then calls SaveDB before it replies.
Change ==
  /\ up /\ pc = "idle"
  /\ memory' \in SUBSET Items
  /\ pc' = "open"
  /\ UNCHANGED <<faults, up, todo, tmp, db>>

\* The save timer and the destructor.
Save ==
  /\ up /\ pc = "idle"
  /\ pc' = "open"
  /\ UNCHANGED <<faults, up, memory, todo, tmp, db>>

OpenTmp ==
  /\ pc = "open"
  /\ tmp' = File({}) /\ todo' = memory
  /\ pc' = "write"
  /\ UNCHANGED <<faults, up, memory, db>>

\* "Unable to write": the change stays in memory only.
OpenFails ==
  /\ pc = "open" /\ "disk" \in faults
  /\ pc' = "idle"
  /\ UNCHANGED <<faults, up, memory, todo, tmp, db>>

WriteItem ==
  /\ pc = "write"
  /\ \E i \in todo : tmp' = File(ContentsOf(tmp) \union {i}) /\ todo' = todo \ {i}
  /\ UNCHANGED <<faults, up, memory, pc, db>>

\* A failed write sets the stream's error bit: every later write is dropped and
\* nobody looks at the bit.
WriteFails ==
  /\ pc = "write" /\ "disk" \in faults
  /\ todo' = {}
  /\ UNCHANGED <<faults, up, memory, pc, tmp, db>>

Close ==
  /\ pc = "write" /\ todo = {}
  /\ pc' = "rename"
  /\ UNCHANGED <<faults, up, memory, todo, tmp, db>>

Rename ==
  /\ pc \in {"rename", "again"}
  /\ db' = tmp /\ tmp' = NoFile
  /\ pc' = "idle"
  /\ UNCHANGED <<faults, up, memory, todo>>

\* The first failure leads to the remove, the second one is only logged.
RenameFails ==
  /\ pc \in {"rename", "again"} /\ "rename" \in faults
  /\ pc' = IF pc = "rename" THEN "remove" ELSE "idle"
  /\ UNCHANGED <<faults, up, memory, todo, tmp, db>>

\* A plausible slip: the wrong one of the two names is removed.
RemoveTmp ==
  /\ pc = "remove"
  /\ tmp' \in {tmp, NoFile}
  /\ pc' = "again"
  /\ UNCHANGED <<faults, up, memory, todo, db>>

\* The error code of the remove is thrown away.
Remove ==
  /\ pc = "remove"
  /\ db' \in {db, NoFile}
  /\ pc' = "again"
  /\ UNCHANGED <<faults, up, memory, todo, tmp>>

SaveDB == \/ OpenTmp \/ OpenFails
          \/ WriteItem \/ WriteFails \/ Close
          \/ Rename \/ RenameFails \/ Remove

\* Services stop, killed at any point or after the destructor's save.
Stop ==
  /\ up /\ up' = FALSE
  /\ memory' = {} /\ pc' = "idle" /\ todo' = {}
  /\ UNCHANGED <<faults, tmp, db>>

\* A plausible slip: a leftover .tmp is taken for the newer database.
StartFromTmp ==
  /\ ~up /\ up' = TRUE
  /\ memory' = IF tmp # NoFile THEN ContentsOf(tmp) ELSE ContentsOf(db)
  /\ UNCHANGED <<faults, pc, todo, tmp, db>>

\* LoadDB: without a file the tables stay empty; the .tmp file is not looked at.
Start ==
  /\ ~up /\ up' = TRUE
  /\ memory' = ContentsOf(db)
  /\ UNCHANGED <<faults, pc, todo, tmp, db>>

Next == Change \/ Save \/ SaveDB \/ Stop \/ Start

Spec == Init /\ [][Next]_vars

-----------------------------------------------------------------------------
(* Properties *)

Files == {NoFile} \union {File(s) : s \in SUBSET Items}

TypeOK ==
  /\ faults \subseteq FaultKinds
  /\ up \in BOOLEAN
  /\ memory \subseteq Items
  /\ pc \in {"idle", "open", "write", "rename", "remove", "again"}
  /\ todo \subseteq Items
  /\ tmp \in Files /\ db \in Files

\* What a start would read.
Stored == ContentsOf(db)

Store == INSTANCE ReliableStore WITH reliable <- (faults = {}), stored <- Stored

\* Without faults the file is replaced atomically, so that a start after a crash at
\* any moment reads the tables saved last; with faults a save may lose items but
\* never stores one that was not in memory, whatever an earlier save left in the
\* .tmp file (SaveDB, LoadDB).
ImplementsStore == Store!Spec

\* Without faults a handler replies when its change is in the file (SaveDB).
RepliesAreStored == faults = {} /\ up /\ pc = "idle" => Stored = memory

\* As long as the disk takes what is written, the tables a handler has replied about
\* are complete in one of the two files, whatever rename and remove do.
TablesAreInAFile ==
  "disk" \notin faults /\ up /\ pc = "idle" => \E file \in {db, tmp} : ContentsOf(file) = memory

\* What SaveDB has done so far: the temporary file holds tables only and, on a disk
\* that takes them, all those that are not left to write.
Progress ==
  /\ pc # "idle" => up
  /\ pc = "write" => todo \subseteq memory
  /\ pc \in {"rename", "remove", "again"} => todo = {}
  /\ pc \in {"write", "rename", "remove", "again"} =>
       /\ tmp # NoFile /\ ContentsOf(tmp) \subseteq memory
       /\ "disk" \notin faults => memory \subseteq ContentsOf(tmp) \union todo
  /\ pc \in {"remove", "again"} => "rename" \in faults

\* The inductive invariant.
SaveInv == TypeOK /\ Progress /\ RepliesAreStored /\ TablesAreInAFile

=============================================================================
