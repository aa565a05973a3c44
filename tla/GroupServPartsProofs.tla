------------------------ MODULE GroupServPartsProofs ------------------------
(***************************************************************************)
(* The parts of GroupServ that are modelled by themselves.                 *)
(*                                                                         *)
(* ParseFlagsLoop: the loop of GroupServCore::ParseFlags computes its      *)
(* declarative meaning, for every input, by the loop invariant LoopInv.    *)
(*                                                                         *)
(* GroupStore implements ReliableStore: an atomic store without faults,    *)
(* one that loses items but never brings any back with them.               *)
(*                                                                         *)
(* GroupGrants: the search gives a privilege exactly where the lists give  *)
(* it, for every set of channels, groups, lists and every MAX_DEPTH.       *)
(***************************************************************************)
EXTENDS ParseFlagsLoop, GroupStore, GroupGrants, FiniteSetTheorems, SequenceTheorems, TLAPS

-----------------------------------------------------------------------------
(* ParseFlags *)

\* One more token: the last-word semantics advances as the loop body does.
LEMMA OneMoreToken ==
  ASSUME NEW tokens \in Seq(Token), NEW n \in 0..(Len(tokens) - 1),
         NEW minus \in BOOLEAN, NEW cur \in SUBSET AccessFlags
  PROVE  LastWord(tokens, n + 1, minus, cur) =
           IF tokens[n + 1].dir = "-" /\ ~minus
           THEN LastWord(tokens, n, minus, cur)
           ELSE Apply(tokens[n + 1], LastWord(tokens, n, minus, cur))
<1> DEFINE tok == tokens[n + 1]
           old == LastWord(tokens, n, minus, cur)
           new == LastWord(tokens, n + 1, minus, cur)
<1>1. tok \in Token /\ n \in Nat /\ n + 1 \in 1..Len(tokens)
  OBVIOUS
<1>2. \A i \in 1..n+1 : i \in 1..n \/ i = n + 1
  BY <1>1
<1>3. \A i \in 1..n : i + 1 .. n + 1 = (i + 1 .. n) \union {n + 1} /\ n + 1 \notin 1..n
  BY <1>1
<1>4. (n + 1) + 1 .. n + 1 = {}
  BY <1>1
<1>5. \A f \in AccessFlags :
        f \in new <=>
          \/ tok.dir = "+" /\ f \in Mentions(tok)
          \/ f \in old /\ (Counts(tok, minus) => f \notin Mentions(tok))
  BY <1>1, <1>2, <1>3, <1>4 DEF LastWord
<1>6. old \subseteq AccessFlags /\ new \subseteq AccessFlags
  BY DEF LastWord
<1>7. tok.dir \in {"+", "-"} /\ tok.bits \subseteq AccessFlags /\ tok.bare \in BOOLEAN
  BY <1>1 DEF Token
<1>8. CASE tok.dir = "-" /\ ~minus
  BY <1>5, <1>6, <1>8 DEF Counts
<1>9. CASE ~(tok.dir = "-" /\ ~minus)
  BY <1>5, <1>6, <1>7, <1>9 DEF Counts, Mentions, Apply, AllNoFounder, All
<1> QED BY <1>8, <1>9

\* Nothing consumed, nothing changed.
LEMMA NoToken ==
  ASSUME NEW tokens, NEW minus, NEW cur \in SUBSET AccessFlags
  PROVE  LastWord(tokens, 0, minus, cur) = cur
BY DEF LastWord

\* The loop invariant holds in every reachable state of every input (ParseFlags).
THEOREM LoopInvariant == LoopSpec => []LoopInv
<1>1. LoopInit => LoopInv
  <2> SUFFICES ASSUME LoopInit PROVE LoopInv
    OBVIOUS
  <2>1. input \in Seq(Token) /\ current \subseteq AccessFlags
    BY InputsAssumption, CurrentsAssumption DEF LoopInit
  <2>2. Len(input) \in Nat /\ pos \in 0..Len(input)
    BY <2>1 DEF LoopInit
  <2>3. LoopTypes
    BY <2>1, <2>2 DEF LoopInit, LoopTypes
  <2> QED BY <2>1, <2>3, NoToken DEF LoopInit, LoopInv
<1>2. LoopInv /\ [LoopNext]_loopVars => LoopInv'
  <2> SUFFICES ASSUME LoopInv, [LoopNext]_loopVars PROVE LoopInv'
    OBVIOUS
  <2> USE DEF LoopInv, LoopTypes
  <2>1. CASE NextToken
    <3>1. ~done /\ pos \in 0..(Len(input) - 1)
      BY <2>1 DEF NextToken
    <3>2. LastWord(input, pos + 1, allowMinus, current) =
            IF input[pos + 1].dir = "-" /\ ~allowMinus
            THEN LastWord(input, pos, allowMinus, current)
            ELSE Apply(input[pos + 1], LastWord(input, pos, allowMinus, current))
      BY <3>1, OneMoreToken
    <3>3. flags' = LastWord(input, pos + 1, allowMinus, current)
      BY <2>1, <3>1, <3>2 DEF NextToken
    <3>4. flags' \subseteq AccessFlags
      BY <3>3 DEF LastWord
    <3> QED BY <2>1, <3>1, <3>3, <3>4 DEF NextToken
  <2>2. CASE Return
    BY <2>2 DEF Return, ParseFlags, ImpliedBy, AllNoFounder, All, LastWord
  <2>3. CASE UNCHANGED loopVars
    BY <2>3 DEF loopVars
  <2> QED BY <2>1, <2>2, <2>3 DEF LoopNext
<1> QED BY <1>1, <1>2, PTL DEF LoopSpec

\* For every flag string the loop computes what the last mention of each flag
\* says, and the founder rule on top (ParseFlags).
THEOREM LoopComputesLastWord == LoopSpec => []ComputesLastWord
<1>1. LoopInv => ComputesLastWord
  BY DEF LoopInv, ComputesLastWord
<1> QED BY <1>1, LoopInvariant, PTL

\* What a flag string grants and what it leaves alone.
Granted(tokens, minus) ==
  {f \in AccessFlags : \E i \in 1..Len(tokens) :
     /\ tokens[i].dir = "+"
     /\ f \in Mentions(tokens[i])
     /\ \A j \in i+1..Len(tokens) : Counts(tokens[j], minus) => f \notin Mentions(tokens[j])}

Untouched(tokens, minus) ==
  {f \in AccessFlags :
     \A i \in 1..Len(tokens) : Counts(tokens[i], minus) => f \notin Mentions(tokens[i])}

\* A flag string acts on a flag set as a union with one set and a restriction to another.
LEMMA GrantedOrUntouched ==
  ASSUME NEW tokens, NEW minus, NEW cur
  PROVE  /\ LastWord(tokens, Len(tokens), minus, cur) =
              Granted(tokens, minus) \union (cur \intersect Untouched(tokens, minus))
         /\ Granted(tokens, minus) \intersect Untouched(tokens, minus) = {}
BY DEF LastWord, Granted, Untouched, Counts

\* Parsing the same flag string twice is parsing it once.
LEMMA ParseTwice ==
  ASSUME NEW tokens, NEW minus, NEW cur \in SUBSET AccessFlags
  PROVE  ParseFlags(tokens, minus, ParseFlags(tokens, minus, cur)) =
           ParseFlags(tokens, minus, cur)
<1> DEFINE G == Granted(tokens, minus)
           U == Untouched(tokens, minus)
           F == G \union (cur \intersect U)
<1>1. ParseFlags(tokens, minus, cur) = ImpliedBy(F)
  BY GrantedOrUntouched DEF ParseFlags
<1>2. ParseFlags(tokens, minus, ImpliedBy(F)) = ImpliedBy(G \union (ImpliedBy(F) \intersect U))
  BY GrantedOrUntouched DEF ParseFlags
<1>3. ImpliedBy(G \union (ImpliedBy(F) \intersect U)) = ImpliedBy(F)
  <2>1. CASE "FOUNDER" \in F
    BY <2>1 DEF ImpliedBy, AllNoFounder, All
  <2>2. CASE "FOUNDER" \notin F
    BY <2>2 DEF ImpliedBy
  <2> QED BY <2>1, <2>2
<1> QED BY <1>1, <1>2, <1>3

\* A flag command repeated on its own result changes nothing (FLAGS, FFLAGS).
THEOREM LoopIdempotent == LoopSpec => []Idempotent
<1>1. LoopInv => Idempotent
  BY ParseTwice DEF LoopInv, LoopTypes, Idempotent
<1> QED BY <1>1, LoopInvariant, PTL

-----------------------------------------------------------------------------
(* SaveDB: files *)

\* A file holds what was put into it.
LEMMA FileContents ==
  /\ ContentsOf(NoFile) = {}
  /\ \A s : ContentsOf(File(s)) = s
  /\ \A s : File(s) # NoFile
BY DEF ContentsOf, NoFile, File

\* Files made of items are files of the type invariant.
LEMMA FilesHoldItems ==
  /\ \A f \in Files : ContentsOf(f) \subseteq Items
  /\ NoFile \in Files
  /\ \A s \in SUBSET Items : File(s) \in Files
BY FileContents DEF Files

-----------------------------------------------------------------------------
(* SaveDB: the invariant *)

\* Without files nothing is missing.
LEMMA SaveInvInit == Init => SaveInv
BY FileContents, FilesHoldItems
   DEF Init, SaveInv, Progress, TypeOK, RepliesAreStored, TablesAreInAFile, Stored

\* One step per call of SaveDB, and what services do in between.
LEMMA SaveInvStep ==
  ASSUME SaveInv, [Next]_vars
  PROVE  SaveInv'
<1> USE DEF SaveInv, Progress, TypeOK, RepliesAreStored, TablesAreInAFile, Stored
<1>1. CASE Change \/ Save
  BY <1>1 DEF Change, Save
<1>2. CASE OpenTmp
  BY <1>2, FileContents, FilesHoldItems DEF OpenTmp
<1>3. CASE OpenFails
  BY <1>3 DEF OpenFails
<1>4. CASE WriteItem
  <2>1. PICK i \in todo : /\ tmp' = File(ContentsOf(tmp) \union {i})
                          /\ todo' = todo \ {i}
    BY <1>4 DEF WriteItem
  <2>2. /\ tmp' # NoFile /\ ContentsOf(tmp') \subseteq memory
        /\ "disk" \notin faults => memory \subseteq ContentsOf(tmp') \union todo'
    BY <2>1, <1>4, FileContents DEF WriteItem
  <2>3. tmp' \in Files
    BY <2>1, <1>4, FilesHoldItems DEF WriteItem
  <2> QED BY <2>1, <2>2, <2>3, <1>4 DEF WriteItem
<1>5. CASE WriteFails
  BY <1>5 DEF WriteFails
<1>6. CASE Close
  BY <1>6 DEF Close
<1>7. CASE Rename
  <2>1. "disk" \notin faults => ContentsOf(db') = memory'
    BY <1>7 DEF Rename
  <2>2. db' \in Files /\ tmp' \in Files
    BY <1>7, FilesHoldItems DEF Rename
  <2> QED BY <1>7, <2>1, <2>2 DEF Rename
<1>8. CASE RenameFails
  BY <1>8 DEF RenameFails
<1>9. CASE Remove
  BY <1>9, FilesHoldItems DEF Remove
<1>10. CASE Stop
  BY <1>10 DEF Stop
<1>11. CASE Start
  BY <1>11, FilesHoldItems DEF Start
<1>12. CASE UNCHANGED vars
  BY <1>12 DEF vars
<1> QED
  BY <1>1, <1>2, <1>3, <1>4, <1>5, <1>6, <1>7, <1>8, <1>9, <1>10, <1>11, <1>12
  DEF Next, SaveDB

\* At every call of SaveDB the temporary file holds tables only, all of them unless
\* the disk refuses some, and between two saves one of the files is complete.
THEOREM SaveInvariant == Spec => []SaveInv
<1>1. SaveInv /\ [Next]_vars => SaveInv'
  BY SaveInvStep
<1> QED BY <1>1, SaveInvInit, PTL DEF Spec

\* When a handler replies its change is on disk, unless the file system failed.
THEOREM Durable == Spec => []RepliesAreStored
<1>1. SaveInv => RepliesAreStored
  BY DEF SaveInv
<1> QED BY <1>1, SaveInvariant, PTL

-----------------------------------------------------------------------------
(* SaveDB: the refinement *)

\* Every step of services and of the file system is a step of the store or changes
\* nothing there: the rename replaces the tables, or damages them when it may.
LEMMA StoreStep ==
  ASSUME SaveInv, [Next]_vars
  PROVE  [Store!Next]_(Store!vars)
<1> USE DEF Store!Next, Store!vars, Stored
<1>1. CASE Change
  BY <1>1 DEF Change, Store!Change
<1>2. CASE Save \/ OpenTmp \/ OpenFails \/ WriteItem \/ WriteFails \/ Close \/ RenameFails
  BY <1>2 DEF Save, OpenTmp, OpenFails, WriteItem, WriteFails, Close, RenameFails
<1>3. CASE Rename
  <2>1. /\ up /\ ContentsOf(tmp) \subseteq memory
        /\ "disk" \notin faults => ContentsOf(tmp) = memory
    BY <1>3 DEF Rename, SaveInv, Progress
  <2>2. CASE "disk" \notin faults
    BY <1>3, <2>1, <2>2 DEF Rename, Store!Replace
  <2>3. CASE "disk" \in faults
    BY <1>3, <2>1, <2>3 DEF Rename, Store!Damage
  <2> QED BY <2>2, <2>3
<1>4. CASE Remove
  <2>1. up /\ faults # {}
    BY <1>4 DEF Remove, SaveInv, Progress
  <2>2. CASE db' = db
    BY <1>4, <2>2 DEF Remove
  <2>3. CASE db' = NoFile
    BY <1>4, <2>1, <2>3, FileContents DEF Remove, Store!Damage
  <2> QED BY <1>4, <2>2, <2>3 DEF Remove
<1>5. CASE Stop
  BY <1>5 DEF Stop, Store!Stop
<1>6. CASE Start
  BY <1>6 DEF Start, Store!Start
<1>7. CASE UNCHANGED vars
  BY <1>7 DEF vars
<1> QED
  BY <1>1, <1>2, <1>3, <1>4, <1>5, <1>6, <1>7 DEF Next, SaveDB

\* The database file is replaced atomically wherever services crash, and a failing
\* file system loses items without bringing others back (SaveDB, LoadDB).
THEOREM Refinement == Spec => ImplementsStore
<1>1. Init => Store!Init
  BY FileContents DEF Init, Store!Init, Stored
<1>2. SaveInv /\ [Next]_vars => [Store!Next]_(Store!vars)
  BY StoreStep
<1> QED
  BY <1>1, <1>2, SaveInvariant, PTL DEF Spec, ImplementsStore, Store!Spec

-----------------------------------------------------------------------------
(* The search of GroupGrants: what a step finds, the innermost call, and   *)
(* the entry it is at.                                                     *)

Calls == [ci : Channels, i : Nat \ {0}]

\* The call at work is of a channel that has been seen, at an entry of its list or past it.
LEMMA TopTypes ==
  ASSUME SearchTypes, CallsAreSeen, result = "searching"
  PROVE  /\ Len(stack) \in Nat \ {0} /\ Len(stack) \in 1..Len(stack)
         /\ Top \in Calls /\ Top = stack[Len(stack)] /\ Top.ci \in seen
         /\ access[Top.ci] \in Seq(Entry)
         /\ Top.i <= Len(access[Top.ci]) =>
              entry \in Entry /\ Top.i \in 1..Len(access[Top.ci]) /\ entry = access[Top.ci][Top.i]
  <1>1. Len(stack) \in Nat \ {0} /\ Len(stack) \in 1..Len(stack)
    BY DEF SearchTypes, CallsAreSeen
  <1>2. Top \in Calls /\ Top.ci \in seen
    <2>1. stack \in Seq(Calls)
      BY DEF SearchTypes, Calls
    <2>2. stack[Len(stack)] \in Calls
      BY <2>1, <1>1
    <2>3. stack[Len(stack)].ci \in seen
      BY <1>1 DEF CallsAreSeen
    <2> QED  BY <2>2, <2>3 DEF Top
  <1>3. access[Top.ci] \in Seq(Entry)
    BY <1>2 DEF SearchTypes, Calls
  <1>4. ASSUME Top.i <= Len(access[Top.ci])
        PROVE  entry \in Entry /\ Top.i \in 1..Len(access[Top.ci]) /\ entry = access[Top.ci][Top.i]
    BY <1>2, <1>3, <1>4 DEF entry, Calls
  <1> QED  BY <1>1, <1>2, <1>3, <1>4 DEF Top

\* ++i changes the innermost call only.
LEMMA TurnedCalls ==
  ASSUME SearchTypes, CallsAreSeen, result = "searching"
  PROVE  /\ Turned \in Seq(Calls) /\ Len(Turned) = Len(stack)
         /\ \A k \in 1..Len(stack) : Turned[k].ci = stack[k].ci
         /\ \A k \in 1..Len(stack) :
              Turned[k].i = IF k = Len(stack) THEN stack[k].i + 1 ELSE stack[k].i
  <1>1. stack \in Seq(Calls) /\ Len(stack) \in 1..Len(stack) /\ Top \in Calls
    BY TopTypes DEF SearchTypes, Calls
  <1>2. Turned = [stack EXCEPT ![Len(stack)] =
                    [ci |-> stack[Len(stack)].ci, i |-> stack[Len(stack)].i + 1]]
    BY DEF Turned
  <1>3. [ci |-> stack[Len(stack)].ci, i |-> stack[Len(stack)].i + 1] \in Calls
    BY <1>1 DEF Calls, Top
  <1>4. Turned \in Seq(Calls) /\ Len(Turned) = Len(stack)
    BY <1>1, <1>2, <1>3
  <1>5. \A k \in 1..Len(stack) : Turned[k] = IF k = Len(stack)
           THEN [ci |-> stack[k].ci, i |-> stack[k].i + 1] ELSE stack[k]
    BY <1>1, <1>2
  <1>6. ASSUME NEW k \in 1..Len(stack), k = Len(stack)
        PROVE  Turned[k].ci = stack[k].ci /\ Turned[k].i = stack[k].i + 1
    <2>1. Turned[k] = [ci |-> stack[k].ci, i |-> stack[k].i + 1]
      BY <1>5, <1>6
    <2> QED  BY <2>1
  <1>7. ASSUME NEW k \in 1..Len(stack), k # Len(stack) PROVE Turned[k] = stack[k]
    BY <1>5, <1>7
  <1> QED  BY <1>4, <1>6, <1>7

\* A call that had an entry ahead has it ahead still, unless it was at it.
LEMMA TurnedAhead ==
  ASSUME SearchTypes, CallsAreSeen, result = "searching",
         NEW k \in 1..Len(stack), NEW j \in Nat, stack[k].i <= j,
         ~(k = Len(stack) /\ j = Top.i)
  PROVE  Turned[k].i <= j
  <1>1. CASE k = Len(stack)
    <2>1. stack[k].i = Top.i /\ Top.i \in Nat
      BY <1>1, TopTypes DEF Calls
    <2>2. Turned[k].i = Top.i + 1
      BY <1>1, <2>1, TurnedCalls
    <2>3. j # Top.i
      BY <1>1
    <2> QED  BY <2>1, <2>2, <2>3
  <1>2. CASE k # Len(stack)
    BY <1>2, TurnedCalls
  <1> QED  BY <1>1, <1>2

\* The channels seen can be counted.
LEMMA SeenIsFinite ==
  ASSUME SearchTypes
  PROVE  IsFiniteSet(seen) /\ Cardinality(seen) \in Nat
  BY ChannelsAssumption, FS_Subset, FS_CardinalityType DEF SearchTypes

\* With few channels the search is only cut off when every channel is seen.
LEMMA CutOffWhenAllSeen ==
  ASSUME SearchTypes, CallsAreSeen, result = "searching", Fits, ~(Len(stack) <= MAX_DEPTH)
  PROVE  seen = Channels
  <1>1. Len(stack) <= Cardinality(seen) /\ Len(stack) \in Nat
    BY TopTypes DEF CallsAreSeen
  <1>2. Cardinality(seen) \in Nat /\ Cardinality(Channels) \in Nat
    BY SeenIsFinite, ChannelsAssumption, FS_CardinalityType
  <1>3. Cardinality(Channels) <= Cardinality(seen)
    BY <1>1, <1>2, DepthAssumption DEF Fits
  <1>4. /\ Cardinality(seen) <= Cardinality(Channels)
        /\ Cardinality(Channels) = Cardinality(seen) => Channels = seen
    BY FS_Subset, ChannelsAssumption DEF SearchTypes
  <1> QED  BY <1>2, <1>3, <1>4

-----------------------------------------------------------------------------
(* The search of GroupGrants: one lemma per action *)

\* Before a question is asked nothing has been seen.
LEMMA SearchInvInit == SearchInit => SearchInv
  <1> SUFFICES ASSUME SearchInit PROVE SearchInv
    OBVIOUS
  <1>1. access \in [Channels -> Seq(Entry)]
    BY ChannelsAssumption DEF SearchInit
  <1>2. SearchTypes
    BY <1>1 DEF SearchInit, SearchTypes
  <1> QED
    BY <1>2 DEF SearchInit, SearchInv, CallsAreSeen, OnlyReachableSeen, ReadOrAhead, Ended, YesIsEarned

\* A question starts with its channel, of which every entry is ahead.
LEMMA AskKeeps ==
  ASSUME SearchInv, NEW c \in Channels, Ask(c)
  PROVE  SearchInv'
  <1>1. stack' = <<[ci |-> c, i |-> 1]>> /\ Len(stack') = 1 /\ stack'[1] = [ci |-> c, i |-> 1]
    BY DEF Ask, Call
  <1>2. SearchTypes'
    BY <1>1 DEF SearchInv, SearchTypes, Ask, lists
  <1>3. CallsAreSeen'
    <2>1. Cardinality(seen') = 1
      BY FS_Singleton DEF Ask
    <2> QED  BY <1>1, <2>1 DEF CallsAreSeen, Ask
  <1>4. OnlyReachableSeen'
    BY DEF OnlyReachableSeen, Closed, Ask
  <1>5. ReadOrAhead'
    <2> SUFFICES ASSUME NEW d \in seen', NEW j \in 1..Len(access'[d])
                 PROVE  Ahead(d, j)'
      BY DEF ReadOrAhead
    <2>1. d = c /\ 1 <= j
      BY <1>2 DEF Ask, SearchTypes
    <2> QED  BY <1>1, <2>1 DEF Ahead
  <1> QED  BY <1>2, <1>3, <1>4, <1>5 DEF SearchInv, Ended, YesIsEarned, Ask

\* An entry that gives the privilege ends the search.
LEMMA AllowKeeps ==
  ASSUME SearchInv, Allow
  PROVE  SearchInv'
  <1> USE DEF SearchInv
  <1>1. SearchTypes'
    BY DEF SearchTypes, Allow, lists
  <1>2. Reaches
    <2> SUFFICES ASSUME NEW S \in SUBSET Channels, Closed(S)
                 PROVE  \E c \in S : Allows(c)
      BY DEF Reaches
    <2>1. result = "searching" /\ Top.i <= Len(access[Top.ci]) /\ Grants(entry)
      BY DEF Allow, More
    <2>2. Top.ci \in S
      BY <2>1, TopTypes DEF OnlyReachableSeen
    <2>3. Allows(Top.ci)
      BY <2>1, TopTypes DEF Allows, Grants
    <2> QED  BY <2>2, <2>3
  <1>3. Reaches'
    BY <1>2 DEF Reaches, Closed, Named, Allows, Allow, lists
  <1> QED
    BY <1>1, <1>3 DEF CallsAreSeen, OnlyReachableSeen, ReadOrAhead, Ended, YesIsEarned, Allow

\* The channel an entry names is seen, and all its entries are ahead.
LEMMA RecurseKeeps ==
  ASSUME SearchInv, Recurse
  PROVE  SearchInv'
  <1> USE DEF SearchInv
  <1>1. /\ result = "searching" /\ result' = "searching" /\ Top.i <= Len(access[Top.ci])
        /\ entry.mask \in Channels /\ entry.mask \notin seen
        /\ seen' = seen \union {entry.mask} /\ ~Grants(entry)
        /\ access' = access /\ chanaccess' = chanaccess /\ ci' = ci
    BY DEF Recurse, More, Enters, lists
  <1>2. /\ stack' = Append(Turned, [ci |-> entry.mask, i |-> 1])
        /\ Turned \in Seq(Calls) /\ Len(Turned) = Len(stack) /\ Len(stack) \in Nat \ {0}
    BY <1>1, TurnedCalls, TopTypes DEF Recurse, Call
  <1>3. [ci |-> entry.mask, i |-> 1] \in Calls
    BY <1>1 DEF Calls
  <1>4. /\ stack' \in Seq(Calls) /\ Len(stack') = Len(stack) + 1
        /\ stack'[Len(stack) + 1] = [ci |-> entry.mask, i |-> 1]
        /\ \A k \in 1..Len(stack) : stack'[k] = Turned[k]
    BY <1>2, <1>3
  <1>5. SearchTypes'
    BY <1>1, <1>4 DEF SearchTypes, Calls
  <1>6. CallsAreSeen'
    <2>1. Cardinality(seen') = Cardinality(seen) + 1
      BY <1>1, SeenIsFinite, FS_AddElement
    <2>2. Len(stack') <= Cardinality(seen')
      BY <1>1, <1>2, <1>4, <2>1, SeenIsFinite DEF CallsAreSeen
    <2>3. ASSUME NEW k \in 1..Len(stack') PROVE stack'[k].ci \in seen'
      <3>1. CASE k = Len(stack) + 1
        BY <3>1, <1>1, <1>4
      <3>2. CASE k \in 1..Len(stack)
        BY <3>2, <1>1, <1>4, TurnedCalls DEF CallsAreSeen
      <3> QED  BY <3>1, <3>2, <1>2, <1>4
    <2>4. stack' # <<>> /\ ci' \in seen'
      BY <1>1, <1>2, <1>4 DEF CallsAreSeen
    <2> QED  BY <2>2, <2>3, <2>4 DEF CallsAreSeen
  <1>7. OnlyReachableSeen'
    <2> SUFFICES ASSUME NEW S \in SUBSET Channels, Closed(S)' PROVE seen' \subseteq S
      BY DEF OnlyReachableSeen
    <2>1. Closed(S) /\ seen \subseteq S
      BY <1>1 DEF Closed, Named, OnlyReachableSeen
    <2>2. Top.ci \in S /\ entry.mask \in Named(Top.ci)
      BY <2>1, <1>1, TopTypes DEF Named
    <2> QED  BY <2>1, <2>2, <1>1 DEF Closed
  <1>8. ReadOrAhead'
    <2> SUFFICES ASSUME Fits, NEW c \in seen', NEW j \in 1..Len(access'[c])
                 PROVE  Ahead(c, j)' \/ Done(access[c][j])'
      BY <1>1 DEF ReadOrAhead, Fits
    <2>1. CASE c = entry.mask
      BY <2>1, <1>2, <1>4 DEF Ahead
    <2>2. CASE c \in seen
      <3>1. Ahead(c, j) \/ Done(access[c][j])
        BY <2>2, <1>1 DEF ReadOrAhead
      <3>2. CASE Done(access[c][j])
        BY <3>2, <1>1 DEF Done, Grants
      <3>3. CASE Ahead(c, j)
        <4>1. PICK k \in 1..Len(stack) : stack[k].ci = c /\ stack[k].i <= j
          BY <3>3 DEF Ahead
        <4>2. CASE k = Len(stack) /\ j = Top.i
          BY <4>1, <4>2, <1>1, TopTypes DEF Done, Grants
        <4>3. CASE ~(k = Len(stack) /\ j = Top.i)
          <5>1. Turned[k].ci = c /\ Turned[k].i <= j
            BY <4>1, <4>3, <1>1, TurnedCalls, TurnedAhead
          <5>2. k \in 1..Len(stack') /\ stack'[k].ci = c /\ stack'[k].i <= j
            BY <5>1, <1>2, <1>4
          <5> QED  BY <5>2 DEF Ahead
        <4> QED  BY <4>2, <4>3
      <3> QED  BY <3>1, <3>2, <3>3
    <2> QED  BY <2>1, <2>2, <1>1
  <1> QED  BY <1>1, <1>5, <1>6, <1>7, <1>8 DEF Ended, YesIsEarned

\* An entry left behind gives nothing and names a seen channel, or the depth is reached.
LEMMA ContinueKeeps ==
  ASSUME SearchInv, Continue
  PROVE  SearchInv'
  <1> USE DEF SearchInv
  <1>1. /\ result = "searching" /\ result' = "searching" /\ Top.i <= Len(access[Top.ci])
        /\ seen' = seen /\ ~Grants(entry) /\ ~Enters(entry.mask)
        /\ access' = access /\ chanaccess' = chanaccess /\ ci' = ci
    BY DEF Continue, More, lists
  <1>2. /\ stack' = Turned /\ Turned \in Seq(Calls) /\ Len(Turned) = Len(stack)
        /\ Len(stack) \in Nat \ {0}
    BY <1>1, TurnedCalls, TopTypes DEF Continue
  <1>3. SearchTypes'
    BY <1>1, <1>2 DEF SearchTypes, Calls
  <1>4. CallsAreSeen'
    BY <1>1, <1>2, TurnedCalls DEF CallsAreSeen
  <1>5. OnlyReachableSeen'
    BY <1>1 DEF OnlyReachableSeen, Closed, Named
  <1>6. ReadOrAhead'
    <2> SUFFICES ASSUME Fits, NEW c \in seen, NEW j \in 1..Len(access[c])
                 PROVE  Ahead(c, j)' \/ Done(access[c][j])
      BY <1>1 DEF ReadOrAhead, Fits, Done, Grants
    <2>1. Ahead(c, j) \/ Done(access[c][j])
      BY <1>1 DEF ReadOrAhead
    <2>2. CASE Ahead(c, j)
      <3>1. PICK k \in 1..Len(stack) : stack[k].ci = c /\ stack[k].i <= j
        BY <2>2 DEF Ahead
      <3>2. CASE k = Len(stack) /\ j = Top.i
        <4>1. access[c][j] = entry
          BY <3>1, <3>2, <1>1, TopTypes
        <4>2. ASSUME entry.mask \in Channels PROVE entry.mask \in seen
          BY <4>2, <1>1, CutOffWhenAllSeen DEF Enters
        <4> QED  BY <4>1, <4>2, <1>1 DEF Done
      <3>3. CASE ~(k = Len(stack) /\ j = Top.i)
        <4>1. Turned[k].ci = c /\ Turned[k].i <= j
          BY <3>1, <3>3, <1>1, TurnedCalls, TurnedAhead
        <4> QED  BY <4>1, <1>2 DEF Ahead
      <3> QED  BY <3>2, <3>3
    <2> QED  BY <2>1, <2>2
  <1> QED  BY <1>1, <1>3, <1>4, <1>5, <1>6 DEF Ended, YesIsEarned

\* A call that has read its list leaves nothing ahead in it.
LEMMA EndOfListKeeps ==
  ASSUME SearchInv, EndOfList
  PROVE  SearchInv'
  <1> USE DEF SearchInv
  <1>1. /\ result = "searching" /\ ~(Top.i <= Len(access[Top.ci]))
        /\ result' = (IF Len(stack) = 1 THEN "no" ELSE result)
        /\ seen' = seen /\ access' = access /\ chanaccess' = chanaccess /\ ci' = ci
    BY DEF EndOfList, More, lists
  <1>2. Len(stack) \in Nat \ {0} /\ stack \in Seq(Calls)
    BY <1>1, TopTypes DEF SearchTypes, Calls
  <1>3. /\ stack' \in Seq(Calls) /\ Len(stack') = Len(stack) - 1
        /\ \A k \in 1..Len(stack) - 1 : stack'[k] = stack[k]
    <2>1. stack' = SubSeq(stack, 1, Len(stack) - 1)
      BY DEF EndOfList
    <2> DEFINE n == Len(stack) - 1
    <2>2. n \in Nat /\ 1 \in Int /\ \A k \in 1..n : stack[k] \in Calls
      BY <1>2
    <2>3. /\ SubSeq(stack, 1, n) \in Seq(Calls)
          /\ Len(SubSeq(stack, 1, n)) = (IF 1 <= n THEN n - 1 + 1 ELSE 0)
          /\ \A k \in 1..n - 1 + 1 : SubSeq(stack, 1, n)[k] = stack[1 + k - 1]
      <3> HIDE DEF n
      <3> QED  BY <2>2, SubSeqProperties
    <2>4. n = Len(stack) - 1
      OBVIOUS
    <2> HIDE DEF n
    <2>5. /\ stack' \in Seq(Calls) /\ Len(stack') = n
          /\ \A k \in 1..n : stack'[k] = stack[k]
      BY <2>1, <2>2, <2>3, <2>4
    <2> QED  BY <2>4, <2>5
  <1>4. SearchTypes'
    BY <1>1, <1>3 DEF SearchTypes, Calls
  <1>5. CallsAreSeen'
    BY <1>1, <1>2, <1>3, SeenIsFinite DEF CallsAreSeen
  <1>6. OnlyReachableSeen'
    BY <1>1 DEF OnlyReachableSeen, Closed, Named
  <1>7. ReadOrAhead'
    <2> SUFFICES ASSUME Fits, NEW c \in seen, NEW j \in 1..Len(access[c])
                 PROVE  Ahead(c, j)' \/ Done(access[c][j])
      BY <1>1 DEF ReadOrAhead, Fits, Done, Grants
    <2>1. Ahead(c, j) \/ Done(access[c][j])
      BY <1>1 DEF ReadOrAhead
    <2>2. CASE Ahead(c, j)
      <3>1. PICK k \in 1..Len(stack) : stack[k].ci = c /\ stack[k].i <= j
        BY <2>2 DEF Ahead
      <3>2. access[c] \in Seq(Entry) /\ Len(access[c]) \in Nat
        BY DEF SearchTypes
      <3>3. k # Len(stack)
        <4> SUFFICES ASSUME k = Len(stack) PROVE FALSE
          OBVIOUS
        <4>1. Top.ci = c /\ Top.i <= j /\ Top.i \in Nat
          BY <3>1, <1>1, TopTypes DEF Calls
        <4> QED  BY <4>1, <3>2, <1>1
      <3>4. k \in 1..Len(stack) - 1
        BY <3>3, <1>2
      <3> QED  BY <3>1, <3>4, <1>3 DEF Ahead
    <2> QED  BY <2>1, <2>2
  <1>8. Ended'
    BY <1>1, <1>2, <1>3 DEF Ended, CallsAreSeen
  <1>9. YesIsEarned'
    BY <1>1 DEF YesIsEarned
  <1> QED  BY <1>4, <1>5, <1>6, <1>7, <1>8, <1>9

-----------------------------------------------------------------------------
\* The inductive invariant holds in every state of the search, whatever the
\* lists and the depth (GroupGrantsChanPrivRecurse).
THEOREM SearchInvariant == SearchSpec => []SearchInv
  <1>1. ASSUME SearchInv, [SearchNext]_searchVars PROVE SearchInv'
    <2>1. CASE UNCHANGED searchVars
      <3> USE <1>1
      <3>1. /\ access' = access /\ chanaccess' = chanaccess /\ ci' = ci
            /\ stack' = stack /\ seen' = seen /\ result' = result
        BY <2>1 DEF searchVars
      <3>2. SearchTypes' /\ CallsAreSeen' /\ Ended'
        BY <3>1 DEF SearchInv, SearchTypes, CallsAreSeen, Ended
      <3>3. OnlyReachableSeen' /\ YesIsEarned'
        BY <3>1 DEF SearchInv, OnlyReachableSeen, YesIsEarned, Reaches, Closed, Named, Allows
      <3>4. ReadOrAhead'
        BY <3>1 DEF SearchInv, ReadOrAhead, Fits, Ahead, Done, Grants
      <3> QED  BY <3>2, <3>3, <3>4 DEF SearchInv
    <2>2. ASSUME NEW c \in Channels, Ask(c) PROVE SearchInv'
      BY <1>1, <2>2, AskKeeps
    <2> QED
      BY <1>1, <2>1, <2>2, AllowKeeps, RecurseKeeps, ContinueKeeps, EndOfListKeeps DEF SearchNext
  <1> QED  BY <1>1, SearchInvInit, PTL DEF SearchSpec

\* OnGroupCheckPriv only allows what a group's entry gives, on the channel or
\* on one that its lists lead to.
THEOREM EarnedYes == SearchSpec => []YesIsEarned
  BY SearchInvariant, PTL DEF SearchInv

\* While the channels are no more than the calls MAX_DEPTH allows, a search that
\* finds nothing leaves nothing unread.
THEOREM FinalNo == SearchSpec => []NoIsFinal
  <1>1. SearchInv => NoIsFinal
    <2> SUFFICES ASSUME SearchInv, result = "no", Fits PROVE ~Reaches
      BY DEF NoIsFinal
    <2>1. seen \in SUBSET Channels /\ ci \in seen /\ stack = <<>>
      BY DEF SearchInv, SearchTypes, Ended
    <2>2. \A c \in seen : \A j \in 1..Len(access[c]) : Done(access[c][j])
      BY <2>1 DEF SearchInv, ReadOrAhead, Ahead
    <2>3. Closed(seen)
      BY <2>1, <2>2 DEF Closed, Named, Done
    <2>4. \A c \in seen : ~Allows(c)
      BY <2>2 DEF Allows, Done, Grants
    <2> QED  BY <2>1, <2>3, <2>4 DEF Reaches
  <1> QED  BY <1>1, SearchInvariant, PTL

=============================================================================
