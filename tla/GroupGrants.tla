---------------------------- MODULE GroupGrants ----------------------------
(***************************************************************************)
(* Whether a group on a channel's access list gives an account a privilege *)
(* there (src/GroupServ/groupserv.cpp, GroupGrantsChanPrivRecurse).  An    *)
(* access list may name other channels, whose lists are searched too: a    *)
(* depth-first search that is cut off at MAX_DEPTH and enters no channel   *)
(* twice.  One step is one turn of the loop over a list; nothing else runs *)
(* meanwhile, so the lists stay as they are.                               *)
(***************************************************************************)
EXTENDS Integers, Sequences, FiniteSets

CONSTANTS
  Channels,           \* registered channels
  Groups,             \* existing groups
  Other,              \* users, host masks, channels and groups that are not there
  MAX_DEPTH,          \* ChanAccess::MAX_DEPTH
  Lists               \* bound: the access lists there may be

Entry == [mask : Channels \union Groups \union {Other}, priv : BOOLEAN]

ASSUME ChannelsAssumption == IsFiniteSet(Channels) /\ Lists \subseteq Seq(Entry)
ASSUME DepthAssumption == MAX_DEPTH \in Nat

VARIABLES
  access,             \* the access list of each channel: who, with the privilege or not
  chanaccess,         \* groups in which the account has CHANACCESS
  ci,                 \* the channel asked about
  stack,              \* calls under way: channel, and the entry the loop is at
  seen,
  result              \* "none", "searching", "yes" or "no"

searchVars == <<access, chanaccess, ci, stack, seen, result>>
lists == <<access, chanaccess>>

-----------------------------------------------------------------------------
Call(c) == [ci |-> c, i |-> 1]

\* The innermost call, and the entry its loop is at.
Top  == stack[Len(stack)]
More == result = "searching" /\ Top.i <= Len(access[Top.ci])
entry == access[Top.ci][Top.i]

\* ++i of the innermost loop.
Turned == [stack EXCEPT ![Len(stack)] = [ci |-> @.ci, i |-> @.i + 1]]

\* A plausible slip: the privileges of the entry are not looked at.
GrantsAny(e) == e.mask \in chanaccess
Grants(e) == e.mask \in chanaccess /\ e.priv

\* A plausible slip: the depth is one short.
EntersShallow(c) == c \in Channels /\ Len(stack) < MAX_DEPTH /\ c \notin seen
Enters(c) == c \in Channels /\ Len(stack) <= MAX_DEPTH /\ c \notin seen

\* OnGroupCheckPriv
Ask(c) ==
  /\ result # "searching"
  /\ ci' = c /\ stack' = <<Call(c)>> /\ seen' = {c} /\ result' = "searching"
  /\ UNCHANGED lists

Allow ==
  /\ More /\ Grants(entry)
  /\ result' = "yes" /\ stack' = <<>>
  /\ UNCHANGED <<lists, ci, seen>>

Recurse ==
  /\ More /\ ~Grants(entry) /\ Enters(entry.mask)
  /\ stack' = Append(Turned, Call(entry.mask)) /\ seen' = seen \union {entry.mask}
  /\ UNCHANGED <<lists, ci, result>>

Continue ==
  /\ More /\ ~Grants(entry) /\ ~Enters(entry.mask)
  /\ stack' = Turned
  /\ UNCHANGED <<lists, ci, seen, result>>

\* The end of a list: the caller goes on, or there is no caller.
EndOfList ==
  /\ result = "searching" /\ ~More
  /\ stack' = SubSeq(stack, 1, Len(stack) - 1)
  /\ result' = IF Len(stack) = 1 THEN "no" ELSE result
  /\ UNCHANGED <<lists, ci, seen>>

-----------------------------------------------------------------------------
SearchInit ==
  /\ access \in [Channels -> Lists] /\ chanaccess \in SUBSET Groups
  /\ ci \in Channels /\ stack = <<>> /\ seen = {} /\ result = "none"

SearchNext == (\E c \in Channels : Ask(c)) \/ Allow \/ Recurse \/ Continue \/ EndOfList

SearchSpec == SearchInit /\ [][SearchNext]_searchVars

-----------------------------------------------------------------------------
(* What the search is to find out, without a search: every set of channels *)
(* that holds the channel, and what the lists in it name, holds one whose  *)
(* list gives the privilege.                                               *)

Named(c) == {access[c][j].mask : j \in 1..Len(access[c])} \intersect Channels

Closed(S) == ci \in S /\ \A c \in S : Named(c) \subseteq S

Allows(c) == \E j \in 1..Len(access[c]) : access[c][j].mask \in chanaccess /\ access[c][j].priv

Reaches == \A S \in SUBSET Channels : Closed(S) => \E c \in S : Allows(c)

\* A privilege is only given where a group gives it, on the channel or on one
\* that its lists lead to, however they refer to each other.
YesIsEarned == result = "yes" => Reaches

\* There are too few channels for a path longer than MAX_DEPTH.
Fits == Cardinality(Channels) <= MAX_DEPTH + 1

\* A privilege that some list gives is found, in cycles too and in whatever
\* order the entries stand, unless there are channels enough for a path longer
\* than MAX_DEPTH.
NoIsFinal == result = "no" /\ Fits => ~Reaches

-----------------------------------------------------------------------------
(* The inductive invariant.  What has been seen is what the lists lead to; *)
(* an entry of a channel that has been seen is still ahead of a call that  *)
(* is under way, or it gives nothing and names no channel left to search.  *)

SearchTypes ==
  /\ access \in [Channels -> Seq(Entry)] /\ chanaccess \subseteq Groups
  /\ ci \in Channels /\ stack \in Seq([ci : Channels, i : Nat \ {0}])
  /\ seen \subseteq Channels /\ result \in {"none", "searching", "yes", "no"}

CallsAreSeen ==
  result = "searching" =>
    /\ stack # <<>> /\ ci \in seen /\ Len(stack) <= Cardinality(seen)
    /\ \A k \in 1..Len(stack) : stack[k].ci \in seen

OnlyReachableSeen ==
  result = "searching" => \A S \in SUBSET Channels : Closed(S) => seen \subseteq S

Ahead(c, j) == \E k \in 1..Len(stack) : stack[k].ci = c /\ stack[k].i <= j

Done(e) == ~Grants(e) /\ (e.mask \in Channels => e.mask \in seen)

ReadOrAhead ==
  Fits /\ result \in {"searching", "no"} =>
    \A c \in seen : \A j \in 1..Len(access[c]) : Ahead(c, j) \/ Done(access[c][j])

Ended == result = "no" => ci \in seen /\ stack = <<>>

SearchInv ==
  SearchTypes /\ CallsAreSeen /\ OnlyReachableSeen /\ ReadOrAhead /\ Ended /\ YesIsEarned

=============================================================================
