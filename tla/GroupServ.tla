------------------------------ MODULE GroupServ ------------------------------
(***************************************************************************)
(* GroupServ core: account groups, their access lists, invitations, drop   *)
(* confirmations, shared memos and the flat-file database                  *)
(* (src/GroupServ/groupserv_core.cpp).                                     *)
(*                                                                         *)
(* Services run one event loop, so each command handler is one action.  A  *)
(* handler that changes anything ends in SaveDB; Commit models that tail.  *)
(* std::map is a partial function whose DOMAIN is the set of keys.         *)
(***************************************************************************)
EXTENDS GroupServFlags, Integers, FiniteSets, SequencesExt

CONSTANTS
  Accounts,          \* NickServ accounts
  Groups,            \* valid group names
  PipeAccounts,      \* accounts whose name holds a "|" (legal in a nickname)
  Admins,            \* hold admin_priv
  Auspexes,          \* hold auspex_priv
  Exceeders,         \* hold exceed_priv
  Opers,             \* IRC operators
  MaxGroups, MaxGroupAcs, MaxGroupMemos,  \* configured limits, 0 = none
  EnableOpenGroups, OpersOnly, DefaultVHostAuto,
  DefaultJoinFlags,  \* parsed default_joinflags
  InviteTTL, DropTTL,
  FlagChanges,       \* bound: the flag strings given to FLAGS and FFLAGS
  JoinFlagValues,    \* bound: the flag strings given to SET JOINFLAGS
  Options,           \* bound: the group options that are toggled
  ReadOnlyModes,     \* bound: the values Anope::ReadOnly takes
  MaxTime,           \* bound: the clock stops there
  MaxMemos           \* bound: memos of a group when MaxGroupMemos = 0

GroupFlags == {"OPEN", "PUBLIC", "REGNOLIMIT", "ACSNOLIMIT", "VHOSTAUTO"}

ASSUME ConfigAssumption ==
  /\ PipeAccounts \subseteq Accounts
  /\ {MaxGroups, MaxGroupAcs, MaxGroupMemos, MaxMemos, InviteTTL, DropTTL, MaxTime} \subseteq Nat
  /\ {EnableOpenGroups, OpersOnly, DefaultVHostAuto} \subseteq BOOLEAN
  /\ DefaultJoinFlags \subseteq AccessFlags /\ Managed(DefaultJoinFlags)
  /\ FlagChanges \subseteq Seq(Token) /\ JoinFlagValues \subseteq Seq(Token)
  /\ Options \subseteq GroupFlags
  /\ ReadOnlyModes \subseteq BOOLEAN

VARIABLES
  up,          \* the module is loaded (initialized)
  groups,      \* group name -> record
  invites,     \* account -> its one pending invitation
  challenges,  \* <<account, group>> -> time the drop key was handed out
  disk,        \* what groupserv.db holds
  readonly,    \* Anope::ReadOnly
  now          \* Anope::CurTime

vars == <<up, groups, invites, challenges, disk, readonly, now>>

-----------------------------------------------------------------------------
(* Maps *)

EmptyMap      == [k \in {} |-> {}]
Put(f, k, v)  == [x \in DOMAIN f \union {k} |-> IF x = k THEN v ELSE f[x]]
Without(f, S) == [x \in DOMAIN f \ S |-> f[x]]

-----------------------------------------------------------------------------
(* Privileges and access *)

IsAdmin(a)         == a \in Admins
IsAuspex(a)        == a \in Auspexes \/ IsAdmin(a)
CanExceedLimits(a) == a \in Exceeders \/ IsAdmin(a)

GetAccessFor(r, a) == IF a \in DOMAIN r.access THEN r.access[a] ELSE {}

\* BAN blocks every access of an account that is not a founder.
HasAccess(r, a, required) ==
  LET flags == GetAccessFor(r, a)
  IN  /\ "BAN" \in flags => "FOUNDER" \in flags
      /\ required \in flags

\* What GROUPONLY channels and NickServ INFO call a member.
IsMemberOfGroup(g, a) ==
  /\ g \in DOMAIN groups
  /\ GetAccessFor(groups[g], a) # {}
  /\ "BAN" \notin GetAccessFor(groups[g], a)

Founders(r) == {a \in DOMAIN r.access : "FOUNDER" \in r.access[a]}

CountGroupsFoundedBy(a) == Cardinality({g \in DOMAIN groups : a \in Founders(groups[g])})

\* A plausible slip: the limit lets one entry too many in.
HasRoomOffByOne(r, a) ==
  \/ MaxGroupAcs = 0 \/ "ACSNOLIMIT" \in r.flags \/ CanExceedLimits(a)
  \/ Cardinality(DOMAIN r.access) <= MaxGroupAcs

HasRoom(r, a) ==
  \/ MaxGroupAcs = 0 \/ "ACSNOLIMIT" \in r.flags \/ CanExceedLimits(a)
  \/ Cardinality(DOMAIN r.access) < MaxGroupAcs

-----------------------------------------------------------------------------
(* Expiry, SaveDB and LoadDB *)

InviteExpired(inv)     == inv.expires < now
ChallengeExpired(made) == made + DropTTL < now

\* PurgeExpiredState
LiveInvites(invs) == Without(invs, {a \in DOMAIN invs : InviteExpired(invs[a])})

\* A plausible slip: only the invitations are purged.
KeptChallenges(chals) == chals

LiveChallenges(chals) == Without(chals, {c \in DOMAIN chals : ChallengeExpired(chals[c])})

\* A plausible slip: the change is acknowledged and left for the save timer.
Defer(gs, invs, chals) ==
  /\ groups' = gs /\ invites' = invs /\ challenges' = chals
  /\ UNCHANGED <<up, disk, readonly, now>>

\* The tail of every changing handler: the new tables, then SaveDB, which purges
\* what expired and replaces the file, or does nothing at all in read-only mode.
Commit(gs, invs, chals) ==
  /\ groups' = gs
  /\ IF readonly
     THEN /\ invites' = invs
          /\ challenges' = chals
          /\ disk' = disk
     ELSE /\ invites' = LiveInvites(invs)
          /\ challenges' = LiveChallenges(chals)
          /\ disk' = [groups |-> gs, invites |-> LiveInvites(invs)]
  /\ UNCHANGED <<up, readonly, now>>

\* The oldest memos go when a group holds more than the limit.
ClampMemos(memos) ==
  IF MaxGroupMemos = 0 \/ Len(memos) <= MaxGroupMemos
  THEN memos
  ELSE SubSeq(memos, Len(memos) - MaxGroupMemos + 1, Len(memos))

\* A plausible slip: the saved join flags are added to the configured default.
LoadedOntoDefault(r) ==
  [r EXCEPT !.joinflags = ParseFlags(<<Plus(r.joinflags)>>, FALSE, DefaultJoinFlags),
            !.memos = IF DOMAIN r.access = {} THEN <<>> ELSE ClampMemos(r.memos)]

\* A group as LoadDB rebuilds it: the join flags are written as letters and
\* parsed again, and the memos of a group without access entries are skipped.
LoadedGroup(r) ==
  [r EXCEPT !.joinflags = ParseFlags(<<Plus(r.joinflags)>>, FALSE, {}),
            !.memos = IF DOMAIN r.access = {} THEN <<>> ELSE ClampMemos(r.memos)]

LoadDB ==
  /\ groups' = [g \in DOMAIN disk.groups |-> LoadedGroup(disk.groups[g])]
  /\ invites' = LiveInvites(disk.invites)
  /\ challenges' = EmptyMap

-----------------------------------------------------------------------------
(* Commands *)

NewGroup(a) ==
  [flags |-> IF DefaultVHostAuto THEN {"VHOSTAUTO"} ELSE {},
   joinflags |-> {},
   access |-> Put(EmptyMap, a, All),
   memos |-> <<>>]

RegisterGroup(a, g) ==
  /\ up /\ g \notin DOMAIN groups
  /\ OpersOnly => a \in Opers
  /\ MaxGroups > 0 /\ ~CanExceedLimits(a) => CountGroupsFoundedBy(a) < MaxGroups
  /\ Commit(Put(groups, g, NewGroup(a)), invites, challenges)

\* DROP without a key hands one out; nothing is saved.
RequestDrop(a, g) ==
  /\ up /\ g \in DOMAIN groups
  /\ HasAccess(groups[g], a, "FOUNDER")
  /\ challenges' = Put(challenges, <<a, g>>, now)
  /\ UNCHANGED <<up, groups, invites, disk, readonly, now>>

InvitedTo(invs, g) == {a \in DOMAIN invs : invs[a].group = g}

\* A plausible slip: pending invitations outlive the group.
ForgetGroupOnly(g, used) ==
  Commit(Without(groups, {g}), invites, Without(challenges, used))

\* Group, its pending invitations and the challenges in `used` go together.
Forget(g, used) ==
  Commit(Without(groups, {g}), Without(invites, InvitedTo(invites, g)), Without(challenges, used))

\* A plausible slip: the age of the key is not looked at.
ConfirmDropAnyAge(a, g) ==
  /\ up /\ g \in DOMAIN groups
  /\ HasAccess(groups[g], a, "FOUNDER")
  /\ <<a, g>> \in DOMAIN challenges
  /\ Forget(g, {<<a, g>>})

\* DROP with the key last handed out to this account for this group.
ConfirmDrop(a, g) ==
  /\ up /\ g \in DOMAIN groups
  /\ HasAccess(groups[g], a, "FOUNDER")
  /\ <<a, g>> \in DOMAIN challenges
  /\ ~ChallengeExpired(challenges[<<a, g>>])
  /\ Forget(g, {<<a, g>>})

\* DROP with any key once the challenge is too old: refused, and forgotten.
RefuseDrop(a, g) ==
  /\ up /\ g \in DOMAIN groups
  /\ HasAccess(groups[g], a, "FOUNDER")
  /\ <<a, g>> \in DOMAIN challenges
  /\ ChallengeExpired(challenges[<<a, g>>])
  /\ challenges' = Without(challenges, {<<a, g>>})
  /\ UNCHANGED <<up, groups, invites, disk, readonly, now>>

ForceDrop(a, g) ==
  /\ up /\ g \in DOMAIN groups
  /\ IsAdmin(a)
  /\ Forget(g, {})

\* JOIN looks at the account's invitation first and forgets it when it is too old.
HeldInvites(a) ==
  IF a \in DOMAIN invites /\ InviteExpired(invites[a]) THEN Without(invites, {a}) ELSE invites

Invited(a, g) == a \in DOMAIN HeldInvites(a) /\ invites[a].group = g

MayJoin(a, g) ==
  \/ Invited(a, g)
  \/ EnableOpenGroups /\ "OPEN" \in groups[g].flags /\ HasRoom(groups[g], a)

JoinFlagsOf(r) == IF r.joinflags = {} THEN DefaultJoinFlags ELSE r.joinflags

\* A plausible slip: an entry that is no membership (a ban) does not stop a JOIN.
JoinGroupOverBan(a, g) ==
  /\ up /\ g \in DOMAIN groups /\ ~IsMemberOfGroup(g, a)
  /\ MayJoin(a, g)
  /\ Commit([groups EXCEPT ![g].access = Put(@, a, JoinFlagsOf(groups[g]))],
            Without(HeldInvites(a), IF Invited(a, g) THEN {a} ELSE {}), challenges)

JoinGroup(a, g) ==
  /\ up /\ g \in DOMAIN groups /\ a \notin DOMAIN groups[g].access
  /\ MayJoin(a, g)
  /\ Commit([groups EXCEPT ![g].access = Put(@, a, JoinFlagsOf(groups[g]))],
            Without(HeldInvites(a), IF Invited(a, g) THEN {a} ELSE {}), challenges)

RefuseJoin(a, g) ==
  /\ up /\ g \in DOMAIN groups /\ a \notin DOMAIN groups[g].access
  /\ ~MayJoin(a, g)
  /\ invites' = HeldInvites(a)
  /\ UNCHANGED <<up, groups, challenges, disk, readonly, now>>

\* An invitation to another group, even an expired one, is in the way.
InviteToGroup(a, g, t) ==
  /\ up /\ g \in DOMAIN groups
  /\ HasAccess(groups[g], a, "INVITE")
  /\ t \notin DOMAIN groups[g].access
  /\ t \in DOMAIN invites => invites[t].group = g
  /\ Commit(groups, Put(invites, t, [group |-> g, expires |-> now + InviteTTL]), challenges)

\* Non-founders cannot add or remove founder.
MayChangeFounder(r, a, cur, updated) ==
  "FOUNDER" \in GetAccessFor(r, a) \/ ("FOUNDER" \in updated <=> "FOUNDER" \in cur)

\* A plausible slip: one founder is taken for enough to remove a founder.
KeepsAFounderOffByOne(r, cur, updated) ==
  "FOUNDER" \in cur /\ "FOUNDER" \notin updated => Cardinality(Founders(r)) > 0

\* Prevent removing last founder.
KeepsAFounder(r, cur, updated) ==
  "FOUNDER" \in cur /\ "FOUNDER" \notin updated => Cardinality(Founders(r)) > 1

\* FLAGS (force = FALSE) and FFLAGS (force = TRUE).
SetFlags(a, g, t, changes, force) ==
  /\ up /\ g \in DOMAIN groups
  /\ IF force THEN IsAdmin(a) ELSE HasAccess(groups[g], a, "FLAGS")
  /\ LET r       == groups[g]
         cur     == GetAccessFor(r, t)
         updated == ParseFlags(changes, TRUE, cur)
     IN  /\ force \/ MayChangeFounder(r, a, cur, updated)
         /\ KeepsAFounder(r, cur, updated)
         /\ IF updated = {}
            THEN Commit([groups EXCEPT ![g].access = Without(@, {t})], invites, challenges)
            ELSE /\ t \in DOMAIN r.access \/ HasRoom(r, a)
                 /\ Commit([groups EXCEPT ![g].access = Put(@, t, updated)], invites, challenges)

-----------------------------------------------------------------------------
(* SET *)

RenameInvites(from, to) ==
  [a \in DOMAIN invites |->
     IF invites[a].group = from THEN [invites[a] EXCEPT !.group = to] ELSE invites[a]]

\* Challenges of the old and the new name are forgotten.  The code splits the key
\* "account|group" at its first bar, so it misses accounts with a bar in their name.
ChallengesNaming(names) ==
  {c \in DOMAIN challenges : c[1] \notin PipeAccounts /\ c[2] \in names}

\* A plausible slip: the invitations keep the old name.
RenameGroupOnly(a, g, n) ==
  /\ up /\ g \in DOMAIN groups
  /\ HasAccess(groups[g], a, "SET") /\ HasAccess(groups[g], a, "FOUNDER")
  /\ n \notin DOMAIN groups
  /\ Commit(Put(Without(groups, {g}), n, groups[g]), invites,
            Without(challenges, ChallengesNaming({g, n})))

\* SET GROUPNAME
RenameGroup(a, g, n) ==
  /\ up /\ g \in DOMAIN groups
  /\ HasAccess(groups[g], a, "SET") /\ HasAccess(groups[g], a, "FOUNDER")
  /\ n \notin DOMAIN groups
  /\ Commit(Put(Without(groups, {g}), n, groups[g]), RenameInvites(g, n),
            Without(challenges, ChallengesNaming({g, n})))

\* SET JOINFLAGS; the empty value stands for OFF.  A value that begins with "-" is
\* refused, one that means nothing becomes all permissions except founder.
SetJoinFlags(a, g, value) ==
  /\ up /\ g \in DOMAIN groups
  /\ HasAccess(groups[g], a, "SET")
  /\ value # <<>> => value[1].dir = "+"
  /\ LET parsed == ParseFlags(value, FALSE, {})
         flags  == IF value = <<>> THEN {} ELSE IF parsed = {} THEN AllNoFounder ELSE parsed
     IN  Commit([groups EXCEPT ![g].joinflags = flags], invites, challenges)

WithFlag(r, option, on) ==
  [r EXCEPT !.flags = IF on THEN @ \union {option} ELSE @ \ {option}]

\* SET OPEN, PUBLIC and VHOSTAUTO
SetOption(a, g, option, on) ==
  /\ up /\ g \in DOMAIN groups
  /\ \/ option \in {"OPEN", "PUBLIC"} /\ HasAccess(groups[g], a, "FOUNDER")
     \/ option = "VHOSTAUTO" /\ HasAccess(groups[g], a, "SET")
  /\ option = "OPEN" /\ on => EnableOpenGroups
  /\ Commit([groups EXCEPT ![g] = WithFlag(@, option, on)], invites, challenges)

\* SET DESCRIPTION, URL, EMAIL, CHANNEL and VHOST: the text is left out.
SetText(a, g) ==
  /\ up /\ g \in DOMAIN groups
  /\ HasAccess(groups[g], a, "SET")
  /\ Commit(groups, invites, challenges)

\* ACSNOLIMIT and REGNOLIMIT
SetGroupFlag(a, g, option, on) ==
  /\ up /\ g \in DOMAIN groups
  /\ IsAdmin(a)
  /\ option \in {"ACSNOLIMIT", "REGNOLIMIT"}
  /\ Commit([groups EXCEPT ![g] = WithFlag(@, option, on)], invites, challenges)

-----------------------------------------------------------------------------
(* Shared memos: the one set of commands that honours read-only mode *)

MayWriteMemos(a) == readonly => a \in Opers

\* A plausible slip: the limit is compared with > and the queue runs over it.
MemosFullOffByOne(r) == MaxGroupMemos # 0 /\ Len(r.memos) > MaxGroupMemos

MemosFull(r) == MaxGroupMemos # 0 /\ Len(r.memos) >= MaxGroupMemos

SendMemo(a, g) ==
  /\ up /\ g \in DOMAIN groups
  /\ MayWriteMemos(a)
  /\ HasAccess(groups[g], a, "MEMO") \/ IsAuspex(a)
  /\ ~MemosFull(groups[g])
  /\ MaxGroupMemos = 0 => Len(groups[g].memos) < MaxMemos
  /\ Commit([groups EXCEPT ![g].memos = ClampMemos(Append(@, a))], invites, challenges)

DelMemo(a, g, i) ==
  /\ up /\ g \in DOMAIN groups
  /\ MayWriteMemos(a)
  /\ HasAccess(groups[g], a, "SET") \/ IsAuspex(a)
  /\ i \in 1..Len(groups[g].memos)
  /\ Commit([groups EXCEPT ![g].memos = RemoveAt(@, i)], invites, challenges)

-----------------------------------------------------------------------------
(* Timers, the clock and the life of the module *)

\* GroupServTimer, every save_interval seconds.
SaveTimer == up /\ Commit(groups, invites, challenges)

Tick ==
  /\ now < MaxTime
  /\ now' = now + 1
  /\ UNCHANGED <<up, groups, invites, challenges, disk, readonly>>

\* OperServ SET READONLY
SetReadOnly ==
  /\ up
  /\ readonly' \in ReadOnlyModes \ {readonly}
  /\ UNCHANGED <<up, groups, invites, challenges, disk, now>>

ForgetMemory ==
  /\ up' = FALSE
  /\ groups' = EmptyMap /\ invites' = EmptyMap /\ challenges' = EmptyMap
  /\ readonly' = FALSE

\* The module is unloaded or services stop: the destructor saves once more.
Unload ==
  /\ up
  /\ disk' = IF readonly THEN disk ELSE [groups |-> groups, invites |-> LiveInvites(invites)]
  /\ ForgetMemory /\ UNCHANGED now

Crash == up /\ ForgetMemory /\ UNCHANGED <<disk, now>>

\* OnReload of a freshly loaded module.
Load ==
  /\ ~up
  /\ up' = TRUE
  /\ LoadDB
  /\ readonly' \in ReadOnlyModes
  /\ UNCHANGED <<disk, now>>

-----------------------------------------------------------------------------

Init ==
  /\ up = TRUE
  /\ groups = EmptyMap /\ invites = EmptyMap /\ challenges = EmptyMap
  /\ disk = [groups |-> EmptyMap, invites |-> EmptyMap]
  /\ readonly = FALSE
  /\ now = 1

\* What account a may do by itself.
Command(a) ==
  \E g \in Groups :
    \/ RegisterGroup(a, g)
    \/ RequestDrop(a, g) \/ ConfirmDrop(a, g) \/ RefuseDrop(a, g) \/ ForceDrop(a, g)
    \/ JoinGroup(a, g) \/ RefuseJoin(a, g)
    \/ \E t \in Accounts : InviteToGroup(a, g, t)
    \/ \E t \in Accounts, changes \in FlagChanges, force \in BOOLEAN :
          SetFlags(a, g, t, changes, force)
    \/ \E n \in Groups : RenameGroup(a, g, n)
    \/ \E value \in JoinFlagValues : SetJoinFlags(a, g, value)
    \/ \E option \in Options, on \in BOOLEAN :
          SetOption(a, g, option, on) \/ SetGroupFlag(a, g, option, on)
    \/ SetText(a, g)
    \/ SendMemo(a, g)
    \/ \E i \in 1..(MaxGroupMemos + MaxMemos) : DelMemo(a, g, i)

Environment == SaveTimer \/ Tick \/ SetReadOnly \/ Unload \/ Crash \/ Load

Next == (\E a \in Accounts : Command(a)) \/ Environment

Spec == Init /\ [][Next]_vars

\* Services keep running their timers; users and operators owe nothing.
FairSpec == Spec /\ WF_vars(SaveTimer) /\ WF_vars(Load)

-----------------------------------------------------------------------------
(* Properties *)

IsMap(f, K) == f = [k \in DOMAIN f |-> f[k]] /\ DOMAIN f \subseteq K

GroupOK(r) ==
  /\ r \in [flags : SUBSET GroupFlags, joinflags : SUBSET AccessFlags,
            access : {r.access}, memos : Seq(Accounts)]
  /\ IsMap(r.access, Accounts)
  /\ \A a \in DOMAIN r.access : r.access[a] \subseteq AccessFlags

GroupsOK(gs) == IsMap(gs, Groups) /\ \A g \in DOMAIN gs : GroupOK(gs[g])

InvitesOK(invs) ==
  /\ IsMap(invs, Accounts)
  /\ \A a \in DOMAIN invs : invs[a] \in [group : Groups, expires : Nat]

ChallengesOK(chals) ==
  /\ IsMap(chals, Accounts \X Groups)
  /\ \A c \in DOMAIN chals : chals[c] \in Nat

TypeOK ==
  /\ up \in BOOLEAN
  /\ GroupsOK(groups) /\ InvitesOK(invites) /\ ChallengesOK(challenges)
  /\ disk \in [groups : {disk.groups}, invites : {disk.invites}]
  /\ GroupsOK(disk.groups) /\ InvitesOK(disk.invites)
  /\ readonly \in BOOLEAN
  /\ now \in Nat

\* Each group of a table has an account that may manage, rename and drop it.
Founded(gs) == \A g \in DOMAIN gs : Founders(gs[g]) # {}

\* A group never loses its last founder, neither in memory nor in the file that a
\* restart reads back, whoever edits the access list (SetFlags, DropGroup, LoadDB).
EveryGroupHasFounder == Founded(groups) /\ Founded(disk.groups)

\* The flags of a group, those of its members and those of its future members.
WellManaged(gs) ==
  \A g \in DOMAIN gs :
    /\ Managed(gs[g].joinflags)
    /\ \A a \in DOMAIN gs[g].access : Managed(gs[g].access[a])

\* F implies management powers, however the flags came about: registration, FLAGS,
\* FFLAGS, join flags, a reload (ParseFlags, JoinGroup, RegisterGroup).
FoundersAreManagers == WellManaged(groups) /\ WellManaged(disk.groups)

\* A pending invitation names a registered group, after drops, renames and
\* restarts too: accepting it always finds its group (DropGroup, SET GROUPNAME).
Resolved(gs, invs) == \A a \in DOMAIN invs : invs[a].group \in DOMAIN gs
InvitesNameGroups == Resolved(groups, invites) /\ Resolved(disk.groups, disk.invites)

Banned(g, a) ==
  /\ g \in DOMAIN groups
  /\ "BAN" \in GetAccessFor(groups[g], a) /\ a \notin Founders(groups[g])

\* No command of a banned account makes it a member again; somebody with FLAGS
\* access, or an admin, has to lift the ban (JoinGroup, SetFlags, HasAccess).
BannedStaysOut ==
  [][\A a \in Accounts \ Admins, g \in Groups :
       Banned(g, a) /\ IsMemberOfGroup(g, a)' => ~Command(a)]_groups

Size(gs, g) == Cardinality(DOMAIN gs[g].access)

\* An access list grows beyond maxgroupacs only where the code means it to: for
\* ACSNOLIMIT groups, privileged sources and accepted invitations (JoinGroup, SetFlags).
GrowthPastLimit ==
  [][\A g \in DOMAIN groups \intersect DOMAIN groups' :
       MaxGroupAcs > 0 /\ Size(groups', g) > Size(groups, g) /\ Size(groups', g) > MaxGroupAcs
       => \/ "ACSNOLIMIT" \in groups[g].flags
          \/ \E a \in Accounts : Invited(a, g) /\ a \in DOMAIN groups'[g].access
          \/ \E a \in Accounts : CanExceedLimits(a) /\ Command(a)
     ]_groups

\* A group disappears only when an admin forces it or when one of its founders confirms
\* with a key that has not expired, and that key is spent (DropGroup).
DropIsConfirmed ==
  [][up /\ up' /\ Cardinality(DOMAIN groups') < Cardinality(DOMAIN groups)
     => \E a \in Accounts, g \in DOMAIN groups \ DOMAIN groups' :
          \/ IsAdmin(a)
          \/ /\ a \in Founders(groups[g])
             /\ <<a, g>> \in DOMAIN challenges \ DOMAIN challenges'
             /\ ~ChallengeExpired(challenges[<<a, g>>])
    ]_vars

\* A change that was acknowledged outside read-only mode is on disk by then: a crash
\* right after the reply loses nothing (SaveDB at the end of every handler).
AcknowledgedIsDurable ==
  [][up /\ up' /\ ~readonly /\ groups' # groups => disk'.groups = groups']_vars

\* A restart brings back exactly the saved groups: the letters of the join flags parse
\* to what was written and no memo is skipped or clamped away (SaveDB, LoadDB).
RestartRestoresDisk == [][~up /\ up' => groups' = disk.groups]_vars

\* Memos leave a group one at a time, by GDEL, and a new one never displaces an older
\* one (SendMemo, ClampMemos, DelMemo).
NoMemoDisplaced ==
  [][up /\ up' => \A g \in DOMAIN groups \intersect DOMAIN groups' :
       \/ IsPrefix(groups[g].memos, groups'[g].memos)
       \/ \E i \in 1..Len(groups[g].memos) : groups'[g].memos = RemoveAt(groups[g].memos, i)
    ]_vars

Stale ==
  \/ \E a \in DOMAIN invites : InviteExpired(invites[a])
  \/ \E c \in DOMAIN challenges : ChallengeExpired(challenges[c])

\* Expired invitations and drop keys do not stay in memory: the save timer or the next
\* load purges them (PurgeExpiredState; wiki "Memory usage notes"), unless services
\* are read-only, when SaveDB does nothing.
ExpiredStateIsPurged == Stale ~> ~Stale \/ readonly
=============================================================================
