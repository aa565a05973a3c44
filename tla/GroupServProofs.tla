-------------------------- MODULE GroupServProofs --------------------------
(***************************************************************************)
(* The tables of GroupServ stay sound, in memory and on disk, for any      *)
(* number of accounts and groups and any configuration.                    *)
(*                                                                         *)
(* The inductive invariant says of every pair (groups, invitations) what   *)
(* the safety properties say of the tables in memory and of those on disk. *)
(* Every handler ends in Commit, so a handler is safe as soon as the       *)
(* tables it commits are sound.                                            *)
(***************************************************************************)
EXTENDS GroupServ, FiniteSetTheorems, TLAPS

\* SendMemo refuses before ClampMemos has anything to drop.
FitsLimit(memos) == MaxGroupMemos = 0 \/ Len(memos) <= MaxGroupMemos

\* A record no property complains about.
SoundRecord(r) ==
  /\ GroupOK(r) /\ IsFiniteSet(DOMAIN r.access) /\ FitsLimit(r.memos)
  /\ Founders(r) # {}
  /\ Managed(r.joinflags)
  /\ \A a \in DOMAIN r.access : Managed(r.access[a])

Sound(gs, invs) ==
  /\ IsMap(gs, Groups) /\ IsFiniteSet(DOMAIN gs)
  /\ \A g \in DOMAIN gs : SoundRecord(gs[g])
  /\ InvitesOK(invs)
  /\ Resolved(gs, invs)

\* The inductive invariant.
IInv ==
  /\ up \in BOOLEAN
  /\ Sound(groups, invites)
  /\ ChallengesOK(challenges)
  /\ disk \in [groups : {disk.groups}, invites : {disk.invites}]
  /\ Sound(disk.groups, disk.invites)
  /\ readonly \in BOOLEAN
  /\ now \in Nat

-----------------------------------------------------------------------------
(* Maps *)

\* Put adds or replaces one value.
LEMMA PutIsMap ==
  ASSUME NEW f, NEW K, IsMap(f, K), NEW k \in K, NEW v
  PROVE  /\ IsMap(Put(f, k, v), K)
         /\ DOMAIN Put(f, k, v) = DOMAIN f \union {k}
         /\ Put(f, k, v)[k] = v
         /\ \A x \in DOMAIN f : x # k => Put(f, k, v)[x] = f[x]
BY DEF IsMap, Put

\* Without takes keys away and leaves the other values.
LEMMA WithoutIsMap ==
  ASSUME NEW f, NEW K, IsMap(f, K), NEW S
  PROVE  /\ IsMap(Without(f, S), K)
         /\ DOMAIN Without(f, S) = DOMAIN f \ S
         /\ \A x \in DOMAIN f \ S : Without(f, S)[x] = f[x]
BY DEF IsMap, Without

\* EXCEPT replaces one value.
LEMMA UpdateIsMap ==
  ASSUME NEW f, NEW K, IsMap(f, K), NEW k \in DOMAIN f, NEW v
  PROVE  /\ IsMap([f EXCEPT ![k] = v], K)
         /\ DOMAIN [f EXCEPT ![k] = v] = DOMAIN f
         /\ \A x \in DOMAIN f : [f EXCEPT ![k] = v][x] = IF x = k THEN v ELSE f[x]
BY DEF IsMap

-----------------------------------------------------------------------------
(* Flags *)

\* What ParseFlags returns is a set of flags with the founder rule applied.
LEMMA ParsedIsManaged ==
  ASSUME NEW tokens, NEW minus, NEW current
  PROVE  /\ ParseFlags(tokens, minus, current) \subseteq AccessFlags
         /\ Managed(ParseFlags(tokens, minus, current))
<1> DEFINE W == LastWord(tokens, Len(tokens), minus, current)
<1>1. W \subseteq AccessFlags
  BY DEF LastWord
<1>2. ImpliedBy(W) \subseteq AccessFlags /\ Managed(ImpliedBy(W))
  BY <1>1 DEF ImpliedBy, Managed, AllNoFounder, All
<1> QED BY <1>2 DEF ParseFlags

\* The flag sets the code grants hold the powers that founders need.
LEMMA AllIsManaged == /\ All \subseteq AccessFlags /\ Managed(All)
                      /\ AllNoFounder \subseteq AccessFlags /\ Managed(AllNoFounder)
                      /\ Managed({}) /\ "FOUNDER" \in All
BY DEF All, AllNoFounder, AccessFlags, Managed

-----------------------------------------------------------------------------
(* Records *)

\* The types of the fields of a group.
LEMMA RecordFields ==
  ASSUME NEW r, GroupOK(r)
  PROVE  /\ r.flags \subseteq GroupFlags /\ r.joinflags \subseteq AccessFlags
         /\ IsMap(r.access, Accounts) /\ r.memos \in Seq(Accounts)
BY DEF GroupOK

\* Group flags do not matter for soundness.
LEMMA SetFlagsField ==
  ASSUME NEW r, SoundRecord(r), NEW S \in SUBSET GroupFlags
  PROVE  SoundRecord([r EXCEPT !.flags = S])
BY DEF SoundRecord, GroupOK, Founders

\* Join flags must be managed, for JOIN copies them into an access list.
LEMMA SetJoinFlagsField ==
  ASSUME NEW r, SoundRecord(r), NEW S \in SUBSET AccessFlags, Managed(S)
  PROVE  SoundRecord([r EXCEPT !.joinflags = S])
BY DEF SoundRecord, GroupOK, Founders

\* A memo queue that fits its limit.
LEMMA SetMemosField ==
  ASSUME NEW r, SoundRecord(r), NEW s \in Seq(Accounts), FitsLimit(s)
  PROVE  SoundRecord([r EXCEPT !.memos = s])
BY DEF SoundRecord, GroupOK, Founders

\* An entry is added or changed, and the last founder is not demoted.
LEMMA PutEntry ==
  ASSUME NEW r, SoundRecord(r), NEW a \in Accounts, NEW S \in SUBSET AccessFlags, Managed(S),
         "FOUNDER" \in S \/ Founders(r) # {a}
  PROVE  SoundRecord([r EXCEPT !.access = Put(r.access, a, S)])
<1> DEFINE acc == Put(r.access, a, S)
           new == [r EXCEPT !.access = acc]
<1>1. IsMap(r.access, Accounts)
  BY DEF SoundRecord, GroupOK
<1>2. /\ IsMap(acc, Accounts) /\ DOMAIN acc = DOMAIN r.access \union {a}
      /\ acc[a] = S /\ \A x \in DOMAIN r.access : x # a => acc[x] = r.access[x]
  BY <1>1 DEF IsMap, Put
<1> HIDE DEF acc
<1>3. new.access = acc /\ new.joinflags = r.joinflags /\ new.memos = r.memos
  BY DEF SoundRecord, GroupOK
<1>4. GroupOK(new)
  BY <1>2, <1>3 DEF SoundRecord, GroupOK
<1>5. Founders(new) # {}
  <2>1. PICK f \in Founders(r) : "FOUNDER" \in S \/ f # a
    BY DEF SoundRecord
  <2>2. a \in Founders(new) \/ f \in Founders(new)
    BY <2>1, <1>2, <1>3 DEF Founders
  <2> QED BY <2>2
<1>6. \A x \in DOMAIN new.access : Managed(new.access[x])
  BY <1>2, <1>3 DEF SoundRecord
<1>7. Managed(new.joinflags)
  BY <1>3 DEF SoundRecord
<1>8. IsFiniteSet(DOMAIN new.access) /\ FitsLimit(new.memos)
  BY <1>2, <1>3, FS_AddElement DEF SoundRecord
<1> HIDE DEF new
<1>9. SoundRecord(new)
  BY <1>4, <1>5, <1>6, <1>7, <1>8 DEF SoundRecord
<1> QED BY <1>9 DEF new, acc

\* An entry that is not the last founder's is removed.
LEMMA DropEntry ==
  ASSUME NEW r, SoundRecord(r), NEW a, Founders(r) # {a}
  PROVE  SoundRecord([r EXCEPT !.access = Without(r.access, {a})])
<1> DEFINE acc == Without(r.access, {a})
           new == [r EXCEPT !.access = acc]
<1>1. IsMap(r.access, Accounts)
  BY DEF SoundRecord, GroupOK
<1>2. /\ IsMap(acc, Accounts) /\ DOMAIN acc = DOMAIN r.access \ {a}
      /\ \A x \in DOMAIN r.access \ {a} : acc[x] = r.access[x]
  BY <1>1, WithoutIsMap
<1> HIDE DEF acc
<1>3. new.access = acc /\ new.joinflags = r.joinflags /\ new.memos = r.memos
  BY DEF SoundRecord, GroupOK
<1>4. GroupOK(new)
  BY <1>2, <1>3 DEF SoundRecord, GroupOK
<1>5. Founders(new) # {}
  <2>1. PICK f \in Founders(r) : f # a
    BY DEF SoundRecord
  <2> QED BY <2>1, <1>2, <1>3 DEF Founders
<1>6. \A x \in DOMAIN new.access : Managed(new.access[x])
  BY <1>2, <1>3 DEF SoundRecord
<1>7. Managed(new.joinflags)
  BY <1>3 DEF SoundRecord
<1>8. IsFiniteSet(DOMAIN new.access) /\ FitsLimit(new.memos)
  BY <1>2, <1>3, FS_RemoveElement DEF SoundRecord
<1> HIDE DEF new
<1>9. SoundRecord(new)
  BY <1>4, <1>5, <1>6, <1>7, <1>8 DEF SoundRecord
<1> QED BY <1>9 DEF new, acc

-----------------------------------------------------------------------------
(* Tables *)

\* Replacing a group by a sound one keeps the tables sound.
LEMMA UpdateGroup ==
  ASSUME NEW gs, NEW invs, Sound(gs, invs), NEW g \in DOMAIN gs, NEW r, SoundRecord(r)
  PROVE  Sound([gs EXCEPT ![g] = r], invs)
<1>1. IsMap(gs, Groups)
  BY DEF Sound
<1>2. /\ IsMap([gs EXCEPT ![g] = r], Groups)
      /\ DOMAIN [gs EXCEPT ![g] = r] = DOMAIN gs
      /\ \A x \in DOMAIN gs : [gs EXCEPT ![g] = r][x] = IF x = g THEN r ELSE gs[x]
  BY <1>1, UpdateIsMap
<1> QED BY <1>2 DEF Sound, Resolved

\* So does adding one.
LEMMA PutGroup ==
  ASSUME NEW gs, NEW invs, Sound(gs, invs), NEW g \in Groups, NEW r, SoundRecord(r)
  PROVE  Sound(Put(gs, g, r), invs)
<1>1. IsMap(gs, Groups)
  BY DEF Sound
<1>2. /\ IsMap(Put(gs, g, r), Groups)
      /\ DOMAIN Put(gs, g, r) = DOMAIN gs \union {g}
      /\ Put(gs, g, r)[g] = r
      /\ \A x \in DOMAIN gs : x # g => Put(gs, g, r)[x] = gs[x]
  BY <1>1, PutIsMap
<1>3. IsFiniteSet(DOMAIN gs \union {g})
  BY FS_AddElement DEF Sound
<1> QED BY <1>2, <1>3 DEF Sound, Resolved

\* So does taking invitations away.
LEMMA FewerInvites ==
  ASSUME NEW gs, NEW invs, Sound(gs, invs), NEW S
  PROVE  Sound(gs, Without(invs, S))
<1>1. IsMap(invs, Accounts)
  BY DEF Sound, InvitesOK
<1>2. /\ IsMap(Without(invs, S), Accounts)
      /\ DOMAIN Without(invs, S) = DOMAIN invs \ S
      /\ \A x \in DOMAIN invs \ S : Without(invs, S)[x] = invs[x]
  BY <1>1, WithoutIsMap
<1> QED BY <1>2 DEF Sound, Resolved, InvitesOK

\* An invitation may be added to a group that is there.
LEMMA PutInvite ==
  ASSUME NEW gs, NEW invs, Sound(gs, invs), NEW a \in Accounts,
         NEW inv \in [group : Groups, expires : Nat], inv.group \in DOMAIN gs
  PROVE  Sound(gs, Put(invs, a, inv))
<1>1. IsMap(invs, Accounts)
  BY DEF Sound, InvitesOK
<1>2. /\ IsMap(Put(invs, a, inv), Accounts)
      /\ DOMAIN Put(invs, a, inv) = DOMAIN invs \union {a}
      /\ Put(invs, a, inv)[a] = inv
      /\ \A x \in DOMAIN invs : x # a => Put(invs, a, inv)[x] = invs[x]
  BY <1>1 DEF IsMap, Put
<1> QED BY <1>2 DEF Sound, Resolved, InvitesOK

\* A group goes together with the invitations to it.
LEMMA ForgetGroup ==
  ASSUME NEW gs, NEW invs, Sound(gs, invs), NEW g
  PROVE  Sound(Without(gs, {g}), Without(invs, InvitedTo(invs, g)))
<1> DEFINE G == Without(gs, {g})
           I == Without(invs, InvitedTo(invs, g))
<1>1. IsMap(gs, Groups) /\ IsMap(invs, Accounts)
  BY DEF Sound, InvitesOK
<1>2. /\ IsMap(G, Groups) /\ DOMAIN G = DOMAIN gs \ {g}
      /\ \A x \in DOMAIN gs \ {g} : G[x] = gs[x]
  BY <1>1, WithoutIsMap
<1>3. /\ IsMap(I, Accounts) /\ DOMAIN I = DOMAIN invs \ InvitedTo(invs, g)
      /\ \A x \in DOMAIN invs \ InvitedTo(invs, g) : I[x] = invs[x]
  BY <1>1, WithoutIsMap
<1> HIDE DEF G, I
<1>4. IsFiniteSet(DOMAIN gs \ {g})
  BY FS_RemoveElement DEF Sound
<1>5. Sound(G, I)
  BY <1>2, <1>3, <1>4 DEF Sound, Resolved, InvitesOK, InvitedTo
<1> QED BY <1>5 DEF G, I

\* A renamed group takes the invitations to it along.
LEMMA RenameTables ==
  ASSUME Sound(groups, invites), NEW g \in DOMAIN groups, NEW n \in Groups \ DOMAIN groups
  PROVE  Sound(Put(Without(groups, {g}), n, groups[g]), RenameInvites(g, n))
<1> DEFINE W == Without(groups, {g})
           G == Put(W, n, groups[g])
           I == RenameInvites(g, n)
<1>1. IsMap(groups, Groups) /\ IsMap(invites, Accounts) /\ g \in Groups
  BY DEF Sound, InvitesOK, IsMap
<1>2. /\ IsMap(W, Groups) /\ DOMAIN W = DOMAIN groups \ {g}
      /\ \A x \in DOMAIN groups \ {g} : W[x] = groups[x]
  BY <1>1, WithoutIsMap
<1> HIDE DEF W
<1>3. /\ IsMap(G, Groups) /\ DOMAIN G = (DOMAIN groups \ {g}) \union {n}
      /\ G[n] = groups[g] /\ \A x \in DOMAIN groups \ {g} : G[x] = groups[x]
  BY <1>2 DEF IsMap, Put
<1>4. /\ IsMap(I, Accounts) /\ DOMAIN I = DOMAIN invites
      /\ \A a \in DOMAIN invites :
            I[a] = IF invites[a].group = g THEN [invites[a] EXCEPT !.group = n] ELSE invites[a]
  BY <1>1 DEF IsMap, RenameInvites
<1> HIDE DEF G, I
<1>5. \A x \in DOMAIN G : SoundRecord(G[x])
  BY <1>3 DEF Sound
<1>6. \A a \in DOMAIN I : /\ I[a] \in [group : Groups, expires : Nat]
                           /\ I[a].group \in DOMAIN G
  BY <1>1, <1>3, <1>4 DEF Sound, Resolved, InvitesOK
<1>7. IsFiniteSet((DOMAIN groups \ {g}) \union {n})
  BY FS_RemoveElement, FS_AddElement DEF Sound
<1>8. Sound(G, I)
  BY <1>3, <1>4, <1>5, <1>6, <1>7 DEF Sound, Resolved, InvitesOK
<1> QED BY <1>8 DEF G, I, W

-----------------------------------------------------------------------------
(* Commit: a handler that commits sound tables preserves the invariant. *)

\* Drop keys may be taken away.
LEMMA FewerChallenges ==
  ASSUME NEW chals, ChallengesOK(chals), NEW S
  PROVE  ChallengesOK(Without(chals, S))
<1>1. IsMap(chals, Accounts \X Groups)
  BY DEF ChallengesOK
<1>2. /\ IsMap(Without(chals, S), Accounts \X Groups)
      /\ DOMAIN Without(chals, S) = DOMAIN chals \ S
      /\ \A x \in DOMAIN chals \ S : Without(chals, S)[x] = chals[x]
  BY <1>1, WithoutIsMap
<1> QED BY <1>2 DEF ChallengesOK

\* Committing sound tables is enough, saved or not.
LEMMA CommitKeeps ==
  ASSUME IInv, NEW gs, NEW invs, NEW chals,
         Sound(gs, invs), ChallengesOK(chals), Commit(gs, invs, chals)
  PROVE  IInv'
<1>1. /\ Sound(gs, LiveInvites(invs))
      /\ ChallengesOK(LiveChallenges(chals))
  BY FewerInvites, FewerChallenges DEF LiveInvites, LiveChallenges
<1>2. groups' = gs /\ up' = up /\ readonly' = readonly /\ now' = now
  BY DEF Commit
<1>3. CASE readonly
  BY <1>2, <1>3 DEF Commit, IInv
<1>4. CASE ~readonly
  BY <1>1, <1>2, <1>4 DEF Commit, IInv
<1> QED BY <1>3, <1>4

-----------------------------------------------------------------------------
(* Handlers *)

\* A handler that replaces one record by a sound one.
LEMMA CommitRecord ==
  ASSUME IInv, NEW g \in DOMAIN groups, NEW r, SoundRecord(r), NEW invs, Sound(groups, invs),
         Commit([groups EXCEPT ![g] = r], invs, challenges)
  PROVE  IInv'
<1>1. Sound([groups EXCEPT ![g] = r], invs)
  BY UpdateGroup
<1>2. ChallengesOK(challenges)
  BY DEF IInv
<1> QED BY <1>1, <1>2, CommitKeeps

\* REGISTER makes a group with a founder.
LEMMA RegisterGroupKeeps ==
  ASSUME IInv, NEW a \in Accounts, NEW g \in Groups, RegisterGroup(a, g)
  PROVE  IInv'
<1> DEFINE acc == Put(EmptyMap, a, All)
<1>1. IsMap(acc, Accounts) /\ DOMAIN acc = {a} /\ acc[a] = All
  BY DEF IsMap, Put, EmptyMap
<1> HIDE DEF acc
<1>2. NewGroup(a) = [flags |-> IF DefaultVHostAuto THEN {"VHOSTAUTO"} ELSE {},
                     joinflags |-> {}, access |-> acc, memos |-> <<>>]
  BY DEF NewGroup, acc
<1>3. SoundRecord(NewGroup(a))
  <2>1. IsFiniteSet({a})
    BY FS_Singleton
  <2>2. FitsLimit(<<>>)
    BY ConfigAssumption DEF FitsLimit
  <2> QED BY <1>1, <1>2, <2>1, <2>2, AllIsManaged DEF SoundRecord, GroupOK, Founders, GroupFlags
<1>4. Sound(Put(groups, g, NewGroup(a)), invites)
  BY <1>3, PutGroup DEF IInv
<1>5. Commit(Put(groups, g, NewGroup(a)), invites, challenges)
  BY DEF RegisterGroup
<1>6. ChallengesOK(challenges)
  BY DEF IInv
<1> QED BY <1>4, <1>5, <1>6, CommitKeeps

\* DROP without a key gives one out.
LEMMA RequestDropKeeps ==
  ASSUME IInv, NEW a \in Accounts, NEW g \in Groups, RequestDrop(a, g)
  PROVE  IInv'
<1> DEFINE c == <<a, g>>
           new == Put(challenges, c, now)
<1>1. IsMap(challenges, Accounts \X Groups) /\ c \in Accounts \X Groups /\ now \in Nat
  BY DEF IInv, ChallengesOK
<1> HIDE DEF c
<1>2. /\ IsMap(new, Accounts \X Groups) /\ DOMAIN new = DOMAIN challenges \union {c}
      /\ new[c] = now /\ \A x \in DOMAIN challenges : x # c => new[x] = challenges[x]
  BY <1>1 DEF IsMap, Put
<1>3. challenges' = new
  BY DEF RequestDrop, c
<1> HIDE DEF new
<1>4. ChallengesOK(challenges')
  BY <1>1, <1>2, <1>3 DEF IInv, ChallengesOK
<1> QED BY <1>4 DEF RequestDrop, IInv

\* What ConfirmDrop and ForceDrop have in common.
LEMMA ForgetKeeps ==
  ASSUME IInv, NEW g, NEW used, Forget(g, used)
  PROVE  IInv'
<1>1. Sound(Without(groups, {g}), Without(invites, InvitedTo(invites, g)))
  BY ForgetGroup DEF IInv
<1>2. ChallengesOK(Without(challenges, used))
  BY FewerChallenges DEF IInv
<1> QED BY <1>1, <1>2, CommitKeeps DEF Forget

\* DROP with an expired key forgets the key.
LEMMA RefuseDropKeeps ==
  ASSUME IInv, NEW a, NEW g, RefuseDrop(a, g)
  PROVE  IInv'
<1>1. ChallengesOK(challenges')
  BY FewerChallenges DEF RefuseDrop, IInv
<1> QED BY <1>1 DEF RefuseDrop, IInv

\* Forgetting an expired invitation leaves the tables sound.
LEMMA HeldInvitesSound ==
  ASSUME IInv, NEW a
  PROVE  Sound(groups, HeldInvites(a))
BY FewerInvites DEF HeldInvites, IInv

\* JOIN adds join flags to an entry and takes the invitation.
LEMMA JoinGroupKeeps ==
  ASSUME IInv, NEW a \in Accounts, NEW g \in Groups, JoinGroup(a, g)
  PROVE  IInv'
<1> DEFINE r == groups[g]
           S == JoinFlagsOf(r)
           invs == Without(HeldInvites(a), IF Invited(a, g) THEN {a} ELSE {})
<1>1. g \in DOMAIN groups /\ a \notin DOMAIN r.access /\ SoundRecord(r)
  BY DEF JoinGroup, IInv, Sound
<1>2. S \subseteq AccessFlags /\ Managed(S)
  BY <1>1, ConfigAssumption DEF JoinFlagsOf, SoundRecord, GroupOK
<1>3. Founders(r) # {a}
  BY <1>1 DEF Founders
<1>4. Sound(groups, invs)
  BY HeldInvitesSound, FewerInvites
<1>5. Commit([groups EXCEPT ![g] = [r EXCEPT !.access = Put(r.access, a, S)]], invs, challenges)
  BY DEF JoinGroup
<1> HIDE DEF S, invs
<1>6. SoundRecord([r EXCEPT !.access = Put(r.access, a, S)])
  BY <1>1, <1>2, <1>3, PutEntry
<1> QED BY <1>1, <1>4, <1>5, <1>6, CommitRecord

\* A JOIN that is refused may take an expired invitation.
LEMMA RefuseJoinKeeps ==
  ASSUME IInv, NEW a, NEW g, RefuseJoin(a, g)
  PROVE  IInv'
BY HeldInvitesSound DEF RefuseJoin, IInv

\* INVITE makes or renews the invitation of an account.
LEMMA InviteToGroupKeeps ==
  ASSUME IInv, NEW a, NEW g \in Groups, NEW t \in Accounts, InviteToGroup(a, g, t)
  PROVE  IInv'
<1> DEFINE inv == [group |-> g, expires |-> now + InviteTTL]
<1>1. inv \in [group : Groups, expires : Nat] /\ inv.group = g
  BY ConfigAssumption DEF IInv
<1>2. g \in DOMAIN groups /\ Commit(groups, Put(invites, t, inv), challenges)
  BY DEF InviteToGroup
<1> HIDE DEF inv
<1>3. Sound(groups, Put(invites, t, inv))
  BY <1>1, <1>2, PutInvite DEF IInv
<1>4. ChallengesOK(challenges)
  BY DEF IInv
<1> QED BY <1>2, <1>3, <1>4, CommitKeeps

\* The last founder cannot be the one who loses the flag.
LEMMA LastFounderStays ==
  ASSUME NEW r, NEW t, NEW updated, KeepsAFounder(r, GetAccessFor(r, t), updated),
         "FOUNDER" \notin updated
  PROVE  Founders(r) # {t}
<1> SUFFICES ASSUME Founders(r) = {t} PROVE FALSE
  OBVIOUS
<1>1. Cardinality({t}) = 1
  BY FS_Singleton
<1>2. "FOUNDER" \in GetAccessFor(r, t)
  BY DEF Founders, GetAccessFor
<1> QED BY <1>1, <1>2 DEF KeepsAFounder

\* FLAGS and FFLAGS change or remove one entry, never the last founder's.
LEMMA SetFlagsKeeps ==
  ASSUME IInv, NEW a, NEW g, NEW t \in Accounts, NEW changes, NEW force,
         SetFlags(a, g, t, changes, force)
  PROVE  IInv'
<1> DEFINE r == groups[g]
           cur == GetAccessFor(r, t)
           updated == ParseFlags(changes, TRUE, cur)
<1>1. g \in DOMAIN groups /\ SoundRecord(r)
  BY DEF SetFlags, IInv, Sound
<1>2. updated \subseteq AccessFlags /\ Managed(updated)
  BY ParsedIsManaged
<1>3. "FOUNDER" \in updated \/ Founders(r) # {t}
  BY LastFounderStays DEF SetFlags
<1>4. Sound(groups, invites)
  BY DEF IInv
<1>5. \/ /\ updated = {}
         /\ Commit([groups EXCEPT ![g] = [r EXCEPT !.access = Without(r.access, {t})]],
                   invites, challenges)
      \/ Commit([groups EXCEPT ![g] = [r EXCEPT !.access = Put(r.access, t, updated)]],
                invites, challenges)
  BY DEF SetFlags
<1> HIDE DEF updated
<1>6. SoundRecord([r EXCEPT !.access = Put(r.access, t, updated)])
  BY <1>1, <1>2, <1>3, PutEntry
<1>7. ASSUME updated = {} PROVE SoundRecord([r EXCEPT !.access = Without(r.access, {t})])
  BY <1>1, <1>3, <1>7, DropEntry
<1> QED BY <1>1, <1>4, <1>5, <1>6, <1>7, CommitRecord

\* SET rename.
LEMMA RenameGroupKeeps ==
  ASSUME IInv, NEW a, NEW g, NEW n \in Groups, RenameGroup(a, g, n)
  PROVE  IInv'
<1>1. Sound(Put(Without(groups, {g}), n, groups[g]), RenameInvites(g, n))
  BY RenameTables DEF RenameGroup, IInv
<1>2. ChallengesOK(Without(challenges, ChallengesNaming({g, n})))
  BY FewerChallenges DEF IInv
<1> QED BY <1>1, <1>2, CommitKeeps DEF RenameGroup

\* SET JOINFLAGS stores what ParseFlags returned.
LEMMA SetJoinFlagsKeeps ==
  ASSUME IInv, NEW a, NEW g, NEW value, SetJoinFlags(a, g, value)
  PROVE  IInv'
<1> DEFINE r == groups[g]
           parsed == ParseFlags(value, FALSE, {})
           fl == IF value = <<>> THEN {} ELSE IF parsed = {} THEN AllNoFounder ELSE parsed
<1>1. g \in DOMAIN groups /\ SoundRecord(r) /\ Sound(groups, invites)
  BY DEF SetJoinFlags, IInv, Sound
<1>2. fl \subseteq AccessFlags /\ Managed(fl)
  BY ParsedIsManaged, AllIsManaged
<1>3. Commit([groups EXCEPT ![g] = [r EXCEPT !.joinflags = fl]], invites, challenges)
  BY DEF SetJoinFlags
<1> HIDE DEF fl
<1>4. SoundRecord([r EXCEPT !.joinflags = fl])
  BY <1>1, <1>2, SetJoinFlagsField
<1> QED BY <1>1, <1>3, <1>4, CommitRecord

\* Switching an option of a group.
LEMMA WithFlagSound ==
  ASSUME NEW r, SoundRecord(r), NEW option \in GroupFlags, NEW on
  PROVE  SoundRecord(WithFlag(r, option, on))
<1> DEFINE S == IF on THEN r.flags \union {option} ELSE r.flags \ {option}
<1>1. S \subseteq GroupFlags
  BY DEF SoundRecord, GroupOK
<1> HIDE DEF S
<1>2. SoundRecord([r EXCEPT !.flags = S])
  BY <1>1, SetFlagsField
<1> QED BY <1>2 DEF WithFlag, S

\* SET OPEN, PUBLIC, VHOSTAUTO and the ACSNOLIMIT and REGNOLIMIT commands.
LEMMA ToggleKeeps ==
  ASSUME IInv, NEW a, NEW g, NEW option \in GroupFlags, NEW on,
         SetOption(a, g, option, on) \/ SetGroupFlag(a, g, option, on)
  PROVE  IInv'
<1>1. g \in DOMAIN groups /\ SoundRecord(groups[g]) /\ Sound(groups, invites)
  BY DEF SetOption, SetGroupFlag, IInv, Sound
<1>2. Commit([groups EXCEPT ![g] = WithFlag(groups[g], option, on)], invites, challenges)
  BY DEF SetOption, SetGroupFlag
<1>3. SoundRecord(WithFlag(groups[g], option, on))
  BY <1>1, WithFlagSound
<1> QED BY <1>1, <1>2, <1>3, CommitRecord

\* SET of a text field and the save timer commit the tables as they are.
LEMMA SaveKeeps ==
  ASSUME IInv, Commit(groups, invites, challenges)
  PROVE  IInv'
<1>1. Sound(groups, invites) /\ ChallengesOK(challenges)
  BY DEF IInv
<1> QED BY <1>1, CommitKeeps

-----------------------------------------------------------------------------
(* Memos *)

\* Clamping drops memos over the limit only.
LEMMA ClampMemosType ==
  ASSUME NEW s \in Seq(Accounts)
  PROVE  /\ ClampMemos(s) \in Seq(Accounts) /\ FitsLimit(ClampMemos(s))
         /\ FitsLimit(s) => ClampMemos(s) = s
<1>1. CASE FitsLimit(s)
  BY <1>1 DEF ClampMemos, FitsLimit
<1>2. CASE ~FitsLimit(s)
  <2> DEFINE m == Len(s) - MaxGroupMemos + 1
  <2>1. MaxGroupMemos \in Nat /\ Len(s) \in Nat
    BY ConfigAssumption
  <2>2. m \in 1..Len(s) + 1 /\ Len(s) \in m-1..Len(s) /\ Len(s) - m + 1 = MaxGroupMemos
    BY <1>2, <2>1 DEF FitsLimit
  <2> HIDE DEF m
  <2>3. SubSeq(s, m, Len(s)) \in Seq(Accounts) /\ Len(SubSeq(s, m, Len(s))) = Len(s) - m + 1
    BY <2>1, <2>2
  <2>4. ClampMemos(s) = SubSeq(s, m, Len(s))
    BY <1>2 DEF ClampMemos, FitsLimit, m
  <2> QED BY <1>2, <2>1, <2>2, <2>3, <2>4 DEF FitsLimit
<1> QED BY <1>1, <1>2

\* A memo list with one memo less.
LEMMA RemoveAtType ==
  ASSUME NEW s \in Seq(Accounts), NEW i \in 1..Len(s)
  PROVE  RemoveAt(s, i) \in Seq(Accounts) /\ (FitsLimit(s) => FitsLimit(RemoveAt(s, i)))
<1>1. RemoveAt(s, i) \in Seq(Accounts) /\ Len(RemoveAt(s, i)) = Len(s) - 1
  <2> DEFINE before == SubSeq(s, 1, i - 1)
             after  == SubSeq(s, i + 1, Len(s))
  <2>1. /\ before \in Seq(Accounts) /\ Len(before) = i - 1
        /\ after \in Seq(Accounts) /\ Len(after) = Len(s) - i
    OBVIOUS
  <2> HIDE DEF before, after
  <2>2. before \o after \in Seq(Accounts) /\ Len(before \o after) = Len(s) - 1
    BY <2>1
  <2> QED BY <2>2 DEF RemoveAt, before, after
<1> QED BY <1>1, ConfigAssumption DEF FitsLimit

\* GSEND adds a memo where there is room.
LEMMA SendMemoKeeps ==
  ASSUME IInv, NEW a \in Accounts, NEW g, SendMemo(a, g)
  PROVE  IInv'
<1> DEFINE r == groups[g]
           memos == ClampMemos(Append(r.memos, a))
<1>1. g \in DOMAIN groups /\ SoundRecord(r) /\ Sound(groups, invites)
  BY DEF SendMemo, IInv, Sound
<1>2. Append(r.memos, a) \in Seq(Accounts)
  BY <1>1 DEF SoundRecord, GroupOK
<1>3. memos \in Seq(Accounts) /\ FitsLimit(memos)
  BY <1>2, ClampMemosType
<1>4. Commit([groups EXCEPT ![g] = [r EXCEPT !.memos = memos]], invites, challenges)
  BY DEF SendMemo
<1> HIDE DEF memos
<1>5. SoundRecord([r EXCEPT !.memos = memos])
  BY <1>1, <1>3, SetMemosField
<1> QED BY <1>1, <1>4, <1>5, CommitRecord

\* GDEL deletes one.
LEMMA DelMemoKeeps ==
  ASSUME IInv, NEW a, NEW g, NEW i, DelMemo(a, g, i)
  PROVE  IInv'
<1> DEFINE r == groups[g]
           memos == RemoveAt(r.memos, i)
<1>1. g \in DOMAIN groups /\ SoundRecord(r) /\ Sound(groups, invites)
  BY DEF DelMemo, IInv, Sound
<1>2. r.memos \in Seq(Accounts) /\ i \in 1..Len(r.memos) /\ FitsLimit(r.memos)
  BY <1>1 DEF SoundRecord, GroupOK, DelMemo
<1>3. memos \in Seq(Accounts) /\ FitsLimit(memos)
  BY <1>2, RemoveAtType
<1>4. Commit([groups EXCEPT ![g] = [r EXCEPT !.memos = memos]], invites, challenges)
  BY DEF DelMemo
<1> HIDE DEF memos
<1>5. SoundRecord([r EXCEPT !.memos = memos])
  BY <1>1, <1>3, SetMemosField
<1> QED BY <1>1, <1>4, <1>5, CommitRecord

-----------------------------------------------------------------------------
(* Restarts *)

\* Empty tables are sound.
LEMMA EmptyTables ==
  /\ Sound(EmptyMap, EmptyMap)
  /\ ChallengesOK(EmptyMap)
BY FS_EmptySet DEF Sound, IsMap, EmptyMap, InvitesOK, Resolved, ChallengesOK

\* A sound group is sound as LoadDB rebuilds it.
LEMMA LoadedGroupSound ==
  ASSUME NEW r, SoundRecord(r)
  PROVE  SoundRecord(LoadedGroup(r))
<1> DEFINE fl == ParseFlags(<<Plus(r.joinflags)>>, FALSE, {})
           memos == IF DOMAIN r.access = {} THEN <<>> ELSE ClampMemos(r.memos)
           mid == [r EXCEPT !.joinflags = fl]
<1>1. fl \subseteq AccessFlags /\ Managed(fl)
  BY ParsedIsManaged
<1>2. r.memos \in Seq(Accounts)
  BY DEF SoundRecord, GroupOK
<1>3. memos \in Seq(Accounts) /\ FitsLimit(memos)
  BY <1>2, ClampMemosType, ConfigAssumption DEF FitsLimit
<1>4. LoadedGroup(r) = [mid EXCEPT !.memos = memos]
  BY DEF LoadedGroup
<1> HIDE DEF fl, memos
<1>5. SoundRecord(mid)
  BY <1>1, SetJoinFlagsField
<1> HIDE DEF mid
<1>6. SoundRecord([mid EXCEPT !.memos = memos])
  BY <1>3, <1>5, SetMemosField
<1> QED BY <1>4, <1>6

\* What is read from a sound file is sound.
LEMMA LoadKeeps ==
  ASSUME IInv, Load
  PROVE  IInv'
<1> DEFINE gs == [g \in DOMAIN disk.groups |-> LoadedGroup(disk.groups[g])]
<1>1. Sound(disk.groups, disk.invites)
  BY DEF IInv
<1>2. \A g \in DOMAIN disk.groups : SoundRecord(LoadedGroup(disk.groups[g]))
  BY <1>1, LoadedGroupSound DEF Sound
<1>3. Sound(gs, disk.invites)
  BY <1>1, <1>2 DEF Sound, IsMap, Resolved
<1> HIDE DEF gs
<1>4. Sound(gs, LiveInvites(disk.invites))
  BY <1>3, FewerInvites DEF LiveInvites
<1>5. /\ groups' = gs /\ invites' = LiveInvites(disk.invites) /\ challenges' = EmptyMap
      /\ up' = TRUE /\ readonly' \in BOOLEAN /\ disk' = disk /\ now' = now
  BY ConfigAssumption DEF Load, LoadDB, gs
<1> QED BY <1>1, <1>4, <1>5, EmptyTables DEF IInv

\* What Unload and Crash have in common.
LEMMA ForgetMemoryKeeps ==
  ASSUME IInv, ForgetMemory, now' = now,
         disk' = disk \/ disk' = [groups |-> groups, invites |-> LiveInvites(invites)]
  PROVE  IInv'
<1>1. Sound(groups, LiveInvites(invites))
  BY FewerInvites DEF IInv, LiveInvites
<1>2. Sound(disk'.groups, disk'.invites) /\ disk' \in [groups : {disk'.groups}, invites : {disk'.invites}]
  BY <1>1 DEF IInv
<1> QED BY <1>2, EmptyTables DEF ForgetMemory, IInv

\* The save timer, the clock, read-only mode, unloads, crashes and loads.
LEMMA EnvironmentKeeps ==
  ASSUME IInv, Environment
  PROVE  IInv'
<1>1. CASE SaveTimer
  BY <1>1, SaveKeeps DEF SaveTimer
<1>2. CASE Tick
  BY <1>2 DEF Tick, IInv
<1>3. CASE SetReadOnly
  BY <1>3, ConfigAssumption DEF SetReadOnly, IInv
<1>4. CASE Unload
  BY <1>4, ForgetMemoryKeeps DEF Unload
<1>5. CASE Crash
  BY <1>5, ForgetMemoryKeeps DEF Crash
<1>6. CASE Load
  BY <1>6, LoadKeeps
<1> QED BY <1>1, <1>2, <1>3, <1>4, <1>5, <1>6 DEF Environment

\* Every command.
LEMMA CommandKeeps ==
  ASSUME IInv, NEW a \in Accounts, Command(a)
  PROVE  IInv'
<1> PICK g \in Groups :
      \/ RegisterGroup(a, g)
      \/ RequestDrop(a, g) \/ ConfirmDrop(a, g) \/ RefuseDrop(a, g) \/ ForceDrop(a, g)
      \/ JoinGroup(a, g) \/ RefuseJoin(a, g)
      \/ \E t \in Accounts : InviteToGroup(a, g, t)
      \/ \E t \in Accounts, changes \in FlagChanges, force \in BOOLEAN :
            SetFlags(a, g, t, changes, force)
      \/ \E n \in Groups : RenameGroup(a, g, n)
      \/ \E value \in JoinFlagValues : SetJoinFlags(a, g, value)
      \/ \E option \in Options, on \in BOOLEAN :
            SetOption(a, g, option, on) \/ SetGroupFlag(a, g, option, on)
      \/ SetText(a, g)
      \/ SendMemo(a, g)
      \/ \E i \in 1..(MaxGroupMemos + MaxMemos) : DelMemo(a, g, i)
  BY DEF Command
<1>1. CASE RegisterGroup(a, g)
  BY <1>1, RegisterGroupKeeps
<1>2. CASE RequestDrop(a, g)
  BY <1>2, RequestDropKeeps
<1>3. CASE ConfirmDrop(a, g) \/ ForceDrop(a, g)
  BY <1>3, ForgetKeeps DEF ConfirmDrop, ForceDrop
<1>4. CASE RefuseDrop(a, g)
  BY <1>4, RefuseDropKeeps
<1>5. CASE JoinGroup(a, g)
  BY <1>5, JoinGroupKeeps
<1>6. CASE RefuseJoin(a, g)
  BY <1>6, RefuseJoinKeeps
<1>7. CASE \E t \in Accounts : InviteToGroup(a, g, t)
  BY <1>7, InviteToGroupKeeps
<1>8. CASE \E t \in Accounts, changes \in FlagChanges, force \in BOOLEAN :
             SetFlags(a, g, t, changes, force)
  BY <1>8, SetFlagsKeeps
<1>9. CASE \E n \in Groups : RenameGroup(a, g, n)
  BY <1>9, RenameGroupKeeps
<1>10. CASE \E value \in JoinFlagValues : SetJoinFlags(a, g, value)
  BY <1>10, SetJoinFlagsKeeps
<1>11. CASE \E option \in Options, on \in BOOLEAN :
              SetOption(a, g, option, on) \/ SetGroupFlag(a, g, option, on)
  BY <1>11, ToggleKeeps, ConfigAssumption
<1>12. CASE SetText(a, g)
  BY <1>12, SaveKeeps DEF SetText
<1>13. CASE SendMemo(a, g)
  BY <1>13, SendMemoKeeps
<1>14. CASE \E i \in 1..(MaxGroupMemos + MaxMemos) : DelMemo(a, g, i)
  BY <1>14, DelMemoKeeps
<1> QED BY <1>1, <1>2, <1>3, <1>4, <1>5, <1>6, <1>7, <1>8, <1>9, <1>10, <1>11, <1>12,
           <1>13, <1>14

-----------------------------------------------------------------------------
(* Theorems *)

\* The tables in memory and on disk are sound in every reachable state, whatever
\* commands, restarts, crashes and read-only phases led there.
THEOREM Invariance == Spec => []IInv
<1>1. Init => IInv
  <2> SUFFICES ASSUME Init PROVE IInv
    OBVIOUS
  <2>1. /\ groups = EmptyMap /\ invites = EmptyMap /\ challenges = EmptyMap
        /\ disk = [groups |-> EmptyMap, invites |-> EmptyMap]
        /\ up = TRUE /\ readonly = FALSE /\ now = 1
    BY DEF Init
  <2>2. disk.groups = EmptyMap /\ disk.invites = EmptyMap
    BY <2>1
  <2>3. disk \in [groups : {disk.groups}, invites : {disk.invites}]
    BY <2>1, <2>2
  <2>4. Sound(groups, invites) /\ ChallengesOK(challenges) /\ Sound(disk.groups, disk.invites)
    BY <2>1, <2>2, EmptyTables
  <2> QED BY <2>1, <2>3, <2>4 DEF IInv
<1>2. IInv /\ [Next]_vars => IInv'
  <2> SUFFICES ASSUME IInv, [Next]_vars PROVE IInv'
    OBVIOUS
  <2>1. ASSUME NEW a \in Accounts, Command(a) PROVE IInv'
    BY <2>1, CommandKeeps
  <2>2. CASE Environment
    BY <2>2, EnvironmentKeeps
  <2>3. CASE UNCHANGED vars
    BY <2>3 DEF vars, IInv
  <2> QED BY <2>1, <2>2, <2>3 DEF Next
<1> QED BY <1>1, <1>2, PTL DEF Spec

\* Every table keeps its type: access lists, invitations, drop keys, memos, the file.
THEOREM TypeCorrect == Spec => []TypeOK
<1>1. IInv => TypeOK
  BY DEF IInv, Sound, SoundRecord, TypeOK, GroupsOK
<1> QED BY <1>1, Invariance, PTL

\* No sequence of FLAGS, FFLAGS, JOIN, SET, DROP and restarts leaves a group without
\* a founder (SetFlags, "Prevent removing last founder").
THEOREM FounderRemains == Spec => []EveryGroupHasFounder
<1>1. IInv => EveryGroupHasFounder
  BY DEF IInv, Sound, SoundRecord, EveryGroupHasFounder, Founded
<1> QED BY <1>1, Invariance, PTL

\* Founder implies management powers in every table (ParseFlags).
THEOREM ManagedFounders == Spec => []FoundersAreManagers
<1>1. IInv => FoundersAreManagers
  BY DEF IInv, Sound, SoundRecord, FoundersAreManagers, WellManaged
<1> QED BY <1>1, Invariance, PTL

\* A pending invitation names a registered group, in memory and on disk (DropGroup,
\* SET GROUPNAME, LoadDB).
THEOREM InvitesResolve == Spec => []InvitesNameGroups
<1>1. IInv => InvitesNameGroups
  BY DEF IInv, Sound, InvitesNameGroups
<1> QED BY <1>1, Invariance, PTL

-----------------------------------------------------------------------------
(* Durability *)

Durable == ~readonly /\ groups' # groups => disk'.groups = groups'

\* Outside read-only mode a commit writes the tables it installs.
LEMMA CommitIsDurable ==
  ASSUME NEW gs, NEW invs, NEW chals, Commit(gs, invs, chals)
  PROVE  Durable
BY DEF Commit, Durable

\* Every command ends in a commit or changes no table.
LEMMA CommandIsDurable ==
  ASSUME NEW a, Command(a)
  PROVE  Durable
<1> PICK g \in Groups : Command(a)!(g)
  BY DEF Command
<1>1. CASE RequestDrop(a, g) \/ RefuseDrop(a, g) \/ RefuseJoin(a, g)
  BY <1>1 DEF RequestDrop, RefuseDrop, RefuseJoin, Durable
<1>2. CASE RegisterGroup(a, g)
  BY <1>2, CommitIsDurable DEF RegisterGroup
<1>3. CASE ConfirmDrop(a, g) \/ ForceDrop(a, g)
  BY <1>3, CommitIsDurable DEF ConfirmDrop, ForceDrop, Forget
<1>4. CASE JoinGroup(a, g)
  BY <1>4, CommitIsDurable DEF JoinGroup
<1>5. CASE \E t \in Accounts : InviteToGroup(a, g, t)
  BY <1>5, CommitIsDurable DEF InviteToGroup
<1>6. CASE \E t \in Accounts, changes \in FlagChanges, force \in BOOLEAN :
             SetFlags(a, g, t, changes, force)
  BY <1>6, CommitIsDurable DEF SetFlags
<1>7. CASE \E n \in Groups : RenameGroup(a, g, n)
  BY <1>7, CommitIsDurable DEF RenameGroup
<1>8. CASE \E value \in JoinFlagValues : SetJoinFlags(a, g, value)
  BY <1>8, CommitIsDurable DEF SetJoinFlags
<1>9. CASE \E option \in Options, on \in BOOLEAN :
             SetOption(a, g, option, on) \/ SetGroupFlag(a, g, option, on)
  BY <1>9, CommitIsDurable DEF SetOption, SetGroupFlag
<1>10. CASE SetText(a, g) \/ SendMemo(a, g)
  BY <1>10, CommitIsDurable DEF SetText, SendMemo
<1>11. CASE \E i \in 1..(MaxGroupMemos + MaxMemos) : DelMemo(a, g, i)
  BY <1>11, CommitIsDurable DEF DelMemo
<1> QED BY <1>1, <1>2, <1>3, <1>4, <1>5, <1>6, <1>7, <1>8, <1>9, <1>10, <1>11

\* Whatever the handler, a change it acknowledges outside read-only mode is in the
\* file before the next step, so a crash loses nothing acknowledged (SaveDB).
THEOREM Durability == Spec => AcknowledgedIsDurable
<1>1. [Next]_vars => [up /\ up' /\ ~readonly /\ groups' # groups => disk'.groups = groups']_vars
  <2> SUFFICES ASSUME Next, up, up' PROVE Durable
    BY DEF Durable, vars
  <2>1. ASSUME NEW a \in Accounts, Command(a) PROVE Durable
    BY <2>1, CommandIsDurable
  <2>2. CASE SaveTimer
    BY <2>2, CommitIsDurable DEF SaveTimer
  <2>3. CASE Tick \/ SetReadOnly
    BY <2>3 DEF Tick, SetReadOnly, Durable
  <2>4. CASE Unload \/ Crash \/ Load
    BY <2>4 DEF Unload, Crash, ForgetMemory, Load
  <2> QED BY <2>1, <2>2, <2>3, <2>4 DEF Next, Environment
<1> QED BY <1>1, PTL DEF Spec, AcknowledgedIsDurable

-----------------------------------------------------------------------------
(* Restarts, again *)

\* Join flags are written as letters; parsing the letters gives the flags back.
LEMMA LettersParseBack ==
  ASSUME NEW f \in SUBSET AccessFlags, Managed(f)
  PROVE  ParseFlags(<<Plus(f)>>, FALSE, {}) = f
<1> DEFINE tokens == <<Plus(f)>>
<1>1. Len(tokens) = 1 /\ tokens[1].dir = "+" /\ Mentions(tokens[1]) = f
  BY DEF Plus, Mentions
<1> HIDE DEF tokens
<1>2. LastWord(tokens, Len(tokens), FALSE, {}) = f
  BY <1>1 DEF LastWord
<1>3. ImpliedBy(f) = f
  BY DEF ImpliedBy, Managed
<1> QED BY <1>2, <1>3 DEF ParseFlags, tokens

\* Saving and loading a sound group changes nothing in it.
LEMMA LoadedIsSaved ==
  ASSUME NEW r, SoundRecord(r)
  PROVE  LoadedGroup(r) = r
<1>1. ParseFlags(<<Plus(r.joinflags)>>, FALSE, {}) = r.joinflags
  BY LettersParseBack DEF SoundRecord, GroupOK
<1>2. DOMAIN r.access # {}
  BY DEF SoundRecord, Founders
<1>3. ClampMemos(r.memos) = r.memos
  BY ClampMemosType DEF SoundRecord, GroupOK
<1>4. LoadedGroup(r) = [r EXCEPT !.joinflags = r.joinflags, !.memos = r.memos]
  BY <1>1, <1>2, <1>3 DEF LoadedGroup
<1> QED BY <1>4 DEF SoundRecord, GroupOK

\* No command is answered while the module is not loaded.
LEMMA CommandsNeedTheModule ==
  ASSUME NEW a, Command(a)
  PROVE  up /\ up' = up
<1> PICK g \in Groups : Command(a)!(g)
  BY DEF Command
<1>1. CASE RequestDrop(a, g) \/ RefuseDrop(a, g) \/ RefuseJoin(a, g)
  BY <1>1 DEF RequestDrop, RefuseDrop, RefuseJoin
<1>2. CASE RegisterGroup(a, g) \/ ConfirmDrop(a, g) \/ ForceDrop(a, g) \/ JoinGroup(a, g)
  BY <1>2 DEF RegisterGroup, ConfirmDrop, ForceDrop, Forget, JoinGroup, Commit
<1>3. CASE \E t \in Accounts : InviteToGroup(a, g, t)
  BY <1>3 DEF InviteToGroup, Commit
<1>4. CASE \E t \in Accounts, changes \in FlagChanges, force \in BOOLEAN :
             SetFlags(a, g, t, changes, force)
  BY <1>4 DEF SetFlags, Commit
<1>5. CASE \E n \in Groups : RenameGroup(a, g, n)
  BY <1>5 DEF RenameGroup, Commit
<1>6. CASE \E value \in JoinFlagValues : SetJoinFlags(a, g, value)
  BY <1>6 DEF SetJoinFlags, Commit
<1>7. CASE \E option \in Options, on \in BOOLEAN :
             SetOption(a, g, option, on) \/ SetGroupFlag(a, g, option, on)
  BY <1>7 DEF SetOption, SetGroupFlag, Commit
<1>8. CASE SetText(a, g) \/ SendMemo(a, g)
  BY <1>8 DEF SetText, SendMemo, Commit
<1>9. CASE \E i \in 1..(MaxGroupMemos + MaxMemos) : DelMemo(a, g, i)
  BY <1>9 DEF DelMemo, Commit
<1> QED BY <1>1, <1>2, <1>3, <1>4, <1>5, <1>6, <1>7, <1>8, <1>9

\* A restart brings back exactly the groups of the file: what LoadDB parses, skips and
\* clamps is never anything (SaveDB, LoadDB, ParseFlags).
THEOREM RestartKeepsGroups == Spec => RestartRestoresDisk
<1>1. IInv /\ [Next]_vars => [~up /\ up' => groups' = disk.groups]_vars
  <2> SUFFICES ASSUME IInv, Next, ~up, up' PROVE groups' = disk.groups
    OBVIOUS
  <2>1. Load
    BY CommandsNeedTheModule DEF Next, Environment, SaveTimer, Tick, SetReadOnly, Unload, Crash
  <2>2. /\ IsMap(disk.groups, Groups)
        /\ \A g \in DOMAIN disk.groups : LoadedGroup(disk.groups[g]) = disk.groups[g]
    BY LoadedIsSaved DEF IInv, Sound
  <2>3. groups' = [g \in DOMAIN disk.groups |-> disk.groups[g]]
    BY <2>1, <2>2 DEF Load, LoadDB
  <2> QED BY <2>2, <2>3 DEF IsMap
<1> QED BY <1>1, Invariance, PTL DEF Spec, RestartRestoresDisk

-----------------------------------------------------------------------------
(* Drops *)

\* What ConfirmDrop and ForceDrop take away.
LEMMA ForgetTakes ==
  ASSUME NEW g, NEW used, Forget(g, used)
  PROVE  /\ DOMAIN groups' = DOMAIN groups \ {g}
         /\ DOMAIN challenges' \subseteq DOMAIN challenges \ used
BY DEF Forget, Commit, Without, LiveChallenges

\* Other commands leave as many groups as there were, or one more.
LEMMA OthersDropNothing ==
  ASSUME IInv, NEW a, NEW g, Command(a)!(g), ~ConfirmDrop(a, g), ~ForceDrop(a, g)
  PROVE  Cardinality(DOMAIN groups') >= Cardinality(DOMAIN groups)
<1>1. IsFiniteSet(DOMAIN groups) /\ Cardinality(DOMAIN groups) \in Nat
  BY FS_CardinalityType DEF IInv, Sound
<1>2. CASE DOMAIN groups' = DOMAIN groups
  BY <1>1, <1>2
<1>3. CASE RegisterGroup(a, g)
  <2>1. DOMAIN groups' = DOMAIN groups \union {g}
    BY <1>3 DEF RegisterGroup, Commit, Put
  <2> QED BY <1>1, <2>1, FS_AddElement
<1>4. ASSUME NEW n \in Groups, RenameGroup(a, g, n)
      PROVE  Cardinality(DOMAIN groups') = Cardinality(DOMAIN groups)
  <2>1. DOMAIN groups' = (DOMAIN groups \ {g}) \union {n} /\ g \in DOMAIN groups /\ n \notin DOMAIN groups
    BY <1>4 DEF RenameGroup, Commit, Put, Without
  <2> DEFINE rest == DOMAIN groups \ {g}
  <2>2. IsFiniteSet(rest) /\ Cardinality(rest) = Cardinality(DOMAIN groups) - 1
    BY <1>1, <2>1, FS_RemoveElement
  <2>3. n \notin rest
    BY <2>1
  <2> HIDE DEF rest
  <2>4. Cardinality(rest \union {n}) = Cardinality(rest) + 1
    BY <2>2, <2>3, FS_AddElement
  <2> QED BY <1>1, <2>1, <2>2, <2>4 DEF rest
<1>5. CASE RequestDrop(a, g) \/ RefuseDrop(a, g) \/ RefuseJoin(a, g)
  BY <1>2, <1>5 DEF RequestDrop, RefuseDrop, RefuseJoin
<1>6. CASE JoinGroup(a, g)
  BY <1>2, <1>6 DEF JoinGroup, Commit
<1>7. CASE \E t \in Accounts : InviteToGroup(a, g, t)
  BY <1>2, <1>7 DEF InviteToGroup, Commit
<1>8. CASE \E t \in Accounts, changes \in FlagChanges, force \in BOOLEAN :
             SetFlags(a, g, t, changes, force)
  BY <1>2, <1>8 DEF SetFlags, Commit
<1>9. CASE \E value \in JoinFlagValues : SetJoinFlags(a, g, value)
  BY <1>2, <1>9 DEF SetJoinFlags, Commit
<1>10. CASE \E option \in Options, on \in BOOLEAN :
              SetOption(a, g, option, on) \/ SetGroupFlag(a, g, option, on)
  BY <1>2, <1>10 DEF SetOption, SetGroupFlag, Commit
<1>11. CASE SetText(a, g) \/ SendMemo(a, g)
  BY <1>2, <1>11 DEF SetText, SendMemo, Commit
<1>12. CASE \E i \in 1..(MaxGroupMemos + MaxMemos) : DelMemo(a, g, i)
  BY <1>2, <1>12 DEF DelMemo, Commit
<1> QED BY <1>1, <1>3, <1>4, <1>5, <1>6, <1>7, <1>8, <1>9, <1>10, <1>11, <1>12

\* Only an admin, or a founder with a key handed out at most droptimeout ago, makes a
\* group disappear, and the key is spent (DropGroup).
THEOREM DropsAreConfirmed == Spec => DropIsConfirmed
<1> DEFINE Confirmed ==
      \E a \in Accounts, g \in DOMAIN groups \ DOMAIN groups' :
        \/ IsAdmin(a)
        \/ /\ a \in Founders(groups[g])
           /\ <<a, g>> \in DOMAIN challenges \ DOMAIN challenges'
           /\ ~ChallengeExpired(challenges[<<a, g>>])
<1>1. IInv /\ [Next]_vars
      => [up /\ up' /\ Cardinality(DOMAIN groups') < Cardinality(DOMAIN groups) => Confirmed]_vars
  <2> SUFFICES ASSUME IInv, Next, up, up', Cardinality(DOMAIN groups') < Cardinality(DOMAIN groups)
               PROVE  Confirmed
    OBVIOUS
  <2>1. Cardinality(DOMAIN groups) \in Nat
    BY FS_CardinalityType DEF IInv, Sound
  <2>2. PICK a \in Accounts : Command(a)
    <3>1. CASE SaveTimer \/ Tick \/ SetReadOnly
      BY <2>1, <3>1 DEF SaveTimer, Commit, Tick, SetReadOnly
    <3>2. CASE Unload \/ Crash \/ Load
      BY <3>2 DEF Unload, Crash, Load, ForgetMemory
    <3> QED BY <3>1, <3>2 DEF Next, Environment
  <2>3. PICK g \in Groups : Command(a)!(g)
    BY <2>2 DEF Command
  <2>4. CASE ConfirmDrop(a, g)
    <3>1. /\ g \in DOMAIN groups /\ HasAccess(groups[g], a, "FOUNDER")
          /\ <<a, g>> \in DOMAIN challenges /\ ~ChallengeExpired(challenges[<<a, g>>])
          /\ Forget(g, {<<a, g>>})
      BY <2>4 DEF ConfirmDrop
    <3>2. a \in Founders(groups[g])
      BY <3>1 DEF HasAccess, GetAccessFor, Founders
    <3> QED BY <3>1, <3>2, ForgetTakes
  <2>5. CASE ForceDrop(a, g)
    BY <2>5, ForgetTakes DEF ForceDrop
  <2>6. CASE ~ConfirmDrop(a, g) /\ ~ForceDrop(a, g)
    <3>1. Cardinality(DOMAIN groups') >= Cardinality(DOMAIN groups)
      BY <2>3, <2>6, OthersDropNothing
    <3>2. Cardinality(DOMAIN groups') \in Nat
      BY <2>2, CommandKeeps, FS_CardinalityType DEF IInv, Sound
    <3> QED BY <2>1, <3>1, <3>2
  <2> QED BY <2>4, <2>5, <2>6
<1> QED BY <1>1, Invariance, PTL DEF Spec, DropIsConfirmed

-----------------------------------------------------------------------------
(* What a command does to the group it names, and to the others *)

SameAccess(g) == groups'[g].access = groups[g].access
SameMemos(g)  == groups'[g].memos = groups[g].memos

\* Updates of one field leave the others.
LEMMA FieldUpdates ==
  ASSUME NEW r, SoundRecord(r), NEW x
  PROVE  /\ [r EXCEPT !.access = x].access = x /\ [r EXCEPT !.access = x].memos = r.memos
         /\ [r EXCEPT !.memos = x].access = r.access /\ [r EXCEPT !.memos = x].memos = x
         /\ [r EXCEPT !.joinflags = x].access = r.access /\ [r EXCEPT !.joinflags = x].memos = r.memos
         /\ [r EXCEPT !.flags = x].access = r.access /\ [r EXCEPT !.flags = x].memos = r.memos
BY DEF SoundRecord, GroupOK

\* A command about one group leaves the others alone.
LEMMA OtherGroupsStay ==
  ASSUME NEW a, NEW h, Command(a)!(h), NEW g \in DOMAIN groups \intersect DOMAIN groups', g # h
  PROVE  groups'[g] = groups[g]
<1>1. CASE RequestDrop(a, h) \/ RefuseDrop(a, h) \/ RefuseJoin(a, h)
  BY <1>1 DEF RequestDrop, RefuseDrop, RefuseJoin
<1>2. CASE RegisterGroup(a, h)
  BY <1>2 DEF RegisterGroup, Commit, Put
<1>3. CASE ConfirmDrop(a, h) \/ ForceDrop(a, h)
  BY <1>3 DEF ConfirmDrop, ForceDrop, Forget, Commit, Without
<1>4. CASE JoinGroup(a, h)
  BY <1>4 DEF JoinGroup, Commit
<1>5. CASE \E t \in Accounts : InviteToGroup(a, h, t)
  BY <1>5 DEF InviteToGroup, Commit
<1>6. CASE \E t \in Accounts, changes \in FlagChanges, force \in BOOLEAN :
             SetFlags(a, h, t, changes, force)
  BY <1>6 DEF SetFlags, Commit
<1>7. CASE \E n \in Groups : RenameGroup(a, h, n)
  BY <1>7 DEF RenameGroup, Commit, Put, Without
<1>8. CASE \E value \in JoinFlagValues : SetJoinFlags(a, h, value)
  BY <1>8 DEF SetJoinFlags, Commit
<1>9. CASE \E option \in Options, on \in BOOLEAN :
             SetOption(a, h, option, on) \/ SetGroupFlag(a, h, option, on)
  BY <1>9 DEF SetOption, SetGroupFlag, Commit
<1>10. CASE SetText(a, h) \/ SendMemo(a, h)
  BY <1>10 DEF SetText, SendMemo, Commit
<1>11. CASE \E i \in 1..(MaxGroupMemos + MaxMemos) : DelMemo(a, h, i)
  BY <1>11 DEF DelMemo, Commit
<1> QED BY <1>1, <1>2, <1>3, <1>4, <1>5, <1>6, <1>7, <1>8, <1>9, <1>10, <1>11

\* Only JOIN, FLAGS and FFLAGS touch the access list, only the memo commands the memos.
LEMMA NamedGroup ==
  ASSUME IInv, NEW a, NEW g \in DOMAIN groups \intersect DOMAIN groups', Command(a)!(g)
  PROVE  /\ \/ SameAccess(g) \/ JoinGroup(a, g)
            \/ \E t \in Accounts, changes \in FlagChanges, force \in BOOLEAN :
                  SetFlags(a, g, t, changes, force)
         /\ SameMemos(g) \/ SendMemo(a, g) \/ \E i \in Nat : DelMemo(a, g, i)
<1>1. SoundRecord(groups[g])
  BY DEF IInv, Sound
<1>2. CASE groups' = groups
  BY <1>2 DEF SameAccess, SameMemos
<1>3. CASE RequestDrop(a, g) \/ RefuseDrop(a, g) \/ RefuseJoin(a, g) \/ SetText(a, g)
           \/ \E t \in Accounts : InviteToGroup(a, g, t)
  BY <1>2, <1>3 DEF RequestDrop, RefuseDrop, RefuseJoin, SetText, InviteToGroup, Commit
<1>4. ~RegisterGroup(a, g) /\ ~ConfirmDrop(a, g) /\ ~ForceDrop(a, g)
  BY DEF RegisterGroup, ConfirmDrop, ForceDrop, Forget, Commit, Without
<1>5. \A n \in Groups : ~RenameGroup(a, g, n)
  BY DEF RenameGroup, Commit, Put, Without
<1>6. CASE JoinGroup(a, g)
  <2>1. groups'[g] = [groups[g] EXCEPT !.access = Put(groups[g].access, a, JoinFlagsOf(groups[g]))]
    BY <1>6 DEF JoinGroup, Commit
  <2> QED BY <1>1, <1>6, <2>1, FieldUpdates DEF SameMemos
<1>7. ASSUME NEW t \in Accounts, NEW changes \in FlagChanges, NEW force \in BOOLEAN,
             SetFlags(a, g, t, changes, force)
      PROVE  SameMemos(g)
  <2>1. \E x : groups'[g] = [groups[g] EXCEPT !.access = x]
    BY <1>7 DEF SetFlags, Commit
  <2> QED BY <1>1, <2>1, FieldUpdates DEF SameMemos
<1>8. ASSUME NEW value \in JoinFlagValues, SetJoinFlags(a, g, value)
      PROVE  SameAccess(g) /\ SameMemos(g)
  <2>1. \E x : groups'[g] = [groups[g] EXCEPT !.joinflags = x]
    BY <1>8 DEF SetJoinFlags, Commit
  <2> QED BY <1>1, <2>1, FieldUpdates DEF SameAccess, SameMemos
<1>9. ASSUME NEW option \in Options, NEW on \in BOOLEAN,
             SetOption(a, g, option, on) \/ SetGroupFlag(a, g, option, on)
      PROVE  SameAccess(g) /\ SameMemos(g)
  <2>1. groups'[g] = WithFlag(groups[g], option, on)
    BY <1>9 DEF SetOption, SetGroupFlag, Commit
  <2>2. \E x : groups'[g] = [groups[g] EXCEPT !.flags = x]
    BY <2>1 DEF WithFlag
  <2> QED BY <1>1, <2>2, FieldUpdates DEF SameAccess, SameMemos
<1>10. ASSUME SendMemo(a, g) \/ \E i \in Nat : DelMemo(a, g, i)
       PROVE  SameAccess(g)
  <2>1. \E x : groups'[g] = [groups[g] EXCEPT !.memos = x]
    BY <1>10 DEF SendMemo, DelMemo, Commit
  <2> QED BY <1>1, <2>1, FieldUpdates DEF SameAccess
<1>11. \A i \in 1..(MaxGroupMemos + MaxMemos) : i \in Nat
  BY ConfigAssumption
<1> QED BY <1>3, <1>4, <1>5, <1>6, <1>7, <1>8, <1>9, <1>10, <1>11

-----------------------------------------------------------------------------
(* Bans *)

\* No command of somebody without privileges makes a banned account a member.
LEMMA BannedCannotReturn ==
  ASSUME IInv, NEW a \in Accounts \ Admins, NEW g \in Groups, Banned(g, a), Command(a)
  PROVE  ~IsMemberOfGroup(g, a)'
<1> SUFFICES ASSUME g \in DOMAIN groups' PROVE "BAN" \in GetAccessFor(groups'[g], a)
  BY DEF IsMemberOfGroup
<1>1. /\ g \in DOMAIN groups /\ "BAN" \in GetAccessFor(groups[g], a) /\ ~IsAdmin(a)
      /\ \A required : ~HasAccess(groups[g], a, required)
  BY DEF Banned, IsAdmin, HasAccess, GetAccessFor, Founders
<1>2. a \in DOMAIN groups[g].access
  BY <1>1 DEF GetAccessFor
<1>3. PICK h \in Groups : Command(a)!(h)
  BY DEF Command
<1>4. CASE h # g
  <2>1. groups'[g] = groups[g]
    BY <1>1, <1>3, <1>4, OtherGroupsStay
  <2> QED BY <1>1, <2>1
<1>5. CASE h = g
  <2>1. ~JoinGroup(a, g)
    BY <1>2 DEF JoinGroup
  <2>2. \A t \in Accounts, changes \in FlagChanges, force \in BOOLEAN : ~SetFlags(a, g, t, changes, force)
    BY <1>1 DEF SetFlags
  <2>3. SameAccess(g)
    BY <1>1, <1>3, <1>5, <2>1, <2>2, NamedGroup
  <2> QED BY <1>1, <2>3 DEF SameAccess, GetAccessFor
<1> QED BY <1>4, <1>5

\* Nothing a banned account does by itself makes it a member again: not JOIN, not an
\* accepted invitation, not FLAGS, not a rename (JoinGroup, HasAccess).
THEOREM BansHold == Spec => BannedStaysOut
<1>1. IInv => [\A a \in Accounts \ Admins, g \in Groups :
                 Banned(g, a) /\ IsMemberOfGroup(g, a)' => ~Command(a)]_groups
  BY BannedCannotReturn
<1> QED BY <1>1, Invariance, PTL DEF BannedStaysOut

-----------------------------------------------------------------------------
(* Memos *)

\* A queue is a prefix of itself with one memo more.
LEMMA NothingLeaves ==
  ASSUME NEW s \in Seq(Accounts), NEW a \in Accounts
  PROVE  IsPrefix(s, s) /\ IsPrefix(s, Append(s, a))
<1>1. Len(s) \in Nat /\ Append(s, a) \in Seq(Accounts) /\ Len(Append(s, a)) = Len(s) + 1
  OBVIOUS
<1>2. SubSeq(s, 1, Len(s)) = SubSeq(Append(s, a), 1, Len(s))
  BY <1>1
<1> QED BY <1>1, <1>2 DEF IsPrefix

\* A memo leaves a group only by GDEL: when SendMemo appends one ClampMemos has nothing
\* to drop, for any limit (SendMemo, ClampMemos, DelMemo).
THEOREM MemosStay == Spec => NoMemoDisplaced
<1> DEFINE Kept(g) ==
      \/ IsPrefix(groups[g].memos, groups'[g].memos)
      \/ \E i \in 1..Len(groups[g].memos) : groups'[g].memos = RemoveAt(groups[g].memos, i)
<1>1. IInv /\ [Next]_vars
      => [up /\ up' => \A g \in DOMAIN groups \intersect DOMAIN groups' : Kept(g)]_vars
  <2> SUFFICES ASSUME IInv, Next, up, up', NEW g \in DOMAIN groups \intersect DOMAIN groups'
               PROVE  Kept(g)
    OBVIOUS
  <2>1. SoundRecord(groups[g]) /\ groups[g].memos \in Seq(Accounts)
    BY DEF IInv, Sound, SoundRecord, GroupOK
  <2>2. CASE SameMemos(g)
    <3>1. CASE Accounts = {}
      <4>1. groups[g].memos = <<>>
        BY <2>1, <3>1
      <4> QED BY <2>2, <4>1 DEF SameMemos, IsPrefix
    <3>2. CASE Accounts # {}
      BY <2>1, <2>2, <3>2, NothingLeaves DEF SameMemos
    <3> QED BY <3>1, <3>2
  <2>3. ASSUME NEW a \in Accounts, SendMemo(a, g) PROVE Kept(g)
    <3>1. Append(groups[g].memos, a) \in Seq(Accounts) /\ FitsLimit(Append(groups[g].memos, a))
      BY <2>1, <2>3, ConfigAssumption DEF SendMemo, MemosFull, FitsLimit
    <3>2. ClampMemos(Append(groups[g].memos, a)) = Append(groups[g].memos, a)
      BY <3>1, ClampMemosType
    <3>3. groups'[g] = [groups[g] EXCEPT !.memos = Append(groups[g].memos, a)]
      BY <2>3, <3>2 DEF SendMemo, Commit
    <3>4. groups'[g].memos = Append(groups[g].memos, a)
      BY <2>1, <3>3, FieldUpdates
    <3> QED BY <2>1, <3>4, NothingLeaves
  <2>4. ASSUME NEW a \in Accounts, NEW i \in Nat, DelMemo(a, g, i) PROVE Kept(g)
    <3>1. /\ i \in 1..Len(groups[g].memos)
          /\ groups'[g] = [groups[g] EXCEPT !.memos = RemoveAt(groups[g].memos, i)]
      BY <2>4 DEF DelMemo, Commit
    <3>2. groups'[g].memos = RemoveAt(groups[g].memos, i)
      BY <2>1, <3>1, FieldUpdates
    <3> QED BY <3>1, <3>2
  <2>5. ASSUME NEW a \in Accounts, Command(a) PROVE Kept(g)
    <3>1. PICK h \in Groups : Command(a)!(h)
      BY <2>5 DEF Command
    <3>2. CASE h # g
      BY <2>2, <3>1, <3>2, OtherGroupsStay DEF SameMemos
    <3>3. CASE h = g
      BY <2>2, <2>3, <2>4, <3>1, <3>3, NamedGroup
    <3> QED BY <3>2, <3>3
  <2>6. CASE Environment
    <3>1. groups' = groups
      BY <2>6 DEF Environment, SaveTimer, Commit, Tick, SetReadOnly, Unload, Crash, Load, ForgetMemory
    <3> QED BY <2>2, <3>1 DEF SameMemos
  <2> QED BY <2>5, <2>6 DEF Next
<1> QED BY <1>1, Invariance, PTL DEF Spec, NoMemoDisplaced

-----------------------------------------------------------------------------
(* The access limit *)

\* No group is in memory while the module is not loaded.
DownIsEmpty == ~up => groups = EmptyMap

\* There are no tables while the module is not loaded.
LEMMA DownInvariant == Spec => []DownIsEmpty
<1>1. Init => DownIsEmpty
  BY DEF Init, DownIsEmpty
<1>2. DownIsEmpty /\ [Next]_vars => DownIsEmpty'
  <2> SUFFICES ASSUME DownIsEmpty, [Next]_vars PROVE DownIsEmpty'
    OBVIOUS
  <2>1. CASE \E a \in Accounts : Command(a)
    BY <2>1, CommandsNeedTheModule DEF DownIsEmpty
  <2>2. CASE Environment
    BY <2>2 DEF Environment, SaveTimer, Commit, Tick, SetReadOnly, Unload, Crash, Load, ForgetMemory, DownIsEmpty
  <2>3. CASE UNCHANGED vars
    BY <2>3 DEF vars, DownIsEmpty
  <2> QED BY <2>1, <2>2, <2>3 DEF Next
<1> QED BY <1>1, <1>2, PTL DEF Spec

\* One entry more is at most what HasRoom allows.
LEMMA RoomForOne ==
  ASSUME NEW r, SoundRecord(r), NEW a, HasRoom(r, a), ~CanExceedLimits(a), NEW t, NEW S,
         MaxGroupAcs > 0, "ACSNOLIMIT" \notin r.flags
  PROVE  Cardinality(DOMAIN Put(r.access, t, S)) <= MaxGroupAcs
<1>1. DOMAIN Put(r.access, t, S) = DOMAIN r.access \union {t}
  BY DEF Put
<1>2. IsFiniteSet(DOMAIN r.access) /\ Cardinality(DOMAIN r.access) \in Nat
  BY FS_CardinalityType DEF SoundRecord
<1>3. Cardinality(DOMAIN r.access) < MaxGroupAcs /\ MaxGroupAcs \in Nat
  BY ConfigAssumption DEF HasRoom
<1>4. Cardinality(DOMAIN r.access \union {t}) <= Cardinality(DOMAIN r.access) + 1
  BY <1>2, FS_AddElement
<1>5. Cardinality(DOMAIN r.access \union {t}) \in Nat
  BY <1>2, FS_AddElement, FS_CardinalityType
<1> QED BY <1>1, <1>2, <1>3, <1>4, <1>5

\* FLAGS of somebody who may not exceed the limit grows no list beyond it.
LEMMA FlagsRespectTheLimit ==
  ASSUME IInv, NEW a, NEW g \in DOMAIN groups, NEW t, NEW changes, NEW force,
         SetFlags(a, g, t, changes, force), ~CanExceedLimits(a), MaxGroupAcs > 0,
         "ACSNOLIMIT" \notin groups[g].flags
  PROVE  Size(groups', g) <= Size(groups, g) \/ Size(groups', g) <= MaxGroupAcs
<1> DEFINE r == groups[g]
           updated == ParseFlags(changes, TRUE, GetAccessFor(r, t))
<1>1. SoundRecord(r) /\ IsFiniteSet(DOMAIN r.access) /\ Cardinality(DOMAIN r.access) \in Nat
  BY FS_CardinalityType DEF IInv, Sound, SoundRecord
<1>2. CASE updated = {}
  <2>1. groups'[g] = [r EXCEPT !.access = Without(r.access, {t})]
    BY <1>2 DEF SetFlags, Commit
  <2>2. DOMAIN groups'[g].access = DOMAIN r.access \ {t}
    BY <1>1, <2>1, FieldUpdates DEF Without
  <2>3. Cardinality(DOMAIN r.access \ {t}) <= Cardinality(DOMAIN r.access)
    <3>1. DOMAIN r.access \ {t} \in SUBSET DOMAIN r.access
      OBVIOUS
    <3> QED BY <1>1, <3>1, FS_Subset
  <2> QED BY <2>2, <2>3 DEF Size
<1>3. CASE updated # {}
  <2>1. /\ groups'[g] = [r EXCEPT !.access = Put(r.access, t, updated)]
        /\ t \in DOMAIN r.access \/ HasRoom(r, a)
    BY <1>3 DEF SetFlags, Commit
  <2> HIDE DEF updated
  <2>2. groups'[g].access = Put(r.access, t, updated)
    BY <1>1, <2>1, FieldUpdates
  <2>3. CASE t \in DOMAIN r.access
    <3>1. DOMAIN groups'[g].access = DOMAIN r.access
      BY <2>2, <2>3 DEF Put
    <3> QED BY <1>1, <3>1 DEF Size
  <2>4. CASE HasRoom(r, a)
    BY <1>1, <2>2, <2>4, RoomForOne DEF Size
  <2> QED BY <2>1, <2>3, <2>4
<1> QED BY <1>2, <1>3

\* An access list longer than maxgroupacs grows only by an accepted invitation, in an
\* ACSNOLIMIT group or by an account that may exceed limits (JoinGroup, SetFlags).
THEOREM LimitsHold == Spec => GrowthPastLimit
<1> DEFINE Allowed(g) ==
      \/ "ACSNOLIMIT" \in groups[g].flags
      \/ \E a \in Accounts : Invited(a, g) /\ a \in DOMAIN groups'[g].access
      \/ \E a \in Accounts : CanExceedLimits(a) /\ Command(a)
<1>1. IInv /\ DownIsEmpty /\ [Next]_vars
      => [\A g \in DOMAIN groups \intersect DOMAIN groups' :
            MaxGroupAcs > 0 /\ Size(groups', g) > Size(groups, g) /\ Size(groups', g) > MaxGroupAcs
            => Allowed(g)]_groups
  <2> SUFFICES ASSUME IInv, DownIsEmpty, [Next]_vars, groups' # groups,
                      NEW g \in DOMAIN groups \intersect DOMAIN groups', MaxGroupAcs > 0,
                      Size(groups', g) > Size(groups, g), Size(groups', g) > MaxGroupAcs
               PROVE  Allowed(g)
    OBVIOUS
  <2>1. PICK a \in Accounts : Command(a)
    <3>1. CASE SaveTimer \/ Tick \/ SetReadOnly \/ UNCHANGED vars
      BY <3>1 DEF SaveTimer, Commit, Tick, SetReadOnly, vars
    <3>2. CASE Unload \/ Crash
      BY <3>2 DEF Unload, Crash, ForgetMemory, EmptyMap
    <3>3. CASE Load
      BY <3>3 DEF Load, DownIsEmpty, EmptyMap
    <3> QED BY <3>1, <3>2, <3>3 DEF Next, Environment
  <2>2. PICK h \in Groups : Command(a)!(h)
    BY <2>1 DEF Command
  <2>3. SoundRecord(groups[g]) /\ SoundRecord(groups'[g])
    BY <2>1, CommandKeeps DEF IInv, Sound
  <2>4. Size(groups, g) \in Nat /\ Size(groups', g) \in Nat /\ MaxGroupAcs \in Nat
    BY <2>3, FS_CardinalityType, ConfigAssumption DEF SoundRecord, Size
  <2>5. h = g
    <3>1. groups'[g] # groups[g]
      BY <2>4 DEF Size
    <3> QED BY <2>2, <3>1, OtherGroupsStay
  <2>6. ~SameAccess(g)
    BY <2>4 DEF SameAccess, Size
  <2> SUFFICES ASSUME ~CanExceedLimits(a), "ACSNOLIMIT" \notin groups[g].flags PROVE Allowed(g)
    BY <2>1
  <2>7. CASE JoinGroup(a, g)
    <3>1. groups'[g] = [groups[g] EXCEPT !.access = Put(groups[g].access, a, JoinFlagsOf(groups[g]))]
      BY <2>7 DEF JoinGroup, Commit
    <3>2. groups'[g].access = Put(groups[g].access, a, JoinFlagsOf(groups[g]))
      BY <2>3, <3>1, FieldUpdates
    <3>3. CASE Invited(a, g)
      BY <3>2, <3>3 DEF Put
    <3>4. CASE HasRoom(groups[g], a)
      <4>1. Size(groups', g) <= MaxGroupAcs
        BY <2>3, <3>2, <3>4, RoomForOne DEF Size
      <4> QED BY <2>4, <4>1
    <3> QED BY <2>7, <3>3, <3>4 DEF JoinGroup, MayJoin
  <2>8. ASSUME NEW t \in Accounts, NEW changes \in FlagChanges, NEW force \in BOOLEAN,
               SetFlags(a, g, t, changes, force)
        PROVE  FALSE
    BY <2>4, <2>8, FlagsRespectTheLimit
  <2> QED BY <2>2, <2>5, <2>6, <2>7, <2>8, NamedGroup
<1> QED BY <1>1, Invariance, DownInvariant, PTL DEF Spec, GrowthPastLimit
=============================================================================
