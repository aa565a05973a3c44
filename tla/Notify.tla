------------------------------- MODULE Notify -------------------------------
(***************************************************************************)
(* OperServ NOTIFY (src/os_notify.cpp): a list of masks, and two multimaps *)
(* of pointers that say which users are matched by which entry.            *)
(*                                                                         *)
(* An entry is the address of its NotifyEntry: a deleted entry's address   *)
(* is free for the next one, so a pair left behind in a map would point at *)
(* freed memory.  What a mask sees of a user (nick!user@host#real, and     *)
(* nicks alone for exclusions) is one identity; what a mask matches is a   *)
(* constant relation.  Texts, and the multiplicity of equal pairs, are     *)
(* left out.                                                               *)
(***************************************************************************)
EXTENDS Integers, Sequences, FiniteSets, Functions, FiniteSetsExt

CONSTANTS
  Addr,        \* addresses an entry can have (bound: entries at a time)
  Users, Chans,
  ULined,      \* users on U-lined servers
  Idents,      \* what masks see of a user
  UserMasks, ChanMasks,
  Covers,      \* mask -> the identities, or the channels, it matches
  FlagSets,    \* the flags entries are added with
  Lifetimes,   \* time until a new entry expires; Never
  Excludes     \* the exclude masks the configuration may name

Masks   == UserMasks \union ChanMasks
Never   == -1
Numbers == SUBSET (1 .. Cardinality(Addr))     \* number lists of DEL and LIST

ASSUME ConfigAssumption ==
  /\ IsFiniteSet(Addr)
  /\ ULined \subseteq Users
  /\ UserMasks \intersect ChanMasks = {}
  /\ Covers \in [Masks -> SUBSET (Idents \union Chans)]
  /\ Lifetimes \subseteq Nat \union {Never}
  /\ Excludes \subseteq SUBSET Idents

VARIABLES
  loaded,      \* the module object exists
  synced,      \* Me->IsSynced()
  who,         \* the users online, and what masks see of them
  on,          \* channel -> users
  nl,          \* NotifyList
  excluded,    \* exclude_masks
  loop,        \* a command that works through a number list
  said         \* the users the last handler has reported

vars == <<loaded, synced, who, on, nl, excluded, loop, said>>

Empty        == [x \in {} |-> 0]
Put(f, k, v) == [x \in DOMAIN f \union {k} |-> IF x = k THEN v ELSE f[x]]
Online       == DOMAIN who
AtMostOne(S) == {{}} \union {{x} : x \in S}

-----------------------------------------------------------------------------
(* NotifyList: the vector, the entries on the heap and the two maps *)

Live(n) == DOMAIN n.entry

\* The list s after the entries of es have been erased from it: the k-th one
\* that stays has k that stay up to its place.
Staying(s, es) ==
  LET left == {i \in DOMAIN s : s[i] \notin es}
  IN  [k \in 1 .. Cardinality(left) |->
         s[CHOOSE i \in left : Cardinality({j \in left : j <= i}) = k]]

\* A plausible slip: only the map by entry is cleared.
DelNotifyOneMap(n, es) ==
  [notifies   |-> Staying(n.notifies, es),
   entry      |-> Restrict(n.entry, Live(n) \ es),
   matchEntry |-> {p \in n.matchEntry : p[1] \notin es},
   matchUser  |-> n.matchUser]

\* DelNotify, which ~NotifyEntry calls, for each entry of es.
DelNotify(n, es) ==
  [notifies   |-> Staying(n.notifies, es),
   entry      |-> Restrict(n.entry, Live(n) \ es),
   matchEntry |-> {p \in n.matchEntry : p[1] \notin es},
   matchUser  |-> {p \in n.matchUser : p[2] \notin es}]

AddNotify(n, e, ne) ==
  [notifies   |-> Append(n.notifies, e),
   entry      |-> Put(n.entry, e, ne),
   matchEntry |-> n.matchEntry,
   matchUser  |-> n.matchUser]

\* AddMatch, for each pair of a user and an entry.
AddMatches(n, pairs) ==
  [notifies   |-> n.notifies,
   entry      |-> n.entry,
   matchEntry |-> n.matchEntry \union {<<p[2], p[1]>> : p \in pairs},
   matchUser  |-> n.matchUser \union pairs]

DelMatch(n, u) ==
  [notifies   |-> n.notifies,
   entry      |-> n.entry,
   matchEntry |-> {p \in n.matchEntry : p[2] # u},
   matchUser  |-> {p \in n.matchUser : p[1] # u}]

IsMatch(n, u)    == \E p \in n.matchUser : p[1] = u
HasFlag(n, u, f) == \E p \in n.matchUser : p[1] = u /\ f \in n.entry[p[2]].flags

Expired(n) == {e \in Live(n) : n.entry[e].left = 0}

\* GetNotifies: everything that has expired goes.
GetNotifies(n) == DelNotify(n, Expired(n))

\* GetNotify(mask): from the end of the list up to the entry that is found.
Found(n, m) == {e \in Live(n) \ Expired(n) : n.entry[e].mask = m}
Passed(n, m) ==
  {n.notifies[i] : i \in {j \in DOMAIN n.notifies :
                            \A k \in DOMAIN n.notifies : n.notifies[k] \in Found(n, m) => k < j}}
\* A plausible slip: what has expired is passed over.
SeekBare(n, m) == n

Seek(n, m) == DelNotify(n, Expired(n) \intersect Passed(n, m))

-----------------------------------------------------------------------------
(* Matching *)

\* Check; the relations a user stands in to an entry.
SeesUser(n, e, i) == n.entry[e].mask \in UserMasks /\ i \in Covers[n.entry[e].mask]
SeesChan(n, e, c) == n.entry[e].mask \in ChanMasks /\ c \in Covers[n.entry[e].mask]

IsExcluded(u, w) == w[u] \in excluded
Exempt(u, w)     == u \in ULined \/ IsExcluded(u, w)

\* CheckUserOrChannel(u), on its list without what has expired.
CheckUser(n, u, w) ==
  LET g == GetNotifies(n) IN
  IF Exempt(u, w) THEN g
  ELSE AddMatches(g, {<<u, e>> : e \in {x \in Live(g) : SeesUser(g, x, w[u])}})

\* CheckUserOrChannel(u, c, true)
CheckChannel(n, u, c) ==
  LET g == GetNotifies(n) IN
  IF Exempt(u, who) THEN g
  ELSE AddMatches(g, {<<u, e>> : e \in {x \in Live(g) : SeesChan(g, x, c)}})

\* OSNotify::Init
Rescan(n) ==
  LET g == GetNotifies(n) IN
  AddMatches(g, {p \in Online \X Live(g) : ~Exempt(p[1], who) /\ SeesUser(g, p[2], who[p[1]])})

\* The users DoAdd matches: it looks at neither exclusions nor U-lines.
MatchedBy(m) ==
  IF m \in ChanMasks THEN UNION {on[c] : c \in Chans \intersect Covers[m]}
  ELSE {u \in Online : who[u] \in Covers[m]}

-----------------------------------------------------------------------------
(* The network and the module *)

Idle == loop.todo = {}
NoLoop == [todo |-> {}, asked |-> {}, kind |-> "del", start |-> <<>>]

Init ==
  /\ loaded = FALSE /\ synced \in BOOLEAN
  /\ who \in UNION {[S -> Idents] : S \in SUBSET Users}
  /\ on \in [Chans -> SUBSET Online]
  /\ nl = [notifies |-> <<>>, entry |-> Empty, matchEntry |-> {}, matchUser |-> {}]
  /\ excluded \in Excludes
  /\ loop = NoLoop /\ said = {}

\* NotifyEntry::Unserialize of what the module has saved: no mask twice.
Unserialize(e, ne) ==
  /\ ~loaded /\ e \notin Live(nl)
  /\ \A x \in Live(nl) : nl.entry[x].mask # ne.mask
  /\ nl' = AddNotify(nl, e, ne)
  /\ UNCHANGED <<loaded, synced, who, on, excluded, loop, said>>

OSNotify ==
  /\ ~loaded
  /\ loaded' = TRUE
  /\ nl' = IF synced THEN Rescan(nl) ELSE nl
  /\ UNCHANGED <<synced, who, on, excluded, loop, said>>

\* A handler runs; the module is there and no command is at work.
Handler == loaded /\ Idle /\ UNCHANGED <<loaded, excluded, loop>>

OnUplinkSync ==
  /\ Handler /\ ~synced
  /\ synced' = TRUE
  /\ nl' = Rescan(nl) /\ said' = {}
  /\ UNCHANGED <<who, on>>

OnUserConnect(u, i) ==
  /\ Handler /\ u \notin Online
  /\ who' = Put(who, u, i)
  /\ IF ~synced \/ IsExcluded(u, who')
     THEN nl' = nl /\ said' = {}
     ELSE /\ nl' = CheckUser(nl, u, who')
          /\ said' = {x \in {u} : HasFlag(nl', u, "c")}
  /\ UNCHANGED <<synced, on>>

OnUserQuit(u) ==
  /\ Handler /\ u \in Online
  /\ nl' = DelMatch(nl, u)
  /\ said' = {x \in {u} : ~IsExcluded(u, who) /\ HasFlag(nl, u, "d")}
  /\ who' = Restrict(who, Online \ {u})
  /\ on' = [c \in Chans |-> on[c] \ {u}]
  /\ UNCHANGED synced

\* A plausible slip: a user who is matched already is not looked at again.
OnUserNickChangeOnce(u, i) ==
  /\ Handler /\ u \in Online
  /\ who' = [who EXCEPT ![u] = i]
  /\ IF IsExcluded(u, who')
     THEN nl' = DelMatch(nl, u) /\ said' = {}
     ELSE /\ nl' = IF IsMatch(nl, u) THEN GetNotifies(nl) ELSE CheckUser(nl, u, who')
          /\ said' = {x \in {u} : HasFlag(nl', u, "n")}
  /\ UNCHANGED <<synced, on>>

OnUserNickChange(u, i) ==
  /\ Handler /\ u \in Online
  /\ who' = [who EXCEPT ![u] = i]
  /\ IF IsExcluded(u, who')
     THEN nl' = DelMatch(nl, u) /\ said' = {}
     ELSE /\ nl' = CheckUser(nl, u, who')
          /\ said' = {x \in {u} : HasFlag(nl', u, "n")}
  /\ UNCHANGED <<synced, on>>

\* Ident, host and real name change without a handler of this module.
IdentityChange(u, i) ==
  /\ Handler /\ u \in Online
  /\ who' = [who EXCEPT ![u] = i]
  /\ said' = {}
  /\ UNCHANGED <<synced, on, nl>>

OnJoinChannel(u, c) ==
  /\ Handler /\ u \in Online \ on[c]
  /\ on' = [on EXCEPT ![c] = @ \union {u}]
  /\ IF IsExcluded(u, who)
     THEN nl' = DelMatch(nl, u) /\ said' = {}
     ELSE /\ nl' = CheckChannel(nl, u, c)
          /\ said' = {x \in {u} : HasFlag(nl', u, "j")}
  /\ UNCHANGED <<synced, who>>

OnPartChannel(u, c) ==
  /\ Handler /\ u \in on[c]
  /\ on' = [on EXCEPT ![c] = @ \ {u}]
  /\ said' = {x \in {u} : ~IsExcluded(u, who) /\ HasFlag(nl, u, "p")}
  /\ UNCHANGED <<synced, who, nl>>

\* A plausible slip: the kicker is not looked up among the exclusions.
OnUserKickedByAny(by, u, c) ==
  /\ Handler /\ u \in on[c] /\ by \in AtMostOne(Online)
  /\ on' = [on EXCEPT ![c] = @ \ {u}]
  /\ nl' = IF IsExcluded(u, who) THEN DelMatch(nl, u) ELSE nl
  /\ said' = {x \in by \union {u} : HasFlag(nl', x, "k")}
  /\ UNCHANGED <<synced, who>>

\* by: the kicker, unless a server kicks.  The excluded target is forgotten; an excluded kicker is not looked at.
OnUserKicked(by, u, c) ==
  /\ Handler /\ u \in on[c] /\ by \in AtMostOne(Online)
  /\ on' = [on EXCEPT ![c] = @ \ {u}]
  /\ nl' = IF IsExcluded(u, who) THEN DelMatch(nl, u) ELSE nl
  /\ said' = {x \in by \union {u} : ~IsExcluded(x, who) /\ HasFlag(nl', x, "k")}
  /\ UNCHANGED <<synced, who>>

OnUserMode(u) ==
  /\ Handler /\ u \in Online
  /\ IF HasFlag(nl, u, "u") /\ IsExcluded(u, who)
     THEN nl' = DelMatch(nl, u) /\ said' = {}
     ELSE nl' = nl /\ said' = {x \in {u} : HasFlag(nl, u, "u")}
  /\ UNCHANGED <<synced, who, on>>

\* A status mode names a target, who is found or not; ts is empty otherwise.
OnChannelMode(u, ts) ==
  /\ Handler /\ u \in Online /\ ts \in AtMostOne(Online)
  /\ said' = IF \E x \in ts \union {u} : IsExcluded(x, who) THEN {}
             ELSE IF HasFlag(nl, u, "m") THEN {u}
             ELSE {x \in ts : HasFlag(nl, x, "m")}
  /\ UNCHANGED <<synced, who, on, nl>>

OnTopicUpdated(u) ==
  /\ Handler /\ u \in Online
  /\ said' = {x \in {u} : ~IsExcluded(u, who) /\ HasFlag(nl, u, "t")}
  /\ UNCHANGED <<synced, who, on, nl>>

\* f: "S" for a command named */set/*, "s" for every other.
OnPostCommand(u, f) ==
  /\ Handler /\ u \in Online
  /\ said' = {x \in {u} : ~IsExcluded(u, who) /\ HasFlag(nl, u, f)}
  /\ UNCHANGED <<synced, who, on, nl>>

\* OnReload reads the exclusions anew and touches no match.
OnReload(x) ==
  /\ loaded /\ Idle
  /\ excluded' = x /\ said' = {}
  /\ UNCHANGED <<loaded, synced, who, on, nl, loop>>

\* Anope::CurTime moves on.
Aged(ne) == [mask |-> ne.mask, flags |-> ne.flags,
             left |-> IF ne.left > 0 THEN ne.left - 1 ELSE ne.left]

Tick ==
  /\ Handler
  /\ nl' = [notifies   |-> nl.notifies,
            entry      |-> [e \in Live(nl) |-> Aged(nl.entry[e])],
            matchEntry |-> nl.matchEntry,
            matchUser  |-> nl.matchUser]
  /\ said' = {}
  /\ UNCHANGED <<synced, who, on>>

-----------------------------------------------------------------------------
(* OperServ NOTIFY *)

Command == Handler /\ said' = {} /\ UNCHANGED <<synced, who, on>>

\* ADD: an entry with the mask is deleted, the new one goes to the end.
DoAdd(e, ne) ==
  /\ Command
  /\ LET old == Seek(nl, ne.mask)
         n   == DelNotify(old, Found(old, ne.mask))
     IN  /\ e \notin Live(n)
         /\ nl' = AddMatches(AddNotify(n, e, ne), MatchedBy(ne.mask) \X {e})

\* DEL mask
DoDel(m) ==
  /\ Command /\ nl.notifies # <<>>
  /\ LET n == Seek(nl, m) IN nl' = DelNotify(n, Found(n, m))

DoClear ==
  /\ Command /\ nl.notifies # <<>>
  /\ nl' = DelNotify(nl, Live(nl))

\* REMOVE nick
DoRemove(u) ==
  /\ Command /\ nl.notifies # <<>> /\ u \in Online /\ IsMatch(nl, u)
  /\ nl' = DelMatch(nl, u)

\* LIST and VIEW without numbers
ProcessList ==
  /\ Command /\ nl.notifies # <<>>
  /\ nl' = GetNotifies(nl)

\* DEL, LIST or VIEW with numbers: NumberList::Process starts.
StartNumbers(kind, ks) ==
  /\ loaded /\ Idle /\ nl.notifies # <<>> /\ ks # {}
  /\ loop' = [todo |-> ks, asked |-> ks, kind |-> kind, start |-> nl.notifies]
  /\ said' = {}
  /\ UNCHANGED <<loaded, synced, who, on, nl, excluded>>

\* A plausible slip: NumberList(numlist, false).
AscendingNumber ==
  /\ ~Idle
  /\ LET k == Min(loop.todo)
         e == {nl.notifies[i] : i \in {k} \intersect DOMAIN nl.notifies}
     IN  /\ nl' = DelNotify(nl, IF loop.kind = "del" THEN e ELSE e \intersect Expired(nl))
         /\ loop' = IF loop.todo = {k} THEN NoLoop ELSE [loop EXCEPT !.todo = @ \ {k}]
  /\ said' = {}
  /\ UNCHANGED <<loaded, synced, who, on, excluded>>

\* HandleNumber: DEL goes from the largest number down, LIST from the
\* smallest up.  GetNotify(number - 1) deletes an entry that has expired.
HandleNumber ==
  /\ ~Idle
  /\ LET k == IF loop.kind = "del" THEN Max(loop.todo) ELSE Min(loop.todo)
         e == {nl.notifies[i] : i \in {k} \intersect DOMAIN nl.notifies}
     IN  /\ nl' = DelNotify(nl, IF loop.kind = "del" THEN e ELSE e \intersect Expired(nl))
         /\ loop' = IF loop.todo = {k} THEN NoLoop ELSE [loop EXCEPT !.todo = @ \ {k}]
  /\ said' = {}
  /\ UNCHANGED <<loaded, synced, who, on, excluded>>

-----------------------------------------------------------------------------
NewEntries == [mask : Masks, flags : FlagSets, left : Lifetimes]

NetworkEvent ==
  \/ OnUplinkSync
  \/ Tick
  \/ \E u \in Users :
       \/ \E i \in Idents : OnUserConnect(u, i) \/ OnUserNickChange(u, i) \/ IdentityChange(u, i)
       \/ OnUserQuit(u)
       \/ OnUserMode(u)
       \/ OnTopicUpdated(u)
       \/ \E f \in {"s", "S"} : OnPostCommand(u, f)
       \/ \E ts \in AtMostOne(Users) : OnChannelMode(u, ts)
       \/ \E c \in Chans :
            \/ OnJoinChannel(u, c)
            \/ OnPartChannel(u, c)
            \/ \E by \in AtMostOne(Users) : OnUserKicked(by, u, c)

Execute ==
  \/ \E e \in Addr, ne \in NewEntries : DoAdd(e, ne)
  \/ \E m \in Masks : DoDel(m)
  \/ \E kind \in {"del", "list"}, ks \in Numbers : StartNumbers(kind, ks)
  \/ HandleNumber
  \/ ProcessList
  \/ DoClear
  \/ \E u \in Users : DoRemove(u)

Next ==
  \/ \E e \in Addr, ne \in NewEntries : Unserialize(e, ne)
  \/ OSNotify
  \/ \E x \in Excludes : OnReload(x)
  \/ NetworkEvent
  \/ Execute

Spec == Init /\ [][Next]_vars

-----------------------------------------------------------------------------
(* Properties *)

\* The two maps mirror each other, and no pair in either of them points at
\* an entry that has been deleted or at a user who has left: the maps hold
\* raw pointers, and every handler reads through them (HasFlag, SHOW).
MapsAgree ==
  /\ nl.matchUser \subseteq Online \X Live(nl)
  /\ nl.matchEntry = {<<p[2], p[1]>> : p \in nl.matchUser}

\* The vector holds every live entry once and no mask twice: AddNotify and
\* ~NotifyEntry keep it in step with the heap, and ADD replaces.
ListIsSound ==
  /\ IsInjective(nl.notifies) /\ Range(nl.notifies) = Live(nl)
  /\ \A e, f \in Live(nl) : nl.entry[e].mask = nl.entry[f].mask => e = f

\* DEL with a list of numbers deletes the entries that stood at these
\* positions when the command started, and no other, although deleting moves
\* the others up.
NumbersNameEntries ==
  [][loop.todo # {} /\ loop'.todo = {} /\ loop.kind = "del" =>
       \A i \in DOMAIN loop.start :
         loop.start[i] \in Live(nl)' <=> i \notin loop.asked]_vars

\* A user who connects or changes nick while services are synced, or who is
\* online when they sync, is matched by every entry whose mask covers what
\* the user is now, unless exempt; and a match is lost only with the entry,
\* with the user, by REMOVE or because the user is excluded.
WatchIsKept ==
  [][loaded /\ Idle =>
      /\ \A u \in Online' :
           synced' /\ ~Exempt(u, who)'
           /\ (u \notin Online \/ ~synced \/ (who # who' /\ OnUserNickChange(u, who'[u]))) =>
             \A e \in Live(nl)' : SeesUser(nl', e, who'[u]) => <<u, e>> \in nl'.matchUser
      /\ \A p \in nl.matchUser \ nl'.matchUser :
           \/ p[1] \notin Online' \/ IsExcluded(p[1], who') \/ DoRemove(p[1])
           \/ p[2] \notin Live(nl)' \/ \E ne \in NewEntries : DoAdd(p[2], ne)]_vars

\* Only users are reported who are matched, and no excluded one.
ReportsAreDue ==
  [][\A u \in said' :
        /\ \E p \in nl.matchUser \union nl'.matchUser : p[1] = u
        /\ ~IsExcluded(u, IF u \in Online' THEN who' ELSE who)]_vars
=============================================================================
