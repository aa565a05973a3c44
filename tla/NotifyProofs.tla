---------------------------- MODULE NotifyProofs ----------------------------
(***************************************************************************)
(* Proofs about Notify.  The maps of raw pointers agree and point at live  *)
(* entries and online users (IInv); only users are reported who are        *)
(* watched and not excluded; a user stays matched by what matched them;    *)
(* the vector and the heap agree and a mask stands once (Listed); and the  *)
(* numbers of DEL name what stood there when it began (Progress).          *)
(***************************************************************************)
EXTENDS Notify, FiniteSetTheorems, WellFoundedInduction, TLAPS

Shape(n) == n = [notifies |-> n.notifies, entry |-> n.entry,
                 matchEntry |-> n.matchEntry, matchUser |-> n.matchUser]

\* The maps of n are sound for the users of S.
Sound(n, S) ==
  /\ Shape(n)
  /\ n.matchUser \subseteq S \X Live(n)
  /\ n.matchEntry = {<<p[2], p[1]>> : p \in n.matchUser}

\* The inductive invariant: who is online and on a channel is needed for the
\* pairs DoAdd makes of the users of a channel.
IInv ==
  /\ Sound(nl, Online)
  /\ who = [u \in DOMAIN who |-> who[u]]
  /\ on \in [Chans -> SUBSET Online]

-----------------------------------------------------------------------------
(* The operations of NotifyList keep the maps sound. *)

\* Deleting entries clears both maps of them.
LEMMA DelNotifySound ==
  ASSUME NEW n, NEW S, NEW es, Sound(n, S)
  PROVE  Sound(DelNotify(n, es), S) /\ Live(DelNotify(n, es)) = Live(n) \ es
<1> DEFINE d == DelNotify(n, es)
<1>1. /\ d.entry = [x \in Live(n) \ es |-> n.entry[x]]
      /\ d.matchEntry = {p \in n.matchEntry : p[1] \notin es}
      /\ d.matchUser = {p \in n.matchUser : p[2] \notin es}
      /\ Shape(d)
  BY DEF DelNotify, Restrict, Shape
<1>2. Live(d) = Live(n) \ es
  BY <1>1 DEF Live
<1>3. d.matchUser \subseteq S \X Live(d)
  BY <1>1, <1>2 DEF Sound
<1>4. d.matchEntry = {<<p[2], p[1]>> : p \in d.matchUser}
  BY <1>1 DEF Sound
<1> HIDE DEF d
<1>5. QED
  BY <1>1, <1>2, <1>3, <1>4 DEF Sound, d

\* A new entry is matched by nobody yet.
LEMMA AddNotifySound ==
  ASSUME NEW n, NEW S, NEW e, NEW ne, Sound(n, S)
  PROVE  Sound(AddNotify(n, e, ne), S) /\ Live(AddNotify(n, e, ne)) = Live(n) \union {e}
<1> DEFINE d == AddNotify(n, e, ne)
<1>1. /\ d.entry = Put(n.entry, e, ne)
      /\ d.matchEntry = n.matchEntry /\ d.matchUser = n.matchUser
      /\ Shape(d)
  BY DEF AddNotify, Shape, Sound
<1>2. Live(d) = Live(n) \union {e}
  BY <1>1 DEF Live, Put
<1> HIDE DEF d
<1>3. QED
  BY <1>1, <1>2 DEF Sound, d

\* Pairs of online users and live entries may be added.
LEMMA AddMatchesSound ==
  ASSUME NEW n, NEW S, NEW pairs, Sound(n, S), pairs \subseteq S \X Live(n)
  PROVE  /\ Sound(AddMatches(n, pairs), S) /\ Live(AddMatches(n, pairs)) = Live(n)
         /\ AddMatches(n, pairs).matchUser = n.matchUser \union pairs
         /\ AddMatches(n, pairs).entry = n.entry
<1> DEFINE d == AddMatches(n, pairs)
<1>1. /\ d.entry = n.entry
      /\ d.matchEntry = n.matchEntry \union {<<p[2], p[1]>> : p \in pairs}
      /\ d.matchUser = n.matchUser \union pairs
      /\ Shape(d)
  BY DEF AddMatches, Shape, Sound
<1>2. Live(d) = Live(n)
  BY <1>1 DEF Live
<1>3. d.matchEntry = {<<p[2], p[1]>> : p \in d.matchUser}
  BY <1>1 DEF Sound
<1> HIDE DEF d
<1>4. QED
  BY <1>1, <1>2, <1>3 DEF Sound, d

\* A user's pairs leave both maps.
LEMMA DelMatchSound ==
  ASSUME NEW n, NEW S, NEW u, Sound(n, S)
  PROVE  /\ Sound(DelMatch(n, u), S)
         /\ Sound(DelMatch(n, u), S \ {u})
         /\ Live(DelMatch(n, u)) = Live(n)
         /\ DelMatch(n, u).matchUser = {p \in n.matchUser : p[1] # u}
<1> DEFINE d == DelMatch(n, u)
<1>1. /\ d.entry = n.entry
      /\ d.matchEntry = {p \in n.matchEntry : p[2] # u}
      /\ d.matchUser = {p \in n.matchUser : p[1] # u}
      /\ Shape(d)
  BY DEF DelMatch, Shape, Sound
<1>2. Live(d) = Live(n)
  BY <1>1 DEF Live
<1>3. d.matchEntry = {<<p[2], p[1]>> : p \in d.matchUser}
  BY <1>1 DEF Sound
<1>4. d.matchUser \subseteq (S \ {u}) \X Live(d)
  BY <1>1, <1>2 DEF Sound
<1> HIDE DEF d
<1>5. QED
  BY <1>1, <1>2, <1>3, <1>4 DEF Sound, d

\* More users may be online than are in the maps.
LEMMA SoundForMore ==
  ASSUME NEW n, NEW S, NEW T, Sound(n, S), S \subseteq T
  PROVE  Sound(n, T)
BY DEF Sound

\* Purging what has expired.
LEMMA PurgeSound ==
  ASSUME NEW n, NEW S, Sound(n, S)
  PROVE  Sound(GetNotifies(n), S)
BY DelNotifySound DEF GetNotifies

\* Looking for a mask.
LEMMA SeekSound ==
  ASSUME NEW n, NEW S, NEW m, Sound(n, S)
  PROVE  Sound(Seek(n, m), S)
BY DelNotifySound DEF Seek

\* Matching one user by masks.
LEMMA CheckUserSound ==
  ASSUME NEW n, NEW S, NEW w, NEW u \in S, Sound(n, S)
  PROVE  Sound(CheckUser(n, u, w), S)
<1> DEFINE g == GetNotifies(n)
           pairs == {<<u, e>> : e \in {x \in Live(g) : SeesUser(g, x, w[u])}}
<1>1. Sound(g, S)
  BY PurgeSound
<1>2. pairs \subseteq S \X Live(g)
  OBVIOUS
<1>3. CheckUser(n, u, w) = IF Exempt(u, w) THEN g ELSE AddMatches(g, pairs)
  BY DEF CheckUser
<1> HIDE DEF g, pairs
<1>4. QED
  BY <1>1, <1>2, <1>3, AddMatchesSound

\* Matching one user by a channel.
LEMMA CheckChannelSound ==
  ASSUME NEW n, NEW S, NEW c, NEW u \in S, Sound(n, S)
  PROVE  Sound(CheckChannel(n, u, c), S)
<1> DEFINE g == GetNotifies(n)
           pairs == {<<u, e>> : e \in {x \in Live(g) : SeesChan(g, x, c)}}
<1>1. Sound(g, S)
  BY PurgeSound
<1>2. pairs \subseteq S \X Live(g)
  OBVIOUS
<1>3. CheckChannel(n, u, c) = IF Exempt(u, who) THEN g ELSE AddMatches(g, pairs)
  BY DEF CheckChannel
<1> HIDE DEF g, pairs
<1>4. QED
  BY <1>1, <1>2, <1>3, AddMatchesSound

\* Matching everybody.
LEMMA RescanSound ==
  ASSUME NEW n, Sound(n, Online)
  PROVE  Sound(Rescan(n), Online)
<1> DEFINE g == GetNotifies(n)
           pairs == {p \in Online \X Live(g) : ~Exempt(p[1], who) /\ SeesUser(g, p[2], who[p[1]])}
<1>1. Sound(g, Online)
  BY PurgeSound
<1>2. pairs \subseteq Online \X Live(g)
  OBVIOUS
<1>3. Rescan(n) = AddMatches(g, pairs)
  BY DEF Rescan
<1> HIDE DEF g, pairs
<1>4. QED
  BY <1>1, <1>2, <1>3, AddMatchesSound

-----------------------------------------------------------------------------
(* The network: who is online and who is on a channel. *)

\* Connecting puts a user among those online.
LEMMA Connected ==
  ASSUME NEW u, NEW i, NEW f, f = [x \in DOMAIN f |-> f[x]]
  PROVE  /\ DOMAIN Put(f, u, i) = DOMAIN f \union {u}
         /\ Put(f, u, i) = [x \in DOMAIN Put(f, u, i) |-> Put(f, u, i)[x]]
BY DEF Put

\* Steps that leave the users and the channels as they are.
LEMMA NetworkKept ==
  ASSUME IInv, UNCHANGED <<who, on>>, Sound(nl', Online)
  PROVE  IInv'
BY DEF IInv, Online

-----------------------------------------------------------------------------
(* The invariant *)

\* No handler, command or start-up step breaks it.
LEMMA Inductive == IInv /\ [Next]_vars => IInv'
<1> SUFFICES ASSUME IInv, [Next]_vars PROVE IInv'
  OBVIOUS
<1>0. Sound(nl, Online) /\ on \in [Chans -> SUBSET Online] /\ who = [u \in DOMAIN who |-> who[u]]
  BY DEF IInv
<1>00. \A u : /\ Sound(DelMatch(nl, u), Online)
              /\ Sound(DelMatch(nl, u), Online \ {u})
  <2> TAKE u
  <2>1. QED
    BY <1>0, DelMatchSound
<1>01. \A u \in Online : \A w : Sound(CheckUser(nl, u, w), Online)
  BY <1>0, CheckUserSound
<1>02. \A u \in Online : \A c : Sound(CheckChannel(nl, u, c), Online)
  BY <1>0, CheckChannelSound
<1>1. CASE UNCHANGED vars
  BY <1>1, <1>0, NetworkKept DEF vars
<1>2. ASSUME NEW e \in Addr, NEW ne \in NewEntries, Unserialize(e, ne) PROVE IInv'
  BY <1>2, <1>0, AddNotifySound, NetworkKept DEF Unserialize
<1>3. CASE OSNotify
  BY <1>3, <1>0, RescanSound, NetworkKept DEF OSNotify
<1>4. ASSUME NEW x \in Excludes, OnReload(x) PROVE IInv'
  BY <1>4, <1>0, NetworkKept DEF OnReload
<1>5. CASE OnUplinkSync
  BY <1>5, <1>0, RescanSound, NetworkKept DEF OnUplinkSync
<1>6. CASE Tick
  <2>1. /\ nl'.matchUser = nl.matchUser /\ nl'.matchEntry = nl.matchEntry
        /\ DOMAIN nl'.entry = DOMAIN nl.entry /\ Shape(nl')
    BY <1>6, <1>0 DEF Tick, Sound, Shape, Live
  <2>2. Sound(nl', Online)
    BY <2>1, <1>0 DEF Sound, Live
  <2>3. QED
    BY <2>2, <1>6, NetworkKept DEF Tick
<1>7. ASSUME NEW u \in Users, NEW i \in Idents, OnUserConnect(u, i) PROVE IInv'
  <2>1. Online' = Online \union {u} /\ who' = [x \in DOMAIN who' |-> who'[x]]
    BY <1>7, <1>0, Connected DEF OnUserConnect, Online
  <2>2. Sound(nl, Online')
    BY <2>1, <1>0, SoundForMore
  <2>3. Sound(nl', Online')
    BY <1>7, <2>1, <2>2, CheckUserSound DEF OnUserConnect
  <2>4. on' \in [Chans -> SUBSET Online']
    BY <1>7, <1>0, <2>1 DEF OnUserConnect
  <2>5. QED
    BY <2>1, <2>3, <2>4 DEF IInv
<1>8. ASSUME NEW u \in Users, NEW i \in Idents, OnUserNickChange(u, i) \/ IdentityChange(u, i)
      PROVE IInv'
  <2>1. Online' = Online /\ who' = [x \in DOMAIN who' |-> who'[x]] /\ on' = on /\ u \in Online
    BY <1>8, <1>0 DEF OnUserNickChange, IdentityChange, Online
  <2>2. Sound(nl', Online)
    <3>1. nl' = nl \/ nl' = DelMatch(nl, u) \/ nl' = CheckUser(nl, u, who')
      BY <1>8 DEF OnUserNickChange, IdentityChange
    <3>2. QED
      BY <3>1, <2>1, <1>0, <1>00, <1>01
  <2>3. QED
    BY <2>1, <2>2, <1>0 DEF IInv
<1>9. ASSUME NEW u \in Users, OnUserQuit(u) PROVE IInv'
  <2>1. who' = [x \in Online \ {u} |-> who[x]]
    BY <1>9 DEF OnUserQuit, Restrict
  <2>2. Online' = Online \ {u} /\ who' = [x \in DOMAIN who' |-> who'[x]]
    BY <2>1 DEF Online
  <2>3. Sound(nl', Online \ {u})
    BY <1>9, <1>0, <1>00 DEF OnUserQuit
  <2>4. on' \in [Chans -> SUBSET (Online \ {u})]
    BY <1>9, <1>0 DEF OnUserQuit
  <2>5. QED
    BY <2>2, <2>3, <2>4 DEF IInv
<1>10. ASSUME NEW u \in Users,
              OnUserMode(u) \/ OnTopicUpdated(u) \/ (\E f \in {"s", "S"} : OnPostCommand(u, f))
              \/ (\E ts \in AtMostOne(Users) : OnChannelMode(u, ts))
       PROVE IInv'
  <2>1. UNCHANGED <<who, on>> /\ (nl' = nl \/ nl' = DelMatch(nl, u))
    BY <1>10 DEF OnUserMode, OnTopicUpdated, OnPostCommand, OnChannelMode
  <2>2. QED
    BY <2>1, <1>0, <1>00, NetworkKept
<1>11. ASSUME NEW u \in Users, NEW c \in Chans, OnJoinChannel(u, c) PROVE IInv'
  <2>1. Sound(nl', Online)
    <3>1. u \in Online /\ (nl' = DelMatch(nl, u) \/ nl' = CheckChannel(nl, u, c))
      BY <1>11 DEF OnJoinChannel
    <3>2. QED
      BY <3>1, <1>00, <1>02
  <2>2. on' \in [Chans -> SUBSET Online]
    BY <1>11, <1>0 DEF OnJoinChannel
  <2>3. QED
    BY <2>1, <2>2, <1>11, <1>0 DEF OnJoinChannel, IInv, Online
<1>12. ASSUME NEW u \in Users, NEW c \in Chans,
              OnPartChannel(u, c) \/ (\E by \in AtMostOne(Users) : OnUserKicked(by, u, c))
       PROVE IInv'
  <2>1. who' = who /\ on' = [on EXCEPT ![c] = @ \ {u}] /\ (nl' = nl \/ nl' = DelMatch(nl, u))
    BY <1>12 DEF OnPartChannel, OnUserKicked
  <2>2. Sound(nl', Online)
    BY <2>1, <1>0, <1>00
  <2>3. on' \in [Chans -> SUBSET Online]
    BY <2>1, <1>0
  <2>4. QED
    BY <2>1, <2>2, <2>3, <1>0 DEF IInv, Online
<1>13. ASSUME NEW e \in Addr, NEW ne \in NewEntries, DoAdd(e, ne) PROVE IInv'
  <2> DEFINE old == Seek(nl, ne.mask)
             n == DelNotify(old, Found(old, ne.mask))
             a == AddNotify(n, e, ne)
  <2> HIDE DEF n
  <2>0. Sound(old, Online)
    BY <1>0, SeekSound
  <2>1. Sound(n, Online)
    BY <2>0, DelNotifySound DEF n
  <2>2. Sound(a, Online) /\ e \in Live(a)
    <3>1. Sound(a, Online) /\ Live(a) = Live(n) \union {e}
      BY <2>1, AddNotifySound
    <3>2. QED
      BY <3>1
  <2>3. MatchedBy(ne.mask) \subseteq Online
    BY <1>0 DEF MatchedBy
  <2>4. nl' = AddMatches(a, MatchedBy(ne.mask) \X {e}) /\ UNCHANGED <<who, on>>
    BY <1>13 DEF DoAdd, Command, n
  <2> HIDE DEF a
  <2>5. Sound(nl', Online)
    BY <2>2, <2>3, <2>4, AddMatchesSound
  <2>6. QED
    BY <2>4, <2>5, NetworkKept
<1>14. ASSUME NEW m \in Masks, DoDel(m) PROVE IInv'
  <2>1. Sound(Seek(nl, m), Online)
    BY <1>0, SeekSound
  <2>2. Sound(nl', Online) /\ UNCHANGED <<who, on>>
    BY <1>14, <2>1, DelNotifySound DEF DoDel, Command
  <2>3. QED
    BY <2>2, NetworkKept
<1>15. ASSUME NEW kind \in {"del", "list"}, NEW ks \in Numbers, StartNumbers(kind, ks) PROVE IInv'
  BY <1>15, <1>0, NetworkKept DEF StartNumbers
<1>16. CASE HandleNumber
  <2>1. UNCHANGED <<who, on>> /\ \E es : nl' = DelNotify(nl, es)
    BY <1>16 DEF HandleNumber
  <2>2. QED
    BY <2>1, <1>0, DelNotifySound, NetworkKept
<1>17. CASE ProcessList
  BY <1>17, <1>0, PurgeSound, NetworkKept DEF ProcessList, Command
<1>18. CASE DoClear
  BY <1>18, <1>0, DelNotifySound, NetworkKept DEF DoClear, Command
<1>19. ASSUME NEW u \in Users, DoRemove(u) PROVE IInv'
  BY <1>19, <1>0, <1>00, NetworkKept DEF DoRemove, Command
<1>20. CASE NetworkEvent
  BY <1>20, <1>5, <1>6, <1>7, <1>8, <1>9, <1>10, <1>11, <1>12 DEF NetworkEvent
<1>21. CASE Execute
  BY <1>21, <1>13, <1>14, <1>15, <1>16, <1>17, <1>18, <1>19 DEF Execute
<1>22. QED
  BY <1>1, <1>2, <1>3, <1>4, <1>20, <1>21 DEF Next

\* Initially nobody is matched.
LEMMA Initially == Init => IInv
<1> SUFFICES ASSUME Init PROVE IInv
  OBVIOUS
<1>1. who = [u \in DOMAIN who |-> who[u]] /\ on \in [Chans -> SUBSET Online]
  BY DEF Init
<1>2. Sound(nl, Online)
  BY DEF Init, Sound, Shape, Live
<1>3. QED
  BY <1>1, <1>2 DEF IInv

\* For any number of entries, users, channels and masks, and any sequence of
\* network events, commands and expiries, the maps are sound.
THEOREM Invariance == Spec => []IInv
<1>1. QED
  BY Initially, Inductive, PTL DEF Spec

\* The two maps mirror each other and no pair points at a deleted entry or at
\* a user who has left.
THEOREM NoDanglingPairs == Spec => []MapsAgree
<1>1. IInv => MapsAgree
  BY DEF IInv, Sound, MapsAgree
<1>2. QED
  BY <1>1, Invariance, PTL

-----------------------------------------------------------------------------
(* Reports *)

\* Nothing is reported before the module is there.
SilentAtFirst == ~loaded => said = {}

\* An event is handled when the module is there, and no command is at work.
LEMMA EventsFindTheModule == NetworkEvent => Handler
<1> SUFFICES ASSUME NetworkEvent PROVE Handler
  OBVIOUS
<1>1. CASE OnUplinkSync \/ Tick
  BY <1>1 DEF OnUplinkSync, Tick
<1>2. ASSUME NEW u \in Users, NEW i \in Idents,
             OnUserConnect(u, i) \/ OnUserNickChange(u, i) \/ IdentityChange(u, i)
      PROVE  Handler
  BY <1>2 DEF OnUserConnect, OnUserNickChange, IdentityChange
<1>3. ASSUME NEW u \in Users,
             OnUserQuit(u) \/ OnUserMode(u) \/ OnTopicUpdated(u)
             \/ (\E f \in {"s", "S"} : OnPostCommand(u, f))
             \/ (\E ts \in AtMostOne(Users) : OnChannelMode(u, ts))
      PROVE  Handler
  BY <1>3 DEF OnUserQuit, OnUserMode, OnTopicUpdated, OnPostCommand, OnChannelMode
<1>4. ASSUME NEW u \in Users, NEW c \in Chans,
             OnJoinChannel(u, c) \/ OnPartChannel(u, c)
             \/ (\E by \in AtMostOne(Users) : OnUserKicked(by, u, c))
      PROVE  Handler
  BY <1>4 DEF OnJoinChannel, OnPartChannel, OnUserKicked
<1>5. QED
  BY <1>1, <1>2, <1>3, <1>4 DEF NetworkEvent

\* Every handler needs the module; what runs before it reports nothing.
LEMMA SilentInductive == SilentAtFirst /\ [Next]_vars => SilentAtFirst'
<1> SUFFICES ASSUME SilentAtFirst, [Next]_vars PROVE SilentAtFirst'
  OBVIOUS
<1>1. CASE UNCHANGED vars
  BY <1>1 DEF vars, SilentAtFirst
<1>2. CASE (\E e \in Addr, ne \in NewEntries : Unserialize(e, ne)) \/ OSNotify
  BY <1>2 DEF Unserialize, OSNotify, SilentAtFirst
<1>3. CASE \E x \in Excludes : OnReload(x)
  BY <1>3 DEF OnReload, SilentAtFirst
<1>4. CASE NetworkEvent
  BY <1>4, EventsFindTheModule DEF SilentAtFirst, Handler
<1>5. CASE Execute
  BY <1>5 DEF Execute, Handler, Command, DoAdd, DoDel, StartNumbers, HandleNumber,
              ProcessList, DoClear, DoRemove, SilentAtFirst
<1>6. QED
  BY <1>1, <1>2, <1>3, <1>4, <1>5 DEF Next

\* Who is due a report: matched by an entry, and not excluded as what they
\* are, or were when they quit.
Due(u) ==
  /\ \E p \in nl.matchUser \union nl'.matchUser : p[1] = u
  /\ ~IsExcluded(u, IF u \in Online' THEN who' ELSE who)

\* A flag is found with an entry that matches.
LEMMA FlaggedIsMatched ==
  ASSUME NEW n, NEW u, NEW f, HasFlag(n, u, f)
  PROVE  \E p \in n.matchUser : p[1] = u
BY DEF HasFlag

\* Whom a handler reports after looking for a flag, before or after it has
\* changed the list, is due.
LEMMA FlaggedIsDue ==
  ASSUME NEW u, NEW f, HasFlag(nl, u, f) \/ HasFlag(nl', u, f),
         ~IsExcluded(u, IF u \in Online' THEN who' ELSE who)
  PROVE  Due(u)
BY FlaggedIsMatched DEF Due

\* Every step reports only whom it should.
LEMMA StepsReportTheDue ==
  IInv /\ SilentAtFirst /\ [Next]_vars =>
    [\A u \in said' :
        /\ \E p \in nl.matchUser \union nl'.matchUser : p[1] = u
        /\ ~IsExcluded(u, IF u \in Online' THEN who' ELSE who)]_vars
<1> SUFFICES ASSUME IInv, SilentAtFirst, [Next]_vars, vars' # vars, NEW x \in said'
             PROVE  Due(x)
  BY DEF Due
<1>0. who = [u \in DOMAIN who |-> who[u]] /\ on \in [Chans -> SUBSET Online]
  BY DEF IInv
<1>1. CASE (\E e \in Addr, ne \in NewEntries : Unserialize(e, ne)) \/ OSNotify
  BY <1>1 DEF Unserialize, OSNotify, SilentAtFirst
<1>2. CASE (\E y \in Excludes : OnReload(y)) \/ Execute
  BY <1>2 DEF OnReload, Execute, Command, DoAdd, DoDel, StartNumbers, HandleNumber,
              ProcessList, DoClear, DoRemove
<1>3. CASE OnUplinkSync \/ Tick
  BY <1>3 DEF OnUplinkSync, Tick
<1>4. ASSUME NEW u \in Users, NEW i \in Idents, OnUserConnect(u, i) PROVE Due(x)
  <2>1. x = u /\ ~IsExcluded(u, who') /\ HasFlag(nl', u, "c")
    BY <1>4 DEF OnUserConnect
  <2>2. u \in Online'
    BY <1>4 DEF OnUserConnect, Online, Put
  <2>3. QED
    BY <2>1, <2>2, FlaggedIsDue
<1>5. ASSUME NEW u \in Users, NEW i \in Idents, OnUserNickChange(u, i) PROVE Due(x)
  <2>1. x = u /\ ~IsExcluded(u, who') /\ HasFlag(nl', u, "n")
    BY <1>5 DEF OnUserNickChange
  <2>2. u \in Online'
    BY <1>5, <1>0 DEF OnUserNickChange, Online
  <2>3. QED
    BY <2>1, <2>2, FlaggedIsDue
<1>6. ASSUME NEW u \in Users, NEW i \in Idents, IdentityChange(u, i) PROVE Due(x)
  BY <1>6 DEF IdentityChange
<1>7. ASSUME NEW u \in Users, OnUserQuit(u) PROVE Due(x)
  <2>1. x = u /\ ~IsExcluded(u, who) /\ HasFlag(nl, u, "d")
    BY <1>7 DEF OnUserQuit
  <2>2. u \notin Online'
    BY <1>7 DEF OnUserQuit, Online, Restrict
  <2>3. QED
    BY <2>1, <2>2, FlaggedIsDue
<1>8. ASSUME NEW u \in Users, OnUserMode(u) PROVE Due(x)
  <2>1. x = u /\ ~IsExcluded(u, who) /\ HasFlag(nl, u, "u") /\ who' = who
    BY <1>8 DEF OnUserMode
  <2>2. QED
    BY <2>1, FlaggedIsDue
<1>9. ASSUME NEW u \in Users, OnTopicUpdated(u) \/ (\E f \in {"s", "S"} : OnPostCommand(u, f))
      PROVE Due(x)
  <2>1. x = u /\ ~IsExcluded(u, who) /\ who' = who /\ \E f : HasFlag(nl, u, f)
    BY <1>9 DEF OnTopicUpdated, OnPostCommand
  <2>2. QED
    BY <2>1, FlaggedIsDue
<1>10. ASSUME NEW u \in Users, NEW ts \in AtMostOne(Users), OnChannelMode(u, ts) PROVE Due(x)
  <2>1. HasFlag(nl, x, "m") /\ x \in ts \union {u} /\ ~IsExcluded(x, who) /\ who' = who
    BY <1>10 DEF OnChannelMode
  <2>2. QED
    BY <2>1, FlaggedIsDue
<1>11. ASSUME NEW u \in Users, NEW c \in Chans, OnJoinChannel(u, c) PROVE Due(x)
  <2>1. x = u /\ ~IsExcluded(u, who) /\ HasFlag(nl', u, "j") /\ who' = who
    BY <1>11 DEF OnJoinChannel
  <2>2. QED
    BY <2>1, FlaggedIsDue
<1>12. ASSUME NEW u \in Users, NEW c \in Chans, OnPartChannel(u, c) PROVE Due(x)
  <2>1. x = u /\ ~IsExcluded(u, who) /\ HasFlag(nl, u, "p") /\ who' = who
    BY <1>12 DEF OnPartChannel
  <2>2. QED
    BY <2>1, FlaggedIsDue
<1>13. ASSUME NEW u \in Users, NEW c \in Chans, NEW by \in AtMostOne(Users), OnUserKicked(by, u, c)
       PROVE  Due(x)
  <2>1. ~IsExcluded(x, who) /\ HasFlag(nl', x, "k") /\ who' = who
    BY <1>13 DEF OnUserKicked
  <2>2. QED
    BY <2>1, FlaggedIsDue
<1>14. CASE NetworkEvent
  BY <1>14, <1>3, <1>4, <1>5, <1>6, <1>7, <1>8, <1>9, <1>10, <1>11, <1>12, <1>13 DEF NetworkEvent
<1>15. QED
  BY <1>1, <1>2, <1>14 DEF Next

\* Whoever a handler reports is matched by an entry and is not excluded, for
\* any users, entries, flags and exclusions.
THEOREM ReportsHold == Spec => ReportsAreDue
<1>1. Init => SilentAtFirst
  BY DEF Init, SilentAtFirst
<1>2. Spec => []SilentAtFirst
  BY <1>1, SilentInductive, PTL DEF Spec
<1>3. QED
  BY <1>2, Invariance, StepsReportTheDue, PTL DEF Spec, ReportsAreDue

-----------------------------------------------------------------------------
(* Matches *)

\* The entries of d that cover user u, as i, match them.
Watched(d, u, i) == \A e \in Live(d) : SeesUser(d, e, i) => <<u, e>> \in d.matchUser

\* From n to d a match is lost only with its entry.
LostWithEntry(n, d) == \A p \in n.matchUser \ d.matchUser : p[2] \notin Live(d)

\* Deleting entries takes their matches along, and no other.
LEMMA DelNotifyLoses ==
  ASSUME NEW n, NEW es
  PROVE  LostWithEntry(n, DelNotify(n, es)) /\ Live(DelNotify(n, es)) = Live(n) \ es
<1> DEFINE d == DelNotify(n, es)
<1>1. d.matchUser = {p \in n.matchUser : p[2] \notin es} /\ Live(d) = Live(n) \ es
  BY DEF DelNotify, Restrict, Live
<1> HIDE DEF d
<1>2. QED
  BY <1>1 DEF LostWithEntry, d

\* What a look-up that adds matches loses, and gains.
LEMMA AddMatchesKeeps ==
  ASSUME NEW n, NEW es, NEW pairs
  PROVE  /\ LostWithEntry(n, AddMatches(DelNotify(n, es), pairs))
         /\ Live(AddMatches(DelNotify(n, es), pairs)) = Live(DelNotify(n, es))
         /\ pairs \subseteq AddMatches(DelNotify(n, es), pairs).matchUser
         /\ AddMatches(DelNotify(n, es), pairs).entry = DelNotify(n, es).entry
<1> DEFINE g == DelNotify(n, es)
           d == AddMatches(g, pairs)
<1>1. LostWithEntry(n, g)
  BY DelNotifyLoses
<1> HIDE DEF g
<1>2. d.matchUser = g.matchUser \union pairs /\ d.entry = g.entry
  BY DEF AddMatches
<1>3. Live(d) = Live(g)
  BY <1>2 DEF Live
<1> HIDE DEF d
<1>4. QED
  BY <1>1, <1>2, <1>3 DEF LostWithEntry, d, g

\* CheckUser matches a user who is not exempt by every entry that covers them.
LEMMA CheckUserWatches ==
  ASSUME NEW n, NEW u, NEW w
  PROVE  /\ LostWithEntry(n, CheckUser(n, u, w))
         /\ ~Exempt(u, w) => Watched(CheckUser(n, u, w), u, w[u])
<1> DEFINE g == GetNotifies(n)
           pairs == {<<u, e>> : e \in {x \in Live(g) : SeesUser(g, x, w[u])}}
           d == AddMatches(g, pairs)
<1>1. CheckUser(n, u, w) = IF Exempt(u, w) THEN g ELSE d
  BY DEF CheckUser
<1>2. LostWithEntry(n, g)
  BY DelNotifyLoses DEF GetNotifies
<1>3. LostWithEntry(n, d) /\ Live(d) = Live(g) /\ pairs \subseteq d.matchUser /\ d.entry = g.entry
  <2> HIDE DEF pairs
  <2>1. QED
    BY AddMatchesKeeps DEF GetNotifies
<1>4. \A e \in Live(g) : SeesUser(g, e, w[u]) => <<u, e>> \in pairs
  OBVIOUS
<1> HIDE DEF g, pairs, d
<1>5. Watched(d, u, w[u])
  BY <1>3, <1>4 DEF Watched, SeesUser
<1>6. QED
  BY <1>1, <1>2, <1>3, <1>5

\* CheckChannel loses no match but with its entry.
LEMMA CheckChannelLoses ==
  ASSUME NEW n, NEW u, NEW c
  PROVE  LostWithEntry(n, CheckChannel(n, u, c))
<1> DEFINE g == GetNotifies(n)
           pairs == {<<u, e>> : e \in {x \in Live(g) : SeesChan(g, x, c)}}
           d == AddMatches(g, pairs)
<1>1. CheckChannel(n, u, c) = IF Exempt(u, who) THEN g ELSE d
  BY DEF CheckChannel
<1>2. LostWithEntry(n, g)
  BY DelNotifyLoses DEF GetNotifies
<1>3. LostWithEntry(n, d)
  <2> HIDE DEF pairs
  <2>1. QED
    BY AddMatchesKeeps DEF GetNotifies
<1> HIDE DEF g, pairs, d
<1>4. QED
  BY <1>1, <1>2, <1>3

\* The scan at the sync matches everybody who is not exempt.
LEMMA RescanWatches ==
  ASSUME NEW n
  PROVE  /\ LostWithEntry(n, Rescan(n))
         /\ \A u \in Online : ~Exempt(u, who) => Watched(Rescan(n), u, who[u])
<1> DEFINE g == GetNotifies(n)
           pairs == {p \in Online \X Live(g) : ~Exempt(p[1], who) /\ SeesUser(g, p[2], who[p[1]])}
           d == AddMatches(g, pairs)
<1>1. Rescan(n) = d
  BY DEF Rescan
<1>2. LostWithEntry(n, d) /\ Live(d) = Live(g) /\ pairs \subseteq d.matchUser /\ d.entry = g.entry
  <2> HIDE DEF pairs
  <2>1. QED
    BY AddMatchesKeeps DEF GetNotifies
<1>3. \A u \in Online : ~Exempt(u, who) =>
        \A e \in Live(g) : SeesUser(g, e, who[u]) => <<u, e>> \in pairs
  OBVIOUS
<1> HIDE DEF g, pairs, d
<1>4. \A u \in Online : ~Exempt(u, who) => Watched(d, u, who[u])
  BY <1>2, <1>3 DEF Watched, SeesUser
<1>5. QED
  BY <1>1, <1>2, <1>4

\* Services sync in one handler only.
LEMMA SyncIsOneHandler ==
  ASSUME Next, loaded, ~synced, synced'
  PROVE  OnUplinkSync
<1>1. CASE (\E e \in Addr, ne \in NewEntries : Unserialize(e, ne)) \/ OSNotify
  BY <1>1 DEF Unserialize, OSNotify
<1>2. CASE (\E y \in Excludes : OnReload(y)) \/ Execute
  BY <1>2 DEF OnReload, Execute, Command, DoAdd, DoDel, StartNumbers, HandleNumber,
              ProcessList, DoClear, DoRemove
<1>3. CASE OnUplinkSync \/ Tick
  BY <1>3 DEF Tick
<1>4. ASSUME NEW u \in Users, NEW i \in Idents,
             OnUserConnect(u, i) \/ OnUserNickChange(u, i) \/ IdentityChange(u, i)
      PROVE  FALSE
  BY <1>4 DEF OnUserConnect, OnUserNickChange, IdentityChange
<1>5. ASSUME NEW u \in Users,
             OnUserQuit(u) \/ OnUserMode(u) \/ OnTopicUpdated(u)
             \/ (\E f \in {"s", "S"} : OnPostCommand(u, f))
             \/ (\E ts \in AtMostOne(Users) : OnChannelMode(u, ts))
      PROVE  FALSE
  BY <1>5 DEF OnUserQuit, OnUserMode, OnTopicUpdated, OnPostCommand, OnChannelMode
<1>6. ASSUME NEW u \in Users, NEW c \in Chans,
             OnJoinChannel(u, c) \/ OnPartChannel(u, c)
             \/ (\E by \in AtMostOne(Users) : OnUserKicked(by, u, c))
      PROVE  FALSE
  BY <1>6 DEF OnJoinChannel, OnPartChannel, OnUserKicked
<1>7. CASE NetworkEvent
  BY <1>7, <1>3, <1>4, <1>5, <1>6 DEF NetworkEvent
<1>8. QED
  BY <1>1, <1>2, <1>7 DEF Next

\* Users come online by connecting.
LEMMA ArrivalIsConnect ==
  ASSUME IInv, Next, NEW v, v \in Online', v \notin Online
  PROVE  \E i \in Idents : OnUserConnect(v, i)
<1>0. who = [u \in DOMAIN who |-> who[u]] /\ on \in [Chans -> SUBSET Online]
  BY DEF IInv
<1>1. CASE (\E e \in Addr, ne \in NewEntries : Unserialize(e, ne)) \/ OSNotify
  BY <1>1 DEF Unserialize, OSNotify, Online
<1>2. CASE (\E y \in Excludes : OnReload(y)) \/ Execute
  BY <1>2 DEF OnReload, Execute, Command, DoAdd, DoDel, StartNumbers, HandleNumber,
              ProcessList, DoClear, DoRemove, Online
<1>3. CASE OnUplinkSync \/ Tick
  BY <1>3 DEF OnUplinkSync, Tick, Online
<1>4. ASSUME NEW u \in Users, NEW i \in Idents, OnUserConnect(u, i)
      PROVE  \E j \in Idents : OnUserConnect(v, j)
  <2>1. Online' = Online \union {u}
    BY <1>4, <1>0, Connected DEF OnUserConnect, Online
  <2>2. QED
    BY <2>1, <1>4
<1>5. ASSUME NEW u \in Users, NEW i \in Idents, OnUserNickChange(u, i) \/ IdentityChange(u, i)
      PROVE  FALSE
  BY <1>5, <1>0 DEF OnUserNickChange, IdentityChange, Online
<1>6. ASSUME NEW u \in Users, OnUserQuit(u) PROVE FALSE
  <2>1. Online' = Online \ {u}
    BY <1>6 DEF OnUserQuit, Restrict, Online
  <2>2. QED
    BY <2>1
<1>7. ASSUME NEW u \in Users,
             OnUserMode(u) \/ OnTopicUpdated(u) \/ (\E f \in {"s", "S"} : OnPostCommand(u, f))
             \/ (\E ts \in AtMostOne(Users) : OnChannelMode(u, ts))
      PROVE  FALSE
  BY <1>7 DEF OnUserMode, OnTopicUpdated, OnPostCommand, OnChannelMode, Online
<1>8. ASSUME NEW u \in Users, NEW c \in Chans,
             OnJoinChannel(u, c) \/ OnPartChannel(u, c)
             \/ (\E by \in AtMostOne(Users) : OnUserKicked(by, u, c))
      PROVE  FALSE
  BY <1>8 DEF OnJoinChannel, OnPartChannel, OnUserKicked, Online
<1>9. CASE NetworkEvent
  BY <1>9, <1>3, <1>4, <1>5, <1>6, <1>7, <1>8 DEF NetworkEvent
<1>10. QED
  BY <1>1, <1>2, <1>9 DEF Next

\* Why a match p may be lost.
MayLose(p) ==
  \/ p[1] \notin Online' \/ IsExcluded(p[1], who') \/ DoRemove(p[1])
  \/ p[2] \notin Live(nl)' \/ \E ne \in NewEntries : DoAdd(p[2], ne)

\* Forgetting one user loses the matches of nobody else.
LEMMA DelMatchLoses ==
  ASSUME NEW n, NEW u, NEW p \in n.matchUser, p \notin DelMatch(n, u).matchUser
  PROVE  p[1] = u
BY DEF DelMatch

\* Every step that loses a match has one of the reasons.
LEMMA LossHasReason ==
  ASSUME IInv, Next, loaded, Idle, NEW p \in nl.matchUser, p \notin nl'.matchUser
  PROVE  MayLose(p)
<1>0. who = [u \in DOMAIN who |-> who[u]] /\ on \in [Chans -> SUBSET Online]
  BY DEF IInv
<1>1. ASSUME LostWithEntry(nl, nl') PROVE MayLose(p)
  BY <1>1 DEF LostWithEntry, MayLose, Live
<1>2. CASE (\E e \in Addr, ne \in NewEntries : Unserialize(e, ne)) \/ OSNotify
  BY <1>2 DEF Unserialize, OSNotify
<1>3. CASE \E y \in Excludes : OnReload(y)
  BY <1>3 DEF OnReload
<1>4. CASE OnUplinkSync
  <2>1. LostWithEntry(nl, nl')
    BY <1>4, RescanWatches DEF OnUplinkSync
  <2>2. QED
    BY <1>1, <2>1
<1>5. CASE Tick
  BY <1>5 DEF Tick
<1>6. ASSUME NEW u \in Users, NEW i \in Idents, OnUserConnect(u, i) PROVE MayLose(p)
  <2>1. nl' = nl \/ nl' = CheckUser(nl, u, who')
    BY <1>6 DEF OnUserConnect
  <2>2. QED
    BY <1>1, <2>1, CheckUserWatches
<1>7. ASSUME NEW u \in Users, NEW i \in Idents, OnUserNickChange(u, i) \/ IdentityChange(u, i)
      PROVE  MayLose(p)
  <2>1. nl' = nl \/ nl' = CheckUser(nl, u, who') \/ (nl' = DelMatch(nl, u) /\ IsExcluded(u, who'))
    BY <1>7 DEF OnUserNickChange, IdentityChange
  <2>2. QED
    BY <1>1, <2>1, CheckUserWatches, DelMatchLoses DEF MayLose
<1>8. ASSUME NEW u \in Users, OnUserQuit(u) PROVE MayLose(p)
  <2>1. u \notin Online' /\ nl' = DelMatch(nl, u)
    BY <1>8 DEF OnUserQuit, Restrict, Online
  <2>2. QED
    BY <2>1, DelMatchLoses DEF MayLose
<1>9. ASSUME NEW u \in Users,
             OnUserMode(u) \/ OnTopicUpdated(u) \/ (\E f \in {"s", "S"} : OnPostCommand(u, f))
             \/ (\E ts \in AtMostOne(Users) : OnChannelMode(u, ts))
      PROVE  MayLose(p)
  <2>1. nl' = nl \/ (nl' = DelMatch(nl, u) /\ IsExcluded(u, who'))
    BY <1>9 DEF OnUserMode, OnTopicUpdated, OnPostCommand, OnChannelMode, IsExcluded
  <2>2. QED
    BY <2>1, DelMatchLoses DEF MayLose
<1>10. ASSUME NEW u \in Users, NEW c \in Chans, OnJoinChannel(u, c) PROVE MayLose(p)
  <2>1. nl' = CheckChannel(nl, u, c) \/ (nl' = DelMatch(nl, u) /\ IsExcluded(u, who'))
    BY <1>10 DEF OnJoinChannel, IsExcluded
  <2>2. QED
    BY <1>1, <2>1, CheckChannelLoses, DelMatchLoses DEF MayLose
<1>11. ASSUME NEW u \in Users, NEW c \in Chans,
              OnPartChannel(u, c) \/ (\E by \in AtMostOne(Users) : OnUserKicked(by, u, c))
       PROVE  MayLose(p)
  <2>1. nl' = nl \/ (nl' = DelMatch(nl, u) /\ IsExcluded(u, who'))
    BY <1>11 DEF OnPartChannel, OnUserKicked, IsExcluded
  <2>2. QED
    BY <2>1, DelMatchLoses DEF MayLose
<1>12. ASSUME NEW e \in Addr, NEW ne \in NewEntries, DoAdd(e, ne) PROVE MayLose(p)
  <2> DEFINE old == Seek(nl, ne.mask)
             n == DelNotify(old, Found(old, ne.mask))
             a == AddNotify(n, e, ne)
  <2>1. LostWithEntry(nl, old)
    BY DelNotifyLoses DEF Seek
  <2> HIDE DEF old
  <2>2. LostWithEntry(old, n) /\ Live(n) \subseteq Live(old)
    BY DelNotifyLoses
  <2> HIDE DEF old, n
  <2>3. a.matchUser = n.matchUser /\ Live(a) = Live(n) \union {e}
    BY DEF AddNotify, Put, Live
  <2>4. nl' = AddMatches(a, MatchedBy(ne.mask) \X {e})
    BY <1>12 DEF DoAdd, n, old
  <2> HIDE DEF a
  <2>5. n.matchUser \subseteq nl'.matchUser /\ Live(nl') = Live(n) \union {e}
    BY <2>3, <2>4 DEF AddMatches, Live
  <2>6. p[2] \notin Live(n)
    BY <2>1, <2>2, <2>5 DEF LostWithEntry
  <2>7. p[2] \notin Live(nl') \/ p[2] = e
    BY <2>5, <2>6
  <2>8. QED
    BY <2>7, <1>12 DEF MayLose, Live
<1>13. ASSUME NEW m \in Masks, DoDel(m) PROVE MayLose(p)
  <2> DEFINE old == Seek(nl, m)
             n == DelNotify(old, Found(old, m))
  <2>1. LostWithEntry(nl, old)
    BY DelNotifyLoses DEF Seek
  <2> HIDE DEF old
  <2>2. LostWithEntry(old, n) /\ Live(n) \subseteq Live(old)
    BY DelNotifyLoses
  <2>3. nl' = n
    BY <1>13 DEF DoDel, old
  <2> HIDE DEF old, n
  <2>4. QED
    BY <1>1, <2>1, <2>2, <2>3 DEF LostWithEntry
<1>14. CASE \E kind \in {"del", "list"}, ks \in Numbers : StartNumbers(kind, ks)
  BY <1>14 DEF StartNumbers
<1>15. CASE HandleNumber
  BY <1>15 DEF HandleNumber
<1>16. CASE ProcessList \/ DoClear
  BY <1>1, <1>16, DelNotifyLoses DEF ProcessList, DoClear, GetNotifies
<1>17. ASSUME NEW u \in Users, DoRemove(u) PROVE MayLose(p)
  <2>1. nl' = DelMatch(nl, u)
    BY <1>17 DEF DoRemove
  <2>2. QED
    BY <2>1, <1>17, DelMatchLoses DEF MayLose
<1>18. CASE NetworkEvent
  BY <1>18, <1>4, <1>5, <1>6, <1>7, <1>8, <1>9, <1>10, <1>11 DEF NetworkEvent
<1>19. CASE Execute
  BY <1>19, <1>12, <1>13, <1>14, <1>15, <1>16, <1>17 DEF Execute
<1>20. QED
  BY <1>2, <1>3, <1>18, <1>19 DEF Next

\* Whoever comes under watch in a step.
Comes(u) ==
  /\ synced' /\ ~Exempt(u, who)'
  /\ (u \notin Online \/ ~synced \/ (who # who' /\ OnUserNickChange(u, who'[u])))

\* Whoever comes under watch is matched.
LEMMA ComersAreWatched ==
  ASSUME IInv, Next, loaded, Idle, NEW u \in Online', Comes(u)
  PROVE  \A e \in Live(nl)' : SeesUser(nl', e, who'[u]) => <<u, e>> \in nl'.matchUser
<1>0. ~(u \in ULined) /\ who'[u] \notin excluded' /\ Live(nl)' = Live(nl')
  BY DEF Comes, Exempt, IsExcluded, Live
<1>1. CASE OnUserNickChange(u, who'[u])
  <2>1. nl' = CheckUser(nl, u, who') /\ ~Exempt(u, who')
    BY <1>0, <1>1 DEF OnUserNickChange, Handler, Exempt, IsExcluded
  <2>2. Watched(nl', u, who'[u])
    BY <2>1, CheckUserWatches
  <2>3. QED
    BY <1>0, <2>2 DEF Watched
<1>2. CASE ~synced
  <2>1. OnUplinkSync
    BY <1>2, SyncIsOneHandler DEF Comes
  <2>2. nl' = Rescan(nl) /\ who' = who /\ excluded' = excluded /\ u \in Online
    BY <2>1 DEF OnUplinkSync, Handler, Online
  <2>3. ~Exempt(u, who)
    BY <1>0, <2>2 DEF Exempt, IsExcluded
  <2>4. Watched(nl', u, who'[u])
    BY <2>2, <2>3, RescanWatches
  <2>5. QED
    BY <1>0, <2>4 DEF Watched
<1>3. CASE synced /\ u \notin Online
  <2>1. PICK i \in Idents : OnUserConnect(u, i)
    BY <1>3, ArrivalIsConnect
  <2>2. nl' = CheckUser(nl, u, who') /\ ~Exempt(u, who')
    BY <1>0, <1>3, <2>1 DEF OnUserConnect, Handler, Exempt, IsExcluded
  <2>3. Watched(nl', u, who'[u])
    BY <2>2, CheckUserWatches
  <2>4. QED
    BY <1>0, <2>3 DEF Watched
<1>4. QED
  BY <1>1, <1>2, <1>3 DEF Comes

\* A step keeps the watch.
LEMMA StepsKeepWatch ==
  IInv /\ [Next]_vars =>
    [loaded /\ Idle =>
      /\ \A u \in Online' :
           synced' /\ ~Exempt(u, who)'
           /\ (u \notin Online \/ ~synced \/ (who # who' /\ OnUserNickChange(u, who'[u]))) =>
             \A e \in Live(nl)' : SeesUser(nl', e, who'[u]) => <<u, e>> \in nl'.matchUser
      /\ \A p \in nl.matchUser \ nl'.matchUser :
           \/ p[1] \notin Online' \/ IsExcluded(p[1], who') \/ DoRemove(p[1])
           \/ p[2] \notin Live(nl)' \/ \E ne \in NewEntries : DoAdd(p[2], ne)]_vars
<1> SUFFICES ASSUME IInv, Next, loaded, Idle
             PROVE  /\ \A u \in Online' : Comes(u) =>
                        \A e \in Live(nl)' : SeesUser(nl', e, who'[u]) => <<u, e>> \in nl'.matchUser
                    /\ \A p \in nl.matchUser \ nl'.matchUser : MayLose(p)
  BY DEF Comes, MayLose
<1>1. QED
  BY ComersAreWatched, LossHasReason

\* Users who connect or change nick, or are online at the sync, are matched by
\* every entry that covers them; and no event or command loses a match
\* without one of the reasons the code has: for any users, masks and entries.
THEOREM WatchHolds == Spec => WatchIsKept
<1>1. QED
  BY Invariance, StepsKeepWatch, PTL DEF Spec, WatchIsKept

-----------------------------------------------------------------------------
(* Erasing from the vector *)

\* The places of K, numbered from the first on.
Ranks(K) == [i \in K |-> Cardinality({j \in K : j <= i})]

\* Counting the places up to each one numbers them from 1 to their number.
LEMMA RanksNumber ==
  ASSUME NEW K \in SUBSET Nat, IsFiniteSet(K)
  PROVE  /\ Cardinality(K) \in Nat
         /\ \A i \in K : Ranks(K)[i] \in 1 .. Cardinality(K)
         /\ \A i, j \in K : Ranks(K)[i] = Ranks(K)[j] => i = j
         /\ \A k \in 1 .. Cardinality(K) : \E i \in K : Ranks(K)[i] = k
<1> DEFINE n == Cardinality(K)
           Upto(i) == {j \in K : j <= i}
           r == Ranks(K)
<1>1. n \in Nat
  BY FS_CardinalityType
<1>2. \A i \in K : r[i] = Cardinality(Upto(i))
  BY DEF Ranks
<1>3. ASSUME NEW i \in K PROVE r[i] \in 1 .. n
  <2>1. Upto(i) \in SUBSET K /\ i \in Upto(i)
    OBVIOUS
  <2> HIDE DEF Upto
  <2>2. IsFiniteSet(Upto(i)) /\ Cardinality(Upto(i)) <= n
    BY <2>1, FS_Subset
  <2>3. Cardinality(Upto(i)) \in Nat /\ Cardinality(Upto(i)) # 0
    BY <2>1, <2>2, FS_CardinalityType, FS_EmptySet
  <2> HIDE DEF n, r
  <2>4. QED
    BY <1>1, <1>2, <2>2, <2>3
<1>4. ASSUME NEW i \in K, NEW j \in K, i < j PROVE r[i] # r[j]
  <2>0. \A x \in K : x <= i => x <= j
    BY <1>4
  <2>00. j <= j /\ ~(j <= i)
    BY <1>4
  <2>1. Upto(i) \in SUBSET Upto(j) /\ j \in Upto(j) /\ ~(j \in Upto(i)) /\ Upto(j) \in SUBSET K
    BY <2>0, <2>00
  <2> HIDE DEF Upto
  <2>2. IsFiniteSet(Upto(j))
    BY <2>1, FS_Subset
  <2>3. Cardinality(Upto(j)) # Cardinality(Upto(i))
    BY <2>1, <2>2, FS_Subset
  <2> HIDE DEF r
  <2>4. QED
    BY <1>2, <2>3
<1>5. \A i, j \in K : r[i] = r[j] => i = j
  <2> TAKE i, j \in K
  <2>1. i \in Nat /\ j \in Nat
    OBVIOUS
  <2>2. i < j \/ j < i \/ i = j
    BY <2>1
  <2> HIDE DEF r
  <2>3. QED
    BY <2>2, <1>4
<1>6. r \in Injection(K, 1 .. n)
  <2>1. r = [i \in K |-> r[i]] /\ DOMAIN r = K
    BY DEF Ranks
  <2> HIDE DEF r, n
  <2>2. r \in [K -> 1 .. n]
    BY <2>1, <1>3
  <2>3. QED
    BY <2>1, <2>2, <1>5 DEF Injection, IsInjective
<1>7. IsFiniteSet(1 .. n) /\ Cardinality(1 .. n) = n
  <2> HIDE DEF n
  <2>1. QED
    BY <1>1, FS_Interval
<1>8. r \in Surjection(K, 1 .. n)
  <2> HIDE DEF r
  <2>1. QED
    BY <1>6, <1>7, FS_Injection
<1>9. \A k \in 1 .. n : \E i \in K : r[i] = k
  <2> HIDE DEF r, n
  <2>1. QED
    BY <1>8 DEF Surjection
<1>10. QED
  BY <1>1, <1>3, <1>5, <1>9

\* The places of s whose entries stay.
Left(s, es) == {i \in DOMAIN s : s[i] \notin es}

\* What stays keeps its order: place k holds what stood at some place that
\* stays, every such place has a successor, and no two the same one.
LEMMA StayingPlaces ==
  ASSUME NEW S, NEW s \in Seq(S), NEW es, NEW t, t = Staying(s, es)
  PROVE  /\ Left(s, es) \in SUBSET Nat /\ IsFiniteSet(Left(s, es))
         /\ Cardinality(Left(s, es)) \in 0 .. Len(s)
         /\ DOMAIN t = 1 .. Cardinality(Left(s, es))
         /\ t = [k \in DOMAIN t |-> t[k]]
         /\ \A i \in Left(s, es) : /\ Ranks(Left(s, es))[i] \in DOMAIN t
                                   /\ t[Ranks(Left(s, es))[i]] = s[i]
         /\ \A k \in DOMAIN t : \E i \in Left(s, es) : Ranks(Left(s, es))[i] = k /\ t[k] = s[i]
<1> DEFINE K == Left(s, es)
           n == Cardinality(K)
           r == Ranks(K)
           c == [k \in 1 .. n |-> CHOOSE i \in K : Cardinality({j \in K : j <= i}) = k]
<1>0. DOMAIN s = 1 .. Len(s) /\ Len(s) \in Nat
  OBVIOUS
<1>1. K \in SUBSET (1 .. Len(s)) /\ K \in SUBSET Nat
  BY <1>0 DEF Left
<1>2. IsFiniteSet(1 .. Len(s)) /\ Cardinality(1 .. Len(s)) = Len(s)
  BY <1>0, FS_Interval
<1>3. IsFiniteSet(K) /\ n <= Len(s)
  <2> HIDE DEF K
  <2>1. QED
    BY <1>1, <1>2, FS_Subset
<1>4. /\ n \in Nat
      /\ \A i \in K : r[i] \in 1 .. n
      /\ \A i, j \in K : r[i] = r[j] => i = j
      /\ \A k \in 1 .. n : \E i \in K : r[i] = k
  <2> HIDE DEF K
  <2>1. QED
    BY <1>1, <1>3, RanksNumber
<1>5. t = [k \in 1 .. n |-> s[c[k]]]
  <2>1. t = [k \in 1 .. n |-> s[CHOOSE i \in K : Cardinality({j \in K : j <= i}) = k]]
    BY DEF Staying, Left
  <2> HIDE DEF K, n
  <2>2. QED
    BY <2>1
<1>6. \A k \in 1 .. n : c[k] \in K /\ r[c[k]] = k
  <2>1. \A i \in K : r[i] = Cardinality({j \in K : j <= i})
    BY DEF Ranks
  <2> HIDE DEF K, n, r
  <2> TAKE k \in 1 .. n
  <2>2. \E i \in K : Cardinality({j \in K : j <= i}) = k
    BY <2>1, <1>4
  <2>3. c[k] \in K /\ Cardinality({j \in K : j <= c[k]}) = k
    <3>1. c[k] = CHOOSE i \in K : Cardinality({j \in K : j <= i}) = k
      OBVIOUS
    <3> HIDE DEF c
    <3>2. QED
      BY <2>2, <3>1
  <2> HIDE DEF c
  <2>4. QED
    BY <2>1, <2>3
<1> HIDE DEF K, n, r, c
<1>7. DOMAIN t = 1 .. n /\ t = [k \in DOMAIN t |-> t[k]] /\ \A k \in 1 .. n : t[k] = s[c[k]]
  BY <1>5
<1>8. \A i \in K : c[r[i]] = i
  BY <1>4, <1>6
<1>9. \A i \in K : r[i] \in DOMAIN t /\ t[r[i]] = s[i]
  BY <1>4, <1>7, <1>8
<1>10. \A k \in DOMAIN t : \E i \in K : r[i] = k /\ t[k] = s[i]
  BY <1>6, <1>7
<1>11. n \in 0 .. Len(s)
  BY <1>0, <1>3, <1>4
<1>12. QED
  BY <1>1, <1>3, <1>7, <1>9, <1>10, <1>11 DEF K, n, r

\* Erasing takes es out of a list and nothing else, brings in no repetition
\* and makes the list no longer.
LEMMA StayingList ==
  ASSUME NEW S, NEW s \in Seq(S), NEW es, NEW t, t = Staying(s, es)
  PROVE  /\ t \in Seq(S \ es)
         /\ Range(t) = Range(s) \ es
         /\ IsInjective(s) => IsInjective(t)
         /\ DOMAIN t \subseteq DOMAIN s
<1> DEFINE K == Left(s, es)
           n == Cardinality(K)
           r == Ranks(K)
<1>1. /\ n \in 0 .. Len(s)
      /\ DOMAIN t = 1 .. n /\ t = [k \in DOMAIN t |-> t[k]]
      /\ \A i \in K : r[i] \in DOMAIN t /\ t[r[i]] = s[i]
      /\ \A k \in DOMAIN t : \E i \in K : r[i] = k /\ t[k] = s[i]
  BY StayingPlaces
<1>2. DOMAIN s = 1 .. Len(s) /\ Len(s) \in Nat /\ \A i \in DOMAIN s : s[i] \in S
  OBVIOUS
<1>3. \A i : i \in K <=> i \in DOMAIN s /\ s[i] \notin es
  BY DEF Left
<1> HIDE DEF K, n, r
<1>4. \A k \in DOMAIN t : t[k] \in S \ es
  BY <1>1, <1>2, <1>3
<1>5. t \in Seq(S \ es)
  <2>1. t \in [1 .. n -> S \ es] /\ n \in Nat
    BY <1>1, <1>2, <1>4
  <2>2. QED
    BY <2>1
<1>6. Range(t) = Range(s) \ es
  <2>1. \A k \in DOMAIN t : t[k] \in Range(s) \ es
    BY <1>1, <1>3 DEF Range
  <2>2. \A i \in DOMAIN s : s[i] \notin es => s[i] \in Range(t)
    BY <1>1, <1>3 DEF Range
  <2>3. QED
    BY <2>1, <2>2 DEF Range
<1>7. ASSUME IsInjective(s) PROVE IsInjective(t)
  <2> SUFFICES ASSUME NEW k \in DOMAIN t, NEW l \in DOMAIN t, t[k] = t[l] PROVE k = l
    BY DEF IsInjective
  <2>1. PICK i \in K : r[i] = k /\ t[k] = s[i]
    BY <1>1
  <2>2. PICK j \in K : r[j] = l /\ t[l] = s[j]
    BY <1>1
  <2>3. i = j
    BY <1>3, <1>7, <2>1, <2>2 DEF IsInjective
  <2>4. QED
    BY <2>1, <2>2, <2>3
<1>8. DOMAIN t \subseteq DOMAIN s
  BY <1>1, <1>2
<1>9. QED
  BY <1>5, <1>6, <1>7, <1>8

\* Before the first place that is erased nothing moves.
LEMMA StayingPrefix ==
  ASSUME NEW S, NEW s \in Seq(S), NEW es, NEW t, t = Staying(s, es),
         NEW m \in Nat, \A i \in 1 .. m : i \in DOMAIN s /\ s[i] \notin es
  PROVE  \A i \in 1 .. m : i \in DOMAIN t /\ t[i] = s[i]
<1> DEFINE K == Left(s, es)
           r == Ranks(K)
<1>1. \A i \in K : r[i] \in DOMAIN t /\ t[r[i]] = s[i]
  BY StayingPlaces
<1>2. TAKE i \in 1 .. m
<1>3. i \in K
  BY DEF Left
<1>4. {j \in K : j <= i} = 1 .. i
  <2>1. DOMAIN s = 1 .. Len(s) /\ Len(s) \in Nat
    OBVIOUS
  <2>2. \A j \in 1 .. i : j \in K /\ j <= i
    BY DEF Left
  <2>3. \A j \in K : j \in 1 .. Len(s)
    BY <2>1 DEF Left
  <2> HIDE DEF K
  <2>4. QED
    BY <2>1, <2>2, <2>3
<1>5. r[i] = Cardinality(1 .. i)
  <2>1. r[i] = Cardinality({j \in K : j <= i})
    BY <1>3 DEF Ranks
  <2> HIDE DEF K, r
  <2>2. QED
    BY <2>1, <1>4, Zenon
<1>6. Cardinality(1 .. i) = i
  BY FS_Interval
<1> HIDE DEF K, r
<1>7. QED
  BY <1>1, <1>3, <1>5, <1>6

-----------------------------------------------------------------------------
(* The list *)

\* The vector of n holds every live entry once, and no mask twice.
Listed(n) ==
  /\ n.notifies \in Seq(Live(n))
  /\ IsInjective(n.notifies) /\ Range(n.notifies) = Live(n)
  /\ \A e, f \in Live(n) : n.entry[e].mask = n.entry[f].mask => e = f

\* From n to d entries have been deleted, if anything.
Shrunk(n, d) ==
  \/ d.notifies = n.notifies /\ d.entry = n.entry
  \/ \E es : d.notifies = Staying(n.notifies, es) /\ d.entry = Restrict(n.entry, Live(n) \ es)

\* Deleting keeps the list sound.
LEMMA ShrunkListed ==
  ASSUME NEW n, NEW d, Listed(n), Shrunk(n, d)
  PROVE  Listed(d)
<1>1. CASE d.notifies = n.notifies /\ d.entry = n.entry
  BY <1>1 DEF Listed, Live
<1>2. ASSUME NEW es, d.notifies = Staying(n.notifies, es), d.entry = Restrict(n.entry, Live(n) \ es)
      PROVE  Listed(d)
  <2>1. d.entry = [e \in Live(n) \ es |-> n.entry[e]]
    BY <1>2 DEF Restrict
  <2>2. Live(d) = Live(n) \ es /\ \A e \in Live(d) : e \in Live(n) /\ d.entry[e] = n.entry[e]
    BY <2>1 DEF Live
  <2>3. /\ d.notifies \in Seq(Live(n) \ es)
        /\ Range(d.notifies) = Range(n.notifies) \ es
        /\ IsInjective(d.notifies)
    <3>1. n.notifies \in Seq(Live(n)) /\ IsInjective(n.notifies)
      BY DEF Listed
    <3>2. QED
      BY <3>1, <1>2, StayingList
  <2>4. QED
    BY <2>2, <2>3 DEF Listed
<1>3. QED
  BY <1>1, <1>2 DEF Shrunk

\* Deleting the entries of es shrinks the list by them.
LEMMA DelNotifyListed ==
  ASSUME NEW n, NEW es, Listed(n)
  PROVE  Listed(DelNotify(n, es)) /\ Shrunk(n, DelNotify(n, es))
<1>1. Shrunk(n, DelNotify(n, es))
  BY DEF Shrunk, DelNotify
<1>2. QED
  BY <1>1, ShrunkListed

\* An entry for a mask that no live entry has may be put at the end.
LEMMA AddNotifyListed ==
  ASSUME NEW n, NEW e, NEW ne, Listed(n), e \notin Live(n),
         \A x \in Live(n) : n.entry[x].mask # ne.mask
  PROVE  Listed(AddNotify(n, e, ne))
<1> DEFINE d == AddNotify(n, e, ne)
<1>1. d.notifies = Append(n.notifies, e) /\ d.entry = Put(n.entry, e, ne)
  BY DEF AddNotify
<1>2. Live(d) = Live(n) \union {e} /\ d.entry[e] = ne /\ \A x \in Live(n) : d.entry[x] = n.entry[x]
  BY <1>1 DEF Live, Put
<1> HIDE DEF d
<1>3. n.notifies \in Seq(Live(n)) /\ IsInjective(n.notifies) /\ Range(n.notifies) = Live(n)
  BY DEF Listed
<1>4. /\ d.notifies \in Seq(Live(d))
      /\ DOMAIN d.notifies = 1 .. (Len(n.notifies) + 1)
      /\ \A i \in 1 .. Len(n.notifies) : d.notifies[i] = n.notifies[i]
      /\ d.notifies[Len(n.notifies) + 1] = e
  <2>1. n.notifies \in Seq(Live(d)) /\ e \in Live(d)
    BY <1>2, <1>3
  <2>2. QED
    BY <1>1, <2>1
<1>5. DOMAIN n.notifies = 1 .. Len(n.notifies) /\ Len(n.notifies) \in Nat
  BY <1>3
<1>6. \A i \in 1 .. Len(n.notifies) : n.notifies[i] \in Live(n) /\ n.notifies[i] # e
  BY <1>3, <1>5
<1> DEFINE L == Len(n.notifies)
<1> HIDE DEF L
<1>7. \A i : i \in DOMAIN d.notifies <=> i \in DOMAIN n.notifies \/ i = L + 1
  BY <1>4, <1>5 DEF L
<1>8. \A i \in DOMAIN n.notifies : d.notifies[i] = n.notifies[i] /\ d.notifies[i] # e
  BY <1>4, <1>5, <1>6
<1>9. d.notifies[L + 1] = e
  BY <1>4 DEF L
<1>10. IsInjective(d.notifies)
  <2> SUFFICES ASSUME NEW i \in DOMAIN d.notifies, NEW j \in DOMAIN d.notifies,
                      d.notifies[i] = d.notifies[j]
               PROVE  i = j
    BY DEF IsInjective
  <2>1. CASE i \in DOMAIN n.notifies /\ j \in DOMAIN n.notifies
    BY <2>1, <1>3, <1>8 DEF IsInjective
  <2>2. QED
    BY <2>1, <1>7, <1>8, <1>9
<1>11. Range(d.notifies) = Live(n) \union {e}
  <2>1. Range(d.notifies) \subseteq Live(n) \union {e}
    BY <1>3, <1>7, <1>8, <1>9 DEF Range
  <2>2. Live(n) \union {e} \subseteq Range(d.notifies)
    BY <1>3, <1>7, <1>8, <1>9 DEF Range
  <2>3. QED
    BY <2>1, <2>2
<1>12. \A x, y \in Live(d) : d.entry[x].mask = d.entry[y].mask => x = y
  BY <1>2 DEF Listed
<1>13. QED
  BY <1>2, <1>4, <1>10, <1>11, <1>12 DEF Listed, d

\* Matches are no part of the list.
LEMMA AddMatchesListed ==
  ASSUME NEW n, NEW pairs
  PROVE  /\ AddMatches(n, pairs).notifies = n.notifies
         /\ AddMatches(n, pairs).entry = n.entry
BY DEF AddMatches

\* Purging, seeking, matching and forgetting only delete.
LEMMA LookupsShrink ==
  ASSUME NEW n
  PROVE  /\ \A es : Shrunk(n, DelNotify(n, es))
         /\ \A u : Shrunk(n, DelMatch(n, u))
         /\ \A u, w : Shrunk(n, CheckUser(n, u, w))
         /\ \A u, c : Shrunk(n, CheckChannel(n, u, c))
         /\ Shrunk(n, Rescan(n)) /\ Shrunk(n, GetNotifies(n))
<1>1. \A es : Shrunk(n, DelNotify(n, es))
  BY DEF Shrunk, DelNotify
<1>2. \A u : Shrunk(n, DelMatch(n, u))
  BY DEF Shrunk, DelMatch
<1> DEFINE g == GetNotifies(n)
<1>3. Shrunk(n, g)
  BY <1>1 DEF GetNotifies
<1> HIDE DEF g
<1>4. ASSUME NEW pairs PROVE Shrunk(n, AddMatches(g, pairs))
  BY <1>3, AddMatchesListed DEF Shrunk
<1>5. ASSUME NEW u, NEW w PROVE Shrunk(n, CheckUser(n, u, w))
  <2> DEFINE pairs == {<<u, e>> : e \in {x \in Live(g) : SeesUser(g, x, w[u])}}
  <2>1. CheckUser(n, u, w) = IF Exempt(u, w) THEN g ELSE AddMatches(g, pairs)
    BY DEF CheckUser, g
  <2> HIDE DEF pairs
  <2>2. QED
    BY <1>3, <1>4, <2>1
<1>6. ASSUME NEW u, NEW c PROVE Shrunk(n, CheckChannel(n, u, c))
  <2> DEFINE pairs == {<<u, e>> : e \in {x \in Live(g) : SeesChan(g, x, c)}}
  <2>1. CheckChannel(n, u, c) = IF Exempt(u, who) THEN g ELSE AddMatches(g, pairs)
    BY DEF CheckChannel, g
  <2> HIDE DEF pairs
  <2>2. QED
    BY <1>3, <1>4, <2>1
<1>7. Shrunk(n, Rescan(n))
  <2> DEFINE pairs == {p \in Online \X Live(g) : ~Exempt(p[1], who) /\ SeesUser(g, p[2], who[p[1]])}
  <2>1. Rescan(n) = AddMatches(g, pairs)
    BY DEF Rescan, g
  <2> HIDE DEF pairs
  <2>2. QED
    BY <1>4, <2>1
<1>8. QED
  BY <1>1, <1>2, <1>3, <1>5, <1>6, <1>7 DEF g

\* When ADD has looked for a mask and deleted what it found, no live entry
\* has the mask: one that has expired is met on the way to the end.
LEMMA MaskIsFree ==
  ASSUME NEW n, NEW m, Listed(n)
  PROVE  LET old == Seek(n, m)
             d   == DelNotify(old, Found(old, m))
         IN  /\ Listed(d)
             /\ Shrunk(n, old)
             /\ \A x \in Live(d) : d.entry[x].mask # m
<1> DEFINE old == Seek(n, m)
           d == DelNotify(old, Found(old, m))
<1>1. Listed(old) /\ Shrunk(n, old)
  BY DelNotifyListed DEF Seek
<1>2. old.entry = [x \in Live(n) \ (Expired(n) \intersect Passed(n, m)) |-> n.entry[x]]
  BY DEF Seek, DelNotify, Restrict
<1>3. Live(old) = Live(n) \ (Expired(n) \intersect Passed(n, m))
      /\ \A x \in Live(old) : old.entry[x] = n.entry[x]
  BY <1>2 DEF Live
<1> HIDE DEF old
<1>4. Listed(d)
  BY <1>1, DelNotifyListed
<1>5. d.entry = [x \in Live(old) \ Found(old, m) |-> old.entry[x]]
  BY DEF DelNotify, Restrict
<1>6. Live(d) = Live(old) \ Found(old, m) /\ \A x \in Live(d) : d.entry[x] = old.entry[x]
  BY <1>5 DEF Live
<1> HIDE DEF d
<1>7. ASSUME NEW x \in Live(d), d.entry[x].mask = m PROVE FALSE
  <2>1. x \in Live(old) /\ x \notin Found(old, m) /\ old.entry[x].mask = m
    BY <1>6, <1>7
  <2>2. x \in Expired(old)
    BY <2>1 DEF Found
  <2>3. x \in Expired(n) /\ n.entry[x].mask = m /\ x \notin Passed(n, m)
    BY <2>1, <2>2, <1>3 DEF Expired
  <2>4. Found(n, m) = {}
    BY <2>3 DEF Found, Expired, Listed
  <2>5. Range(n.notifies) \subseteq Passed(n, m)
    BY <2>4, Zenon DEF Passed, Range, Found
  <2>6. x \in Range(n.notifies)
    BY <2>3 DEF Expired, Listed
  <2>7. QED
    BY <2>3, <2>5, <2>6
<1>8. QED
  BY <1>1, <1>4, <1>7 DEF old, d

\* Events, and all commands but ADD and a DEL that looks for its mask, delete
\* from the list at most once.
LEMMA StepsShrink ==
  ASSUME Next
  PROVE  \/ Shrunk(nl, nl')
         \/ Tick
         \/ \E e \in Addr, ne \in NewEntries : Unserialize(e, ne) \/ DoAdd(e, ne)
         \/ \E m \in Masks : DoDel(m)
<1>0. nl' = nl => Shrunk(nl, nl')
  BY DEF Shrunk
<1>1. CASE OSNotify \/ \E y \in Excludes : OnReload(y)
  BY <1>0, <1>1, LookupsShrink DEF OSNotify, OnReload
<1>2. CASE OnUplinkSync \/ Tick
  BY <1>2, LookupsShrink DEF OnUplinkSync
<1>3. ASSUME NEW u \in Users, NEW i \in Idents,
             OnUserConnect(u, i) \/ OnUserNickChange(u, i) \/ IdentityChange(u, i)
      PROVE  Shrunk(nl, nl')
  <2>1. nl' = nl \/ nl' = DelMatch(nl, u) \/ nl' = CheckUser(nl, u, who')
    BY <1>3 DEF OnUserConnect, OnUserNickChange, IdentityChange
  <2>2. QED
    BY <1>0, <2>1, LookupsShrink
<1>4. ASSUME NEW u \in Users,
             OnUserQuit(u) \/ OnUserMode(u) \/ OnTopicUpdated(u)
             \/ (\E f \in {"s", "S"} : OnPostCommand(u, f))
             \/ (\E ts \in AtMostOne(Users) : OnChannelMode(u, ts))
      PROVE  Shrunk(nl, nl')
  <2>1. nl' = nl \/ nl' = DelMatch(nl, u)
    BY <1>4 DEF OnUserQuit, OnUserMode, OnTopicUpdated, OnPostCommand, OnChannelMode
  <2>2. QED
    BY <1>0, <2>1, LookupsShrink
<1>5. ASSUME NEW u \in Users, NEW c \in Chans,
             OnJoinChannel(u, c) \/ OnPartChannel(u, c)
             \/ (\E by \in AtMostOne(Users) : OnUserKicked(by, u, c))
      PROVE  Shrunk(nl, nl')
  <2>1. nl' = nl \/ nl' = DelMatch(nl, u) \/ nl' = CheckChannel(nl, u, c)
    BY <1>5 DEF OnJoinChannel, OnPartChannel, OnUserKicked
  <2>2. QED
    BY <1>0, <2>1, LookupsShrink
<1>6. CASE NetworkEvent
  BY <1>6, <1>2, <1>3, <1>4, <1>5 DEF NetworkEvent
<1>7. CASE \E kind \in {"del", "list"}, ks \in Numbers : StartNumbers(kind, ks)
  BY <1>0, <1>7 DEF StartNumbers
<1>8. CASE HandleNumber
  <2>1. \E es : nl' = DelNotify(nl, es)
    BY <1>8 DEF HandleNumber
  <2>2. QED
    BY <2>1, LookupsShrink
<1>9. CASE ProcessList \/ DoClear \/ \E u \in Users : DoRemove(u)
  BY <1>9, LookupsShrink DEF ProcessList, DoClear, DoRemove
<1>10. QED
  BY <1>1, <1>6, <1>7, <1>8, <1>9 DEF Next, Execute

\* DEL of a mask keeps the list sound, as every deletion does.
LEMMA DoDelListed ==
  ASSUME Listed(nl), NEW m \in Masks, DoDel(m)
  PROVE  Listed(nl')
<1> DEFINE old == Seek(nl, m)
<1>1. Listed(old)
  BY DelNotifyListed DEF Seek
<1>2. nl' = DelNotify(old, Found(old, m))
  BY DEF DoDel
<1> HIDE DEF old
<1>3. QED
  BY <1>1, <1>2, DelNotifyListed

\* What every step keeps of the list.
ListInv == Listed(nl)

\* Every step keeps the list sound.
LEMMA ListedInductive == ListInv /\ [Next]_vars => ListInv'
<1> SUFFICES ASSUME Listed(nl), [Next]_vars PROVE Listed(nl')
  BY DEF ListInv, Listed, Live
<1>1. CASE UNCHANGED vars
  BY <1>1 DEF vars
<1>2. CASE Shrunk(nl, nl')
  BY <1>2, ShrunkListed
<1>3. CASE Tick
  <2>1. /\ nl'.notifies = nl.notifies
        /\ Live(nl') = Live(nl)
        /\ \A e \in Live(nl) : nl'.entry[e].mask = nl.entry[e].mask
    BY <1>3 DEF Tick, Aged, Live
  <2>2. QED
    BY <2>1 DEF Listed
<1>4. ASSUME NEW e \in Addr, NEW ne \in NewEntries, Unserialize(e, ne) PROVE Listed(nl')
  BY <1>4, AddNotifyListed DEF Unserialize
<1>5. ASSUME NEW e \in Addr, NEW ne \in NewEntries, DoAdd(e, ne) PROVE Listed(nl')
  <2> DEFINE old == Seek(nl, ne.mask)
             n == DelNotify(old, Found(old, ne.mask))
             a == AddNotify(n, e, ne)
  <2>1. Listed(n) /\ \A x \in Live(n) : n.entry[x].mask # ne.mask
    BY MaskIsFree
  <2>2. e \notin Live(n) /\ nl' = AddMatches(a, MatchedBy(ne.mask) \X {e})
    BY <1>5 DEF DoAdd
  <2> HIDE DEF n
  <2>3. Listed(a)
    BY <2>1, <2>2, AddNotifyListed
  <2> HIDE DEF a
  <2>4. QED
    BY <2>2, <2>3, AddMatchesListed DEF Listed, Live
<1>6. QED
  BY <1>1, <1>2, <1>3, <1>4, <1>5, StepsShrink, DoDelListed

\* The vector and the heap agree, and ADD never leaves two entries for one
\* mask, although look-ups delete only what they pass.
THEOREM ListStaysSound == Spec => []ListIsSound
<1>1. Init => ListInv
  BY DEF Init, ListInv, Listed, Live, IsInjective, Range, Empty
<1>2. Spec => []ListInv
  BY <1>1, ListedInductive, PTL DEF Spec
<1>3. ListInv => ListIsSound
  BY DEF ListInv, Listed, ListIsSound
<1>4. QED
  BY <1>2, <1>3, PTL

-----------------------------------------------------------------------------
(* Number lists *)

\* The numbers that have been handled.
Done == loop.asked \ loop.todo

\* What DEL with numbers relies on: it goes downwards, so what is left of its
\* numbers lies below what it has deleted, and there nothing has moved.
Progress ==
  /\ DOMAIN loop.start = 1 .. Len(loop.start) /\ Len(loop.start) \in Nat
  /\ IsInjective(loop.start)
  /\ \A d \in Done, k \in loop.todo : k < d
  /\ Live(nl) = {loop.start[i] : i \in DOMAIN loop.start \ Done}
  /\ DOMAIN nl.notifies \subseteq DOMAIN loop.start
  /\ \A i \in DOMAIN loop.start :
       (\A d \in Done : i < d) => i \in DOMAIN nl.notifies /\ nl.notifies[i] = loop.start[i]

\* The inductive invariant of a number list at work.
LoopInv ==
  /\ loop = [todo |-> loop.todo, asked |-> loop.asked, kind |-> loop.kind, start |-> loop.start]
  /\ loop.todo \subseteq loop.asked /\ loop.asked \in Numbers
  /\ loop.todo # {} => loaded
  /\ loop.todo # {} /\ loop.kind = "del" => Progress

\* A bounded set of numbers has a largest element: the sets of elements above
\* a given one are finite, so one of them is smallest.
LEMMA BoundedMax ==
  ASSUME NEW S \in SUBSET Nat, S # {}, NEW b \in Nat, \A x \in S : x <= b
  PROVE  Max(S) \in S /\ \A x \in S : Max(S) >= x
<1> DEFINE Above(x) == {y \in S : y >= x}
           T == {Above(x) : x \in S}
<1>1. IsFiniteSet(S)
  BY FS_BoundedSetOfNaturals
<1>2. FiniteSubsetsOf(S) = SUBSET S
  BY <1>1, FS_FiniteSubsetsOfFinite
<1>3. IsWellFoundedOn(StrictSubsetOrdering(S), SUBSET S)
  BY <1>2, FS_StrictSubsetOrderingWellFounded
<1>4. T \subseteq SUBSET S /\ T # {}
  OBVIOUS
<1>5. \E t \in T : \A u \in T : ~(<<u, t>> \in StrictSubsetOrdering(S))
  <2> HIDE DEF T
  <2> QED BY <1>3, <1>4, WFMin
<1>6. PICK m \in S : \A u \in T : ~(<<u, Above(m)>> \in StrictSubsetOrdering(S))
  BY <1>5
<1>7. ASSUME NEW x \in S PROVE m >= x
  <2> SUFFICES ASSUME x > m PROVE FALSE
    OBVIOUS
  <2>1. Above(x) \subseteq Above(m) /\ m \in Above(m) /\ m \notin Above(x)
    <3>1. x \in Nat /\ m \in Nat
      OBVIOUS
    <3>2. \A y \in S : y \in Nat /\ (y >= x => y >= m)
      BY <3>1
    <3>3. ~(m >= x) /\ m >= m
      BY <3>1
    <3> QED BY <3>2, <3>3
  <2>2. <<Above(x), Above(m)>> \in StrictSubsetOrdering(S)
    <3>1. Above(x) \in SUBSET S /\ Above(m) \in SUBSET S /\ Above(x) # Above(m)
      BY <2>1
    <3> HIDE DEF Above
    <3> QED BY <2>1, <3>1 DEF StrictSubsetOrdering
  <2> QED BY <1>6, <2>2
<1> QED BY <1>7 DEF Max

\* The number lists are finite, so DEL finds their largest number.
LEMMA LargestNumber ==
  ASSUME NEW ks \in Numbers, ks # {}
  PROVE  Max(ks) \in ks /\ \A k \in ks : k \in Nat /\ Max(ks) >= k
<1>1. Cardinality(Addr) \in Nat
  BY ConfigAssumption, FS_CardinalityType
<1>2. ks \in SUBSET Nat /\ \A k \in ks : k <= Cardinality(Addr)
  BY <1>1 DEF Numbers
<1>3. QED
  BY <1>1, <1>2, BoundedMax

\* While numbers are left nothing else runs, and nothing else starts or ends
\* a number list.
LEMMA LoopAlone ==
  ASSUME Next, loop.todo # {} => loaded
  PROVE  \/ HandleNumber
         \/ \E kind \in {"del", "list"}, ks \in Numbers : StartNumbers(kind, ks)
         \/ loop.todo = {} /\ loop' = loop
<1>1. CASE OSNotify \/ (\E y \in Excludes : OnReload(y))
           \/ (\E e \in Addr, ne \in NewEntries : Unserialize(e, ne))
  BY <1>1 DEF OSNotify, OnReload, Unserialize, Idle
<1>2. CASE NetworkEvent
  BY <1>2, EventsFindTheModule DEF Handler, Idle
<1>3. CASE Execute
  BY <1>3 DEF Execute, Command, Handler, Idle, DoAdd, DoDel, ProcessList, DoClear, DoRemove
<1>4. QED
  BY <1>1, <1>2, <1>3 DEF Next

\* A list starts with nothing done.
LEMMA StartProgress ==
  ASSUME ListInv, NEW kind \in {"del", "list"}, NEW ks \in Numbers, StartNumbers(kind, ks)
  PROVE  LoopInv'
<1>1. /\ loop'.todo = ks /\ loop'.asked = ks /\ loop'.start = nl.notifies
      /\ loop' = [todo |-> loop'.todo, asked |-> loop'.asked, kind |-> loop'.kind,
                  start |-> loop'.start]
      /\ nl' = nl /\ loaded /\ loaded' = loaded
  BY DEF StartNumbers
<1>2. nl.notifies \in Seq(Live(nl)) /\ IsInjective(nl.notifies) /\ Range(nl.notifies) = Live(nl)
  BY DEF ListInv, Listed
<1>3. Progress'
  <2>1. Done' = {}
    BY <1>1 DEF Done
  <2>2. DOMAIN nl.notifies = 1 .. Len(nl.notifies) /\ Len(nl.notifies) \in Nat
    BY <1>2
  <2>3. Live(nl)' = {loop'.start[i] : i \in DOMAIN loop'.start \ Done'}
    BY <1>1, <1>2, <2>1 DEF Live, Range
  <2>4. QED
    BY <1>1, <1>2, <2>1, <2>2, <2>3 DEF Progress
<1>4. QED
  BY <1>1, <1>3 DEF LoopInv

\* What the command has deleted when the numbers D are done.
DeletedAre(D) == Live(nl)' = {loop.start[i] : i \in DOMAIN loop.start \ D}

\* DEL of the largest number left deletes the entry that stood there at the
\* start, if there was one, and moves nothing below it.
LEMMA OneNumber ==
  ASSUME ListInv, LoopInv, HandleNumber, loop.kind = "del"
  PROVE  LET k == Max(loop.todo)
         IN  /\ k \in loop.todo /\ \A j \in loop.todo : j \in Nat /\ k >= j
             /\ loop' = IF loop.todo = {k} THEN NoLoop ELSE [loop EXCEPT !.todo = @ \ {k}]
             /\ DeletedAre(Done \union {k})
             /\ (DOMAIN nl.notifies)' \subseteq DOMAIN loop.start
             /\ \A i \in DOMAIN loop.start :
                  (\A d \in Done \union {k} : i < d) =>
                    i \in DOMAIN nl'.notifies /\ nl'.notifies[i] = loop.start[i]
<1> DEFINE k == Max(loop.todo)
           es == {nl.notifies[i] : i \in {k} \intersect DOMAIN nl.notifies}
<1>1. Progress /\ loop.todo # {} /\ loop.todo \in Numbers
  BY DEF HandleNumber, Idle, LoopInv, Numbers
<1>2. k \in loop.todo /\ \A j \in loop.todo : j \in Nat /\ k >= j
  BY <1>1, LargestNumber
<1>3. nl' = DelNotify(nl, es) /\ loop' = IF loop.todo = {k} THEN NoLoop ELSE [loop EXCEPT !.todo = @ \ {k}]
  BY DEF HandleNumber
<1>4. /\ nl.notifies \in Seq(Live(nl)) /\ IsInjective(nl.notifies)
      /\ nl'.notifies = Staying(nl.notifies, es)
      /\ Live(nl)' = Live(nl) \ es
  BY <1>3, DelNotifyLoses DEF ListInv, Listed, DelNotify, Live
<1> HIDE DEF k
<1>5. /\ DOMAIN loop.start = 1 .. Len(loop.start) /\ Len(loop.start) \in Nat
      /\ IsInjective(loop.start)
      /\ \A d \in Done, j \in loop.todo : j < d
      /\ Live(nl) = {loop.start[i] : i \in DOMAIN loop.start \ Done}
      /\ DOMAIN nl.notifies \subseteq DOMAIN loop.start
      /\ \A i \in DOMAIN loop.start :
           (\A d \in Done : i < d) => i \in DOMAIN nl.notifies /\ nl.notifies[i] = loop.start[i]
  BY <1>1 DEF Progress
<1>6. k \notin Done /\ \A d \in Done : k < d
  BY <1>2, <1>5 DEF Done
<1>7. es = {loop.start[i] : i \in {k} \intersect DOMAIN loop.start}
  BY <1>5, <1>6
<1>8. DeletedAre(Done \union {k})
  <2>1. ASSUME NEW i \in DOMAIN loop.start \ Done
        PROVE  loop.start[i] \in es <=> i = k
    BY <1>5, <1>7, <2>1 DEF IsInjective
  <2> HIDE DEF es
  <2>2. QED
    BY <1>4, <1>5, <2>1 DEF DeletedAre
<1>9. (DOMAIN nl.notifies)' \subseteq DOMAIN loop.start
  <2> HIDE DEF es
  <2>1. DOMAIN Staying(nl.notifies, es) \subseteq DOMAIN nl.notifies
    BY <1>4, StayingList
  <2>2. QED
    BY <1>4, <1>5, <2>1
<1>10. ASSUME NEW i \in DOMAIN loop.start, \A d \in Done \union {k} : i < d
       PROVE  i \in DOMAIN nl'.notifies /\ nl'.notifies[i] = loop.start[i]
  <2>1. \A j \in 1 .. i : j \in DOMAIN loop.start /\ \A d \in Done \union {k} : j < d
    <3>1. \A d \in Done \union {k} : d \in Int
      BY <1>2, <1>1 DEF LoopInv, Numbers, Done
    <3>2. QED
      BY <1>5, <1>10, <3>1
  <2>2. \A j \in 1 .. i : j \in DOMAIN nl.notifies /\ nl.notifies[j] = loop.start[j]
    BY <1>5, <2>1
  <2>3. \A j \in 1 .. i : j # k
    BY <1>2, <2>1
  <2>4. \A j \in 1 .. i : nl.notifies[j] \notin es
    BY <1>4, <2>2, <2>3 DEF IsInjective
  <2>5. i \in Nat /\ i \in 1 .. i
    BY <1>5
  <2> HIDE DEF es
  <2>6. \A j \in 1 .. i : j \in DOMAIN nl'.notifies /\ nl'.notifies[j] = nl.notifies[j]
    BY <1>4, <2>2, <2>4, <2>5, StayingPrefix
  <2>7. QED
    BY <2>2, <2>5, <2>6
<1>11. QED
  BY <1>2, <1>3, <1>8, <1>9, <1>10 DEF k

\* HandleNumber keeps the invariant.
LEMMA NumberProgress ==
  ASSUME ListInv, LoopInv, HandleNumber
  PROVE  LoopInv'
<1>0. loop.todo # {} /\ loaded' = loaded /\ loaded
  BY DEF HandleNumber, Idle, LoopInv
<1>1. PICK k : /\ loop' = IF loop.todo = {k} THEN NoLoop ELSE [loop EXCEPT !.todo = @ \ {k}]
               /\ loop.kind = "del" => k = Max(loop.todo)
  BY DEF HandleNumber
<1>2. CASE loop.todo = {k}
  <2>1. loop' = NoLoop
    BY <1>1, <1>2
  <2>2. QED
    BY <2>1 DEF NoLoop, LoopInv, Numbers
<1>3. CASE loop.todo # {k}
  <2>1. /\ loop'.todo = loop.todo \ {k} /\ loop'.asked = loop.asked
        /\ loop'.kind = loop.kind /\ loop'.start = loop.start
        /\ loop' = [todo |-> loop'.todo, asked |-> loop'.asked, kind |-> loop'.kind,
                    start |-> loop'.start]
    <3>1. loop' = [loop EXCEPT !.todo = @ \ {k}]
      BY <1>1, <1>3
    <3>2. loop' = [todo |-> loop.todo \ {k}, asked |-> loop.asked, kind |-> loop.kind,
                   start |-> loop.start]
      BY <3>1 DEF LoopInv
    <3>3. QED
      BY <3>2
  <2>2. ASSUME loop.kind = "del" PROVE Progress'
    <3>1. /\ k \in loop.todo /\ \A j \in loop.todo : j \in Nat /\ k >= j
          /\ DeletedAre(Done \union {k})
          /\ (DOMAIN nl.notifies)' \subseteq DOMAIN loop.start
          /\ \A i \in DOMAIN loop.start :
               (\A d \in Done \union {k} : i < d) =>
                 i \in DOMAIN nl'.notifies /\ nl'.notifies[i] = loop.start[i]
      BY <1>1, <2>2, OneNumber
    <3>2. Progress
      BY <1>0, <2>2 DEF LoopInv
    <3>3. Done' = Done \union {k}
      BY <2>1, <3>1 DEF Done, LoopInv
    <3>4. \A d \in Done', j \in loop'.todo : j < d
      <4>1. \A d \in Done, j \in loop.todo : j < d
        BY <3>2 DEF Progress
      <4>2. \A j \in loop.todo \ {k} : j < k
        BY <3>1
      <4>3. QED
        BY <4>1, <4>2, <2>1, <3>3
    <3>5. Live(nl)' = {loop'.start[i] : i \in DOMAIN loop'.start \ Done'}
      BY <2>1, <3>1, <3>3 DEF DeletedAre
    <3>6. /\ DOMAIN loop'.start = 1 .. Len(loop'.start) /\ Len(loop'.start) \in Nat
          /\ IsInjective(loop'.start)
      BY <2>1, <3>2 DEF Progress
    <3>7. QED
      BY <2>1, <3>1, <3>3, <3>4, <3>5, <3>6 DEF Progress
  <2>3. loop'.todo \subseteq loop'.asked /\ loop'.asked \in Numbers
    BY <2>1 DEF LoopInv
  <2>4. QED
    BY <1>0, <2>1, <2>2, <2>3 DEF LoopInv
<1>4. QED
  BY <1>2, <1>3

\* Every step keeps it.
LEMMA LoopInductive == ListInv /\ LoopInv /\ [Next]_vars => LoopInv'
<1> SUFFICES ASSUME ListInv, LoopInv, [Next]_vars PROVE LoopInv'
  OBVIOUS
<1>1. CASE UNCHANGED vars
  BY <1>1 DEF vars, LoopInv, Progress, Done, Live
<1>2. CASE Next /\ loop.todo = {} /\ loop' = loop
  BY <1>2 DEF LoopInv
<1>3. QED
  BY <1>1, <1>2, LoopAlone, StartProgress, NumberProgress DEF LoopInv

\* When the last number is done, exactly the entries asked for are gone.
LEMMA LastNumber ==
  ListInv /\ LoopInv /\ [Next]_vars =>
    [loop.todo # {} /\ loop'.todo = {} /\ loop.kind = "del" =>
       \A i \in DOMAIN loop.start :
         loop.start[i] \in Live(nl)' <=> i \notin loop.asked]_vars
<1> SUFFICES ASSUME ListInv, LoopInv, Next, loop.todo # {}, loop'.todo = {}, loop.kind = "del",
                    NEW i \in DOMAIN loop.start
             PROVE  loop.start[i] \in Live(nl)' <=> i \notin loop.asked
  OBVIOUS
<1>1. HandleNumber
  <2>1. ~(\E kind \in {"del", "list"}, ks \in Numbers : StartNumbers(kind, ks))
    BY DEF StartNumbers, Idle
  <2>2. QED
    BY <2>1, LoopAlone DEF LoopInv
<1>2. PICK k : /\ k \in loop.todo
               /\ loop' = IF loop.todo = {k} THEN NoLoop ELSE [loop EXCEPT !.todo = @ \ {k}]
               /\ DeletedAre(Done \union {k})
  BY <1>1, OneNumber
<1>3. loop.todo = {k}
  <2>1. loop.todo # {k} => loop'.todo = loop.todo \ {k}
    BY <1>2 DEF LoopInv
  <2>2. QED
    BY <1>2, <2>1
<1>4. Done \union {k} = loop.asked
  BY <1>3 DEF Done, LoopInv
<1>5. IsInjective(loop.start)
  BY DEF LoopInv, Progress
<1>6. QED
  BY <1>2, <1>4, <1>5 DEF DeletedAre, IsInjective

\* DEL with any list of numbers deletes the entries that stood at these
\* positions when it began, and no other.
THEOREM NumbersHold == Spec => NumbersNameEntries
<1>1. Init => ListInv /\ LoopInv
  BY DEF Init, ListInv, Listed, Live, IsInjective, Range, Empty, LoopInv, NoLoop, Numbers
<1>2. Spec => [](ListInv /\ LoopInv)
  BY <1>1, ListedInductive, LoopInductive, PTL DEF Spec
<1>3. QED
  BY <1>2, LastNumber, PTL DEF Spec, NumbersNameEntries
=============================================================================
