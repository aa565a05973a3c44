------------------------------ MODULE ChanTrap ------------------------------
(***************************************************************************)
(* OperServ CHANTRAP (src/os_chantrap.cpp): channels that kill or AKILL    *)
(* who joins them.  A trap with bots is a channel that services keep full  *)
(* of clients: OperServ, the BotServ bots and clients the module creates,  *)
(* each with a count of the channels it was sent to and destroyed when the *)
(* count is back at zero.  A trap without bots is a mask.                  *)
(*                                                                         *)
(* OperServ's client is named OperServ, and a registered name is a         *)
(* channel of the model.  Channel modes, texts and the validation of the   *)
(* mode string are left out.                                               *)
(***************************************************************************)
EXTENDS Integers, FiniteSets

CONSTANTS
  Users, Hosts, HostOf,     \* ordinary users and their hosts
  Opers,                    \* those among them who are opers or U-lined
  Chans,
  Wild, Covers,             \* masks of traps without bots; mask -> channels
  OperServ, BotServBots,    \* BotListByNick: OperServ's client and the others
  Addr,                     \* bound: clients the module can create
  MaxBots, CreateBots,      \* maxbots, createbots
  BotCounts,                \* the counts ADD is called with
  MaxCount,                 \* bound: channels a created client is sent to
  KickAgain                 \* bound: FALSE if clients are kicked once at most

Masks  == Chans \union Wild
Actors == Users \union {OperServ} \union BotServBots \union Addr

ASSUME ConfigAssumption ==
  /\ Opers \subseteq Users /\ HostOf \in [Users -> Hosts]
  /\ Covers \in [Masks -> SUBSET Chans]
  /\ \A c \in Chans : Covers[c] = {c}
  /\ MaxBots \in Nat /\ CreateBots \in BOOLEAN /\ MaxCount \in Nat /\ BotCounts \subseteq Nat
  /\ KickAgain \in BOOLEAN
  /\ IsFiniteSet(Chans) /\ IsFiniteSet(BotServBots) /\ IsFiniteSet(Addr)
  /\ OperServ \notin Users \union BotServBots \union Addr
  /\ Users \intersect (BotServBots \union Addr) = {}
  /\ BotServBots \intersect Addr = {}

VARIABLES
  loaded, synced,    \* the module object exists; Me->IsSynced()
  traps,             \* ChanTrapList: mask -> bots and action
  in,                \* channel -> who is in it
  crew,              \* CreatedBots: client -> count of channels
  online,            \* users
  akills,            \* hosts with an AKILL
  doomed,            \* users the IRC server was told to remove
  registered,        \* registered channels
  todo,              \* the traps Init still goes through
  odd,               \* history: a client was kicked, or sent to a channel twice
  unmanned           \* history: trap channels not filled, or kicked from, since

vars == <<loaded, synced, traps, in, crew, online, akills, doomed, registered, todo, odd, unmanned>>

Empty        == [x \in {} |-> 0]
Put(f, k, v) == [x \in DOMAIN f \union {k} |-> IF x = k THEN v ELSE f[x]]
Only(f, S)   == [x \in S |-> f[x]]
SizedSubsets(S, n) == {T \in SUBSET S : Cardinality(T) = n}
Least(a, b)  == IF a <= b THEN a ELSE b

Botserv == {OperServ} \union BotServBots
Clients == Botserv \union Addr                 \* users on services' own server
Ordinary == Users \ Opers
Active(m) == traps[m].bots > 0
Trapped == UNION {Covers[m] : m \in DOMAIN traps}
ChansOf(w, b) == {c \in Chans : b \in w[c]}

-----------------------------------------------------------------------------
(* CreatedBots and the channels: r is a record of in and crew *)

\* A plausible slip: a created client is destroyed at its first part.
PartClientsOnce(r, cs) ==
  LET gone == {b \in DOMAIN r.crew : \E c \in cs : b \in r.in[c]} IN
  [in   |-> [c \in Chans |-> (IF c \in cs THEN r.in[c] \ Clients ELSE r.in[c]) \ gone],
   crew |-> Only(r.crew, DOMAIN r.crew \ gone)]

\* ChanTrapList::Del for traps on the channels cs: every client of services
\* parts, and a created one whose count reaches zero is destroyed.
PartClients(r, cs) ==
  LET parts(b) == Cardinality(ChansOf(r.in, b) \intersect cs)
      gone     == {b \in DOMAIN r.crew : parts(b) > 0 /\ parts(b) >= r.crew[b]}
  IN [in   |-> [c \in Chans |-> (IF c \in cs THEN r.in[c] \ Clients ELSE r.in[c]) \ gone],
      crew |-> [b \in DOMAIN r.crew \ gone |-> r.crew[b] - parts(b)]]

\* A plausible slip: a client created before is sent without being counted.
SendUncounted(r, c, old, new, bs) ==
  [in   |-> [r.in EXCEPT ![c] = @ \union {OperServ} \union bs \union old \union new],
   crew |-> [b \in DOMAIN r.crew \union new |-> IF b \in new THEN 1 ELSE r.crew[b]]]

\* CreateChan: OperServ, then BotServ bots, then clients created before, then
\* new ones, up to the number wanted.  Which ones is a matter of their nicks
\* and addresses.  A client is counted whether or not it is there already.
Send(r, c, old, new, bs) ==
  [in   |-> [r.in EXCEPT ![c] = @ \union {OperServ} \union bs \union old \union new],
   crew |-> [b \in DOMAIN r.crew \union new |->
               IF b \in new THEN 1 ELSE IF b \in old THEN r.crew[b] + 1 ELSE r.crew[b]]]

CreateChan(r, c, n) ==
  LET fromBotServ == Least(n - 1, Cardinality(BotServBots))
      fromCrew    == Least(n - 1 - fromBotServ, Cardinality(DOMAIN r.crew))
  IN {Send(r, c, old, new, bs) :
        bs  \in SizedSubsets(BotServBots, fromBotServ),
        old \in SizedSubsets(DOMAIN r.crew, fromCrew),
        new \in SizedSubsets(Addr \ DOMAIN r.crew, n - 1 - fromBotServ - fromCrew)}

\* Clients that are in c already when CreateChan comes.
Manned(r, c) == r.in[c] \intersect DOMAIN r.crew # {}

-----------------------------------------------------------------------------
(* The actions on users *)

Caught(r, cs) == {u \in Ordinary : \E c \in cs : u \in r.in[c]}
OnHosts(hs)   == {u \in online : HostOf[u] \in hs}

\* ApplyToChan on the channels cs: kills take effect, an AKILL goes to the
\* IRC server, which removes everybody on that host.
ApplyToChan(r, cs, action) ==
  IF action = "kill"
  THEN /\ in' = [c \in Chans |-> r.in[c] \ Caught(r, cs)]
       /\ online' = online \ Caught(r, cs)
       /\ doomed' = doomed \ Caught(r, cs)
       /\ UNCHANGED akills
  ELSE LET hs == {HostOf[u] : u \in Caught(r, cs)} \ akills IN
       /\ in' = r.in
       /\ akills' = akills \union hs
       /\ doomed' = doomed \union OnHosts(hs)
       /\ UNCHANGED online

\* A trap without bots: FindMatches.
SpringMask(r, m, action) ==
  /\ ApplyToChan(r, Covers[m], action)
  /\ crew' = r.crew
  /\ UNCHANGED <<odd, unmanned>>

\* A trap with bots.
SpringChan(r, c, t) ==
  /\ \E s \in CreateChan(r, c, t.bots) :
       /\ ApplyToChan(s, {c}, t.action)
       /\ crew' = s.crew
  /\ odd' = (odd \/ Manned(r, c))
  /\ unmanned' = unmanned \ {c}

-----------------------------------------------------------------------------
(* The module *)

Idle == todo = {}

Entry == [bots : BotCounts, action : {"kill", "akill"}]

\* What DoAdd lets through: an active trap is a channel's name.
Legal(m, t) ==
  /\ t.bots <= MaxBots
  /\ t.bots > 0 => m \in Chans /\ (t.bots <= 1 + Cardinality(BotServBots) \/ CreateBots)

Init ==
  /\ loaded = FALSE /\ synced \in BOOLEAN
  /\ traps = Empty /\ crew = Empty
  /\ online = Users
  /\ in \in [Chans -> SUBSET Users]
  /\ akills = {} /\ doomed = {}
  /\ registered = Chans
  /\ todo = {} /\ odd = FALSE /\ unmanned = Chans

\* ChanTrapInfo::Unserialize of what the module has saved.
Unserialize(m, t) ==
  /\ ~loaded /\ m \notin DOMAIN traps /\ Legal(m, t)
  /\ traps' = Put(traps, m, t)
  /\ unmanned' = unmanned \union Covers[m]
  /\ UNCHANGED <<loaded, synced, in, crew, online, akills, doomed, registered, todo, odd>>

OSChanTrap ==
  /\ ~loaded
  /\ loaded' = TRUE
  /\ todo' = IF synced THEN DOMAIN traps ELSE {}
  /\ UNCHANGED <<synced, traps, in, crew, online, akills, doomed, registered, odd, unmanned>>

OnUplinkSync ==
  /\ loaded /\ Idle /\ ~synced
  /\ synced' = TRUE
  /\ todo' = DOMAIN traps
  /\ UNCHANGED <<loaded, traps, in, crew, online, akills, doomed, registered, odd, unmanned>>

\* One turn of the loop of OSChanTrap::Init; nothing else runs meanwhile.
InitTrap(m) ==
  /\ m \in todo
  /\ todo' = todo \ {m}
  /\ LET r == [in |-> in, crew |-> crew] IN
     IF Active(m) THEN SpringChan(r, m, traps[m]) ELSE SpringMask(r, m, traps[m].action)
  /\ UNCHANGED <<loaded, synced, traps, registered>>

Command == loaded /\ Idle /\ UNCHANGED <<loaded, synced, todo>>

\* ADD: an entry with this mask is deleted first; registered channels it
\* covers are dropped last.
DoAdd(m, t) ==
  /\ Command /\ Legal(m, t)
  /\ \A b \in DOMAIN crew : crew[b] < MaxCount
  /\ LET r == PartClients([in |-> in, crew |-> crew],
                          IF m \in DOMAIN traps /\ Active(m) THEN {m} ELSE {})
     IN IF t.bots > 0 THEN SpringChan(r, m, t) ELSE SpringMask(r, m, t.action)
  /\ traps' = Put(traps, m, t)
  /\ registered' = registered \ Covers[m]

\* DEL, by mask or by numbers, and CLEAR: ChanTrapList::Del of each entry.
Delete(ms) ==
  /\ LET r == PartClients([in |-> in, crew |-> crew], {m \in ms : Active(m)})
     IN in' = r.in /\ crew' = r.crew
  /\ traps' = Only(traps, DOMAIN traps \ ms)
  /\ unmanned' = unmanned \union {m \in ms : Active(m)}
  /\ UNCHANGED <<online, akills, doomed, registered, odd>>

DoDel(ms) == Command /\ ms \subseteq DOMAIN traps /\ ms # {} /\ Delete(ms)
DoClear   == Command /\ traps # Empty /\ Delete(DOMAIN traps)

\* A plausible slip: only traps without bots are looked for.
OnJoinChannelMask(u, c) ==
  /\ ~(loaded /\ ~Idle) /\ u \in online /\ u \notin in[c]
  /\ in' = [in EXCEPT ![c] = @ \union {u}]
  /\ LET hs == IF loaded /\ u \notin Opers /\ (\E m \in DOMAIN traps : c \in Covers[m] /\ ~Active(m))
               THEN {HostOf[u]} \ akills ELSE {}
     IN akills' = akills \union hs /\ doomed' = doomed \union OnHosts(hs)
  /\ UNCHANGED <<loaded, synced, traps, crew, online, registered, todo, odd, unmanned>>

\* A user joins; whatever the trap's action is, the host gets an AKILL.
OnJoinChannel(u, c) ==
  /\ ~(loaded /\ ~Idle) /\ u \in online /\ u \notin in[c]
  /\ in' = [in EXCEPT ![c] = @ \union {u}]
  /\ LET hs == IF loaded /\ u \notin Opers /\ c \in Trapped THEN {HostOf[u]} \ akills ELSE {}
     IN akills' = akills \union hs /\ doomed' = doomed \union OnHosts(hs)
  /\ UNCHANGED <<loaded, synced, traps, crew, online, registered, todo, odd, unmanned>>

-----------------------------------------------------------------------------
(* The network *)

\* Users part and quit, of their own or removed by the IRC server.
Part(u, c) ==
  /\ Idle /\ u \in in[c] \intersect Users
  /\ in' = [in EXCEPT ![c] = @ \ {u}]
  /\ UNCHANGED <<loaded, synced, traps, crew, online, akills, doomed, registered, todo, odd, unmanned>>

Quit(u) ==
  /\ Idle /\ u \in online
  /\ online' = online \ {u} /\ doomed' = doomed \ {u}
  /\ in' = [c \in Chans |-> in[c] \ {u}]
  /\ UNCHANGED <<loaded, synced, traps, crew, akills, registered, todo, odd, unmanned>>

\* Nobody connects from a host with an AKILL.
Connect(u) ==
  /\ Idle /\ u \in Users \ online /\ HostOf[u] \notin akills
  /\ online' = online \union {u}
  /\ UNCHANGED <<loaded, synced, traps, in, crew, akills, doomed, registered, todo, odd, unmanned>>

\* An AKILL expires or is deleted; its users are on their way out.
AkillEnds(h) ==
  /\ Idle /\ h \in akills
  /\ akills' = akills \ {h}
  /\ UNCHANGED <<loaded, synced, traps, in, crew, online, doomed, registered, todo, odd, unmanned>>

\* An operator kicks one of services' clients; the module has no hook for it.
Kick(b, c) ==
  /\ loaded /\ Idle /\ b \in in[c] \intersect Clients /\ (odd => KickAgain)
  /\ in' = [in EXCEPT ![c] = @ \ {b}]
  /\ odd' = TRUE /\ unmanned' = unmanned \union {c}
  /\ UNCHANGED <<loaded, synced, traps, crew, online, akills, doomed, registered, todo>>

-----------------------------------------------------------------------------
Next ==
  \/ \E m \in Masks, t \in Entry : Unserialize(m, t) \/ DoAdd(m, t)
  \/ OSChanTrap \/ OnUplinkSync
  \/ \E m \in Masks : InitTrap(m)
  \/ \E ms \in SUBSET Masks : DoDel(ms)
  \/ DoClear
  \/ \E u \in Users : Quit(u) \/ Connect(u) \/ (\E c \in Chans : OnJoinChannel(u, c) \/ Part(u, c))
  \/ \E h \in Hosts : AkillEnds(h)
  \/ \E b \in Clients, c \in Chans : Kick(b, c)

Spec == Init /\ [][Next]_vars

-----------------------------------------------------------------------------
(* Properties *)

\* A client the module has created is counted for every channel it idles in,
\* so it is never destroyed while another trap needs it; and unless a client
\* was kicked or sent to a channel twice, exactly for these, so that it is
\* destroyed with the last trap that uses it (CreatedBots::Join and Part).
ClientsAreCounted ==
  /\ \A c \in Chans : in[c] \intersect Addr \subseteq DOMAIN crew
  /\ \A b \in DOMAIN crew :
       LET n == Cardinality(ChansOf(in, b)) IN
       crew[b] >= n /\ (~odd => crew[b] = n /\ n > 0)

\* "Bot Count is how many bots idle in the channel" (help of CHANTRAP): as
\* long as nobody kicks one, an active trap has its clients, whichever other
\* traps are deleted, replaced or added around it.
TrapsAreManned ==
  Idle => \A c \in (Chans \intersect DOMAIN traps) \ unmanned :
            Active(c) => Cardinality(in[c] \intersect Clients) >= traps[c].bots

\* "A chosen action will be taken on every user joining a trap channel": once
\* the traps are in force, whoever is in a trapped channel and is not an oper
\* is on the way out.
TrapsHoldNobody ==
  loaded /\ synced /\ Idle =>
    \A c \in Trapped : in[c] \intersect Ordinary \subseteq doomed

=============================================================================
