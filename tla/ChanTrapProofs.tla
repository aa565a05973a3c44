--------------------------- MODULE ChanTrapProofs ---------------------------
(***************************************************************************)
(* Proofs about ChanTrap: for any users, channels, masks and clients the   *)
(* counts of created clients are right, traps keep their clients, and      *)
(* nobody ordinary is overlooked in a trapped channel.                     *)
(***************************************************************************)
EXTENDS ChanTrap, FiniteSetTheorems, TLAPS

(* What holds of the channels w and the counts k of created clients. *)

Typed(w, k) ==
  /\ w \in [Chans -> SUBSET Actors]
  /\ k \in [DOMAIN k -> Nat] /\ DOMAIN k \subseteq Addr

InChans(w, b) == Cardinality(ChansOf(w, b))

Counted(w, k) ==
  /\ \A c \in Chans : w[c] \intersect Addr \subseteq DOMAIN k
  /\ \A b \in DOMAIN k : k[b] >= InChans(w, b)

Exact(w, k) == \A b \in DOMAIN k : k[b] = InChans(w, b) /\ k[b] > 0

\* The same users are in the channels of v and w.
SameUsers(v, w) == \A c \in Chans : v[c] \intersect Users = w[c] \intersect Users

-----------------------------------------------------------------------------
(* The inductive invariant *)

TrapsOK ==
  /\ DOMAIN traps \subseteq Masks
  /\ \A m \in DOMAIN traps : traps[m] \in Entry /\ (Active(m) => m \in Chans)
  /\ todo \subseteq DOMAIN traps

UsersOK ==
  /\ online \subseteq Users
  /\ \A c \in Chans : in[c] \intersect Users \subseteq online

\* An AKILL is on nobody who is not on the way out.
AkilledAreDoomed == \A u \in online : HostOf[u] \in akills => u \in doomed

HeldIn(c) == in[c] \intersect Ordinary \subseteq doomed
Held(m)   == \A c \in Covers[m] : HeldIn(c)

\* The traps the initialisation has been at are in force.
TrapsInForce == loaded /\ synced => \A m \in DOMAIN traps \ todo : Held(m)

CountsOK == Typed(in, crew) /\ Counted(in, crew) /\ (~odd => Exact(in, crew))

Crowd(w, c) == Cardinality(w[c] \intersect Clients)

\* TrapsAreManned, during the initialisation too.
MannedWell ==
  \A c \in (Chans \intersect DOMAIN traps) \ unmanned : Active(c) => Crowd(in, c) >= traps[c].bots

IInv ==
  TrapsOK /\ UsersOK /\ odd \in BOOLEAN
  /\ CountsOK /\ MannedWell /\ AkilledAreDoomed /\ TrapsInForce

-----------------------------------------------------------------------------
(* Counting channels *)

\* The channels a client is in can be counted.
LEMMA InChansType ==
  ASSUME NEW w, NEW b
  PROVE  /\ IsFiniteSet(ChansOf(w, b)) /\ ChansOf(w, b) \subseteq Chans
         /\ InChans(w, b) \in Nat
         /\ InChans(w, b) > 0 <=> ChansOf(w, b) # {}
<1>1. IsFiniteSet(ChansOf(w, b)) /\ ChansOf(w, b) \subseteq Chans
  <2>1. ChansOf(w, b) \in SUBSET Chans
    BY DEF ChansOf
  <2> QED BY <2>1, FS_Subset, ConfigAssumption
<1>2. InChans(w, b) \in Nat
  BY <1>1, FS_CardinalityType DEF InChans
<1>3. InChans(w, b) = 0 <=> ChansOf(w, b) = {}
  BY <1>1, FS_EmptySet DEF InChans
<1> QED BY <1>1, <1>2, <1>3

\* A client whose channels are the same, or fewer, is in as many, or fewer.
LEMMA FewerChans ==
  ASSUME NEW v, NEW w, NEW b, ChansOf(v, b) \subseteq ChansOf(w, b)
  PROVE  InChans(v, b) <= InChans(w, b)
<1>1. IsFiniteSet(ChansOf(w, b)) /\ ChansOf(v, b) \in SUBSET ChansOf(w, b)
  BY InChansType
<1> QED BY <1>1, FS_Subset DEF InChans

\* Leaving channels takes away as many as the client was in.
LEMMA SomeChansLess ==
  ASSUME NEW v, NEW w, NEW b, NEW cs, ChansOf(v, b) = ChansOf(w, b) \ cs
  PROVE  InChans(v, b) = InChans(w, b) - Cardinality(ChansOf(w, b) \intersect cs)
BY InChansType, FS_Difference DEF InChans

\* Joining a channel adds one, unless the client was there.
LEMMA OneChanMore ==
  ASSUME NEW v, NEW w, NEW b, NEW c, ChansOf(v, b) = ChansOf(w, b) \union {c}
  PROVE  InChans(v, b) = IF c \in ChansOf(w, b) THEN InChans(w, b) ELSE InChans(w, b) + 1
BY InChansType, FS_AddElement DEF InChans

\* Counts do not change as long as the channels of created clients do not.
LEMMA SameClients ==
  ASSUME NEW v, NEW w, NEW k, Typed(w, k), v \in [Chans -> SUBSET Actors],
         \A c \in Chans : v[c] \intersect Addr = w[c] \intersect Addr
  PROVE  /\ Typed(v, k)
         /\ Counted(w, k) => Counted(v, k)
         /\ Exact(w, k) => Exact(v, k)
<1>1. \A b \in DOMAIN k : ChansOf(v, b) = ChansOf(w, b)
  BY DEF Typed, ChansOf
<1>2. \A b \in DOMAIN k : InChans(v, b) = InChans(w, b)
  BY <1>1 DEF InChans
<1> QED BY <1>2 DEF Typed, Counted, Exact

-----------------------------------------------------------------------------
(* CreatedBots *)

\* Parting clients from cs takes as much from a count as from the channels, and a client
\* is destroyed only where no other channel holds it.
LEMMA PartKeepsCounts ==
  ASSUME NEW r, Typed(r.in, r.crew), Counted(r.in, r.crew), NEW cs
  PROVE  LET q == PartClients(r, cs) IN
         /\ Typed(q.in, q.crew) /\ Counted(q.in, q.crew)
         /\ Exact(r.in, r.crew) => Exact(q.in, q.crew)
         /\ SameUsers(q.in, r.in)
         /\ \A c \in Chans \ cs : q.in[c] = r.in[c]
<1> DEFINE parts(b) == Cardinality(ChansOf(r.in, b) \intersect cs)
           gone == {b \in DOMAIN r.crew : parts(b) > 0 /\ parts(b) >= r.crew[b]}
           v == [c \in Chans |-> (IF c \in cs THEN r.in[c] \ Clients ELSE r.in[c]) \ gone]
           k == [b \in DOMAIN r.crew \ gone |-> r.crew[b] - parts(b)]
<1>1. PartClients(r, cs) = [in |-> v, crew |-> k]
  BY DEF PartClients
<1>2. gone \subseteq DOMAIN r.crew /\ DOMAIN r.crew \subseteq Addr
  BY DEF Typed
<1>3. Addr \subseteq Clients /\ Users \intersect Clients = {}
  BY ConfigAssumption DEF Clients, Botserv
<1>4. ASSUME NEW b \in DOMAIN r.crew
      PROVE  /\ r.crew[b] \in Nat /\ InChans(r.in, b) \in Nat /\ InChans(r.in, b) <= r.crew[b]
             /\ parts(b) \in Nat /\ parts(b) <= InChans(r.in, b)
             /\ parts(b) = InChans(r.in, b) => ChansOf(r.in, b) \subseteq cs
  <2>1. IsFiniteSet(ChansOf(r.in, b)) /\ InChans(r.in, b) \in Nat
    BY InChansType
  <2>2. ChansOf(r.in, b) \intersect cs \in SUBSET ChansOf(r.in, b)
    OBVIOUS
  <2>3. /\ IsFiniteSet(ChansOf(r.in, b) \intersect cs)
        /\ parts(b) <= InChans(r.in, b)
        /\ InChans(r.in, b) = parts(b) => ChansOf(r.in, b) = ChansOf(r.in, b) \intersect cs
    BY <2>1, <2>2, FS_Subset DEF InChans
  <2>4. parts(b) \in Nat
    BY <2>3, FS_CardinalityType
  <2> QED BY <2>1, <2>3, <2>4 DEF Typed, Counted
<1>5. ASSUME NEW b \in DOMAIN r.crew \ gone
      PROVE  /\ InChans(v, b) = InChans(r.in, b) - parts(b)
             /\ k[b] = r.crew[b] - parts(b) /\ k[b] \in Nat
             /\ r.crew[b] > 0 => k[b] > 0
  <2>1. ChansOf(v, b) = ChansOf(r.in, b) \ cs
    BY <1>2, <1>3 DEF ChansOf
  <2>2. InChans(v, b) = InChans(r.in, b) - parts(b)
    <3> HIDE DEF v
    <3> QED BY <2>1, SomeChansLess
  <2>3. ~(parts(b) > 0 /\ parts(b) >= r.crew[b])
    OBVIOUS
  <2>4. /\ r.crew[b] \in Nat /\ parts(b) \in Nat /\ parts(b) <= r.crew[b]
    BY <1>4
  <2> HIDE DEF parts, gone
  <2> QED BY <2>2, <2>3, <2>4
<1>6. ASSUME NEW c \in Chans \ cs PROVE v[c] = r.in[c]
  <2>1. ASSUME NEW b \in gone PROVE b \notin r.in[c]
    <3>1. parts(b) = InChans(r.in, b)
      BY <1>4, <2>1
    <3>2. ChansOf(r.in, b) \subseteq cs
      BY <1>4, <3>1
    <3> QED BY <3>2 DEF ChansOf
  <2>2. v[c] = r.in[c] \ gone
    OBVIOUS
  <2> QED BY <2>1, <2>2
<1>7. Typed(v, k)
  <2>1. v \in [Chans -> SUBSET Actors]
    BY DEF Typed
  <2>2. k \in [DOMAIN r.crew \ gone -> Nat]
    BY <1>5
  <2> HIDE DEF v, k
  <2> QED BY <1>2, <2>1, <2>2 DEF Typed
<1>8. Counted(v, k)
  <2>1. DOMAIN k = DOMAIN r.crew \ gone
    OBVIOUS
  <2>2. \A c \in Chans : v[c] \intersect Addr \subseteq DOMAIN r.crew \ gone
    BY <1>3 DEF Counted
  <2>3. \A b \in DOMAIN r.crew \ gone : k[b] >= InChans(v, b)
    <3> HIDE DEF v, k, gone, parts
    <3> QED BY <1>4, <1>5
  <2> HIDE DEF v, k, gone
  <2> QED BY <2>1, <2>2, <2>3 DEF Counted
<1>9. Exact(r.in, r.crew) => Exact(v, k)
  <2>1. DOMAIN k = DOMAIN r.crew \ gone
    OBVIOUS
  <2> HIDE DEF v, k, gone, parts
  <2> QED BY <1>4, <1>5, <2>1 DEF Exact
<1>10. SameUsers(v, r.in)
  BY <1>2, <1>3 DEF SameUsers
<1> HIDE DEF v, k, gone, parts
<1> QED BY <1>1, <1>6, <1>7, <1>8, <1>9, <1>10

\* From r to s the clients S were sent to c.
Sent(r, s, c, S) ==
  /\ Typed(s.in, s.crew) /\ Counted(s.in, s.crew)
  /\ Exact(r.in, r.crew) /\ ~Manned(r, c) => Exact(s.in, s.crew)
  /\ SameUsers(s.in, r.in)
  /\ s.in[c] = r.in[c] \union S
  /\ \A d \in Chans \ {c} : s.in[d] = r.in[d]

\* Sending clients to c adds as many to the counts as to the channels, unless a client
\* was in c before.
LEMMA SendKeepsCounts ==
  ASSUME NEW r, Typed(r.in, r.crew), Counted(r.in, r.crew), NEW c \in Chans,
         NEW old \in SUBSET DOMAIN r.crew, NEW new \in SUBSET (Addr \ DOMAIN r.crew),
         NEW bs \in SUBSET BotServBots, NEW s, s = Send(r, c, old, new, bs)
  PROVE  Sent(r, s, c, {OperServ} \union bs \union old \union new)
<1> DEFINE v == [r.in EXCEPT ![c] = @ \union {OperServ} \union bs \union old \union new]
           k == [b \in DOMAIN r.crew \union new |->
                   IF b \in new THEN 1 ELSE IF b \in old THEN r.crew[b] + 1 ELSE r.crew[b]]
<1>1. s = [in |-> v, crew |-> k]
  BY DEF Send
<1>2. /\ DOMAIN r.crew \subseteq Addr /\ OperServ \notin Addr /\ bs \intersect Addr = {}
      /\ new \subseteq Addr /\ old \subseteq Addr
  BY ConfigAssumption DEF Typed
<1>3. /\ \A d \in Chans \ {c} : v[d] = r.in[d]
      /\ v[c] = r.in[c] \union {OperServ} \union bs \union old \union new
  BY DEF Typed
<1>4. v \in [Chans -> SUBSET Actors]
  <2>1. {OperServ} \union bs \union old \union new \subseteq Actors
    BY <1>2 DEF Actors
  <2>2. v = [d \in Chans |-> IF d = c THEN r.in[c] \union {OperServ} \union bs \union old \union new
                             ELSE r.in[d]]
    BY DEF Typed
  <2> HIDE DEF v
  <2> QED BY <2>1, <2>2 DEF Typed
<1>5. SameUsers(v, r.in)
  <2>1. ({OperServ} \union bs \union old \union new) \intersect Users = {}
    BY <1>2, ConfigAssumption
  <2> HIDE DEF v
  <2> QED BY <1>3, <2>1 DEF SameUsers
<1>6. /\ DOMAIN k = DOMAIN r.crew \union new
      /\ \A b \in DOMAIN k : k[b] = IF b \in new THEN 1 ELSE IF b \in old THEN r.crew[b] + 1 ELSE r.crew[b]
  OBVIOUS
<1>7. Typed(v, k)
  <2>1. k \in [DOMAIN r.crew \union new -> Nat]
    BY DEF Typed
  <2> HIDE DEF v, k
  <2> QED BY <1>2, <1>4, <1>6, <2>1 DEF Typed
<1> HIDE DEF v, k
<1>8. ASSUME NEW b \in new PROVE InChans(v, b) = 1 /\ k[b] = 1
  <2>1. b \in Addr /\ b \notin DOMAIN r.crew
    OBVIOUS
  <2>2. ChansOf(v, b) = {c}
    BY <2>1, <1>3 DEF Counted, ChansOf
  <2> QED BY <2>2, <1>6, FS_Singleton DEF InChans
<1>9. ASSUME NEW b \in old, b \notin new
      PROVE  /\ k[b] = r.crew[b] + 1
             /\ InChans(v, b) = IF c \in ChansOf(r.in, b) THEN InChans(r.in, b) ELSE InChans(r.in, b) + 1
  <2>1. ChansOf(v, b) = ChansOf(r.in, b) \union {c}
    BY <1>3 DEF ChansOf
  <2> QED BY <2>1, <1>6, <1>9, OneChanMore
<1>10. ASSUME NEW b \in DOMAIN r.crew, b \notin old, b \notin new
       PROVE  k[b] = r.crew[b] /\ InChans(v, b) = InChans(r.in, b)
  <2>1. ChansOf(v, b) = ChansOf(r.in, b)
    BY <1>2, <1>3, <1>10 DEF ChansOf
  <2> QED BY <2>1, <1>6, <1>10 DEF InChans
<1>11. \A b \in DOMAIN r.crew : r.crew[b] \in Nat /\ InChans(r.in, b) \in Nat /\ r.crew[b] >= InChans(r.in, b)
  BY InChansType DEF Typed, Counted
<1>12. Counted(v, k)
  <2>1. \A b \in DOMAIN k : k[b] >= InChans(v, b)
    <3> SUFFICES ASSUME NEW b \in DOMAIN k PROVE k[b] >= InChans(v, b)
      OBVIOUS
    <3>1. CASE b \in new
      BY <3>1, <1>8
    <3>2. CASE b \in old /\ b \notin new
      BY <3>2, <1>9, <1>11
    <3>3. CASE b \in DOMAIN r.crew /\ b \notin old /\ b \notin new
      BY <3>3, <1>10, <1>11
    <3> QED BY <1>6, <3>1, <3>2, <3>3
  <2>2. \A d \in Chans : v[d] \intersect Addr \subseteq DOMAIN k
    BY <1>2, <1>3, <1>6 DEF Counted
  <2> QED BY <2>1, <2>2 DEF Counted
<1>13. ASSUME Exact(r.in, r.crew), ~Manned(r, c) PROVE Exact(v, k)
  <2> SUFFICES ASSUME NEW b \in DOMAIN k PROVE k[b] = InChans(v, b) /\ k[b] > 0
    BY DEF Exact
  <2>1. CASE b \in new
    BY <2>1, <1>8
  <2>2. CASE b \in old /\ b \notin new
    <3>1. c \notin ChansOf(r.in, b)
      BY <1>13, <2>2 DEF Manned, ChansOf
    <3>2. InChans(v, b) = InChans(r.in, b) + 1 /\ k[b] = r.crew[b] + 1
      BY <3>1, <2>2, <1>9
    <3> QED BY <3>2, <2>2, <1>11, <1>13 DEF Exact
  <2>3. CASE b \in DOMAIN r.crew /\ b \notin old /\ b \notin new
    BY <2>3, <1>10, <1>13 DEF Exact
  <2> QED BY <1>6, <2>1, <2>2, <2>3
<1> QED BY <1>1, <1>3, <1>5, <1>7, <1>12, <1>13 DEF Sent

\* Sets without a common element add up.
LEMMA DisjointUnion ==
  ASSUME NEW S, NEW T, IsFiniteSet(S), IsFiniteSet(T), S \intersect T = {}
  PROVE  /\ IsFiniteSet(S \union T)
         /\ Cardinality(S \union T) = Cardinality(S) + Cardinality(T)
<1>1. Cardinality(S \intersect T) = 0
  BY FS_EmptySet
<1>2. Cardinality(S) \in Nat /\ Cardinality(T) \in Nat
  BY FS_CardinalityType
<1>3. /\ IsFiniteSet(S \union T)
      /\ Cardinality(S \union T) = Cardinality(S) + Cardinality(T) - Cardinality(S \intersect T)
  BY FS_Union
<1> QED BY <1>1, <1>2, <1>3

\* CreateChan sends as many clients as were asked for: OperServ, bots of BotServ, clients
\* created before and new ones are never the same.
LEMMA CreateChanMans ==
  ASSUME NEW n \in Nat, NEW r, Typed(r.in, r.crew),
         NEW bs \in SUBSET BotServBots, NEW old \in SUBSET DOMAIN r.crew,
         NEW new \in SUBSET (Addr \ DOMAIN r.crew),
         Cardinality(new) = n - 1 - Cardinality(bs) - Cardinality(old)
  PROVE  /\ IsFiniteSet({OperServ} \union bs \union old \union new)
         /\ Cardinality({OperServ} \union bs \union old \union new) = n
<1>1. DOMAIN r.crew \subseteq Addr
  BY DEF Typed
<1>2. IsFiniteSet(bs) /\ IsFiniteSet(old) /\ IsFiniteSet(new)
  <2>1. old \in SUBSET Addr /\ new \in SUBSET Addr
    BY <1>1
  <2> QED BY <2>1, FS_Subset, ConfigAssumption
<1>3. Cardinality(bs) \in Nat /\ Cardinality(old) \in Nat /\ Cardinality(new) \in Nat
  BY <1>2, FS_CardinalityType
<1>4. IsFiniteSet({OperServ}) /\ Cardinality({OperServ}) = 1
  BY FS_Singleton
<1> DEFINE two == {OperServ} \union bs
           three == two \union old
<1>5. {OperServ} \intersect bs = {} /\ two \intersect old = {} /\ three \intersect new = {}
  BY <1>1, ConfigAssumption
<1>6. IsFiniteSet(two) /\ Cardinality(two) = 1 + Cardinality(bs)
  BY <1>2, <1>4, <1>5, DisjointUnion
<1> HIDE DEF two
<1>7. IsFiniteSet(three) /\ Cardinality(three) = 1 + Cardinality(bs) + Cardinality(old)
  BY <1>2, <1>3, <1>5, <1>6, DisjointUnion
<1> HIDE DEF three
<1>8. /\ IsFiniteSet(three \union new)
      /\ Cardinality(three \union new) = 1 + Cardinality(bs) + Cardinality(old) + Cardinality(new)
  BY <1>2, <1>3, <1>5, <1>7, DisjointUnion
<1>9. three \union new = {OperServ} \union bs \union old \union new
  BY DEF three, two
<1>10. Cardinality(three \union new) = n
  BY <1>3, <1>8
<1> QED BY <1>8, <1>9, <1>10, Zenon

\* What CreateChan promises of every choice of clients.
LEMMA CreateChanWorks ==
  ASSUME NEW r, Typed(r.in, r.crew), Counted(r.in, r.crew), NEW c \in Chans,
         NEW n \in Nat \ {0}, NEW s \in CreateChan(r, c, n)
  PROVE  /\ Typed(s.in, s.crew) /\ Counted(s.in, s.crew)
         /\ Exact(r.in, r.crew) /\ ~Manned(r, c) => Exact(s.in, s.crew)
         /\ SameUsers(s.in, r.in)
         /\ Crowd(s.in, c) >= n
         /\ \A d \in Chans \ {c} : s.in[d] = r.in[d]
<1> DEFINE fromBotServ == Least(n - 1, Cardinality(BotServBots))
           fromCrew == Least(n - 1 - fromBotServ, Cardinality(DOMAIN r.crew))
<1>1. PICK bs \in SizedSubsets(BotServBots, fromBotServ), old \in SizedSubsets(DOMAIN r.crew, fromCrew),
           new \in SizedSubsets(Addr \ DOMAIN r.crew, n - 1 - fromBotServ - fromCrew) :
             s = Send(r, c, old, new, bs)
  BY DEF CreateChan
<1>2. /\ bs \in SUBSET BotServBots /\ old \in SUBSET DOMAIN r.crew
      /\ new \in SUBSET (Addr \ DOMAIN r.crew)
      /\ Cardinality(new) = n - 1 - Cardinality(bs) - Cardinality(old)
  BY <1>1 DEF SizedSubsets
<1> DEFINE sent == {OperServ} \union bs \union old \union new
<1>3. /\ Typed(s.in, s.crew) /\ Counted(s.in, s.crew)
      /\ Exact(r.in, r.crew) /\ ~Manned(r, c) => Exact(s.in, s.crew)
      /\ SameUsers(s.in, r.in)
      /\ s.in[c] = r.in[c] \union {OperServ} \union bs \union old \union new
      /\ \A d \in Chans \ {c} : s.in[d] = r.in[d]
  <2> HIDE DEF fromBotServ, fromCrew
  <2>1. s = Send(r, c, old, new, bs)
    BY <1>1
  <2>2. Sent(r, s, c, {OperServ} \union bs \union old \union new)
    BY <1>2, <2>1, SendKeepsCounts, Zenon
  <2> QED BY <2>2 DEF Sent
<1>4. Cardinality(sent) = n
  BY <1>2, CreateChanMans
<1>5. sent \subseteq Clients
  BY <1>2 DEF Clients, Botserv, Typed
<1> HIDE DEF sent
<1>6. sent \in SUBSET (s.in[c] \intersect Clients)
  BY <1>3, <1>5
<1>7. IsFiniteSet(s.in[c] \intersect Clients)
  <2>1. IsFiniteSet(Clients)
    BY ConfigAssumption, FS_Singleton, FS_Union DEF Clients, Botserv
  <2>2. s.in[c] \intersect Clients \in SUBSET Clients
    OBVIOUS
  <2> QED BY <2>1, <2>2, FS_Subset
<1>8. Crowd(s.in, c) \in Nat /\ Crowd(s.in, c) >= n
  BY <1>4, <1>6, <1>7, FS_Subset, FS_CardinalityType DEF Crowd
<1> QED BY <1>3, <1>8

-----------------------------------------------------------------------------
(* The actions on users *)

\* Users, clients and masks are told apart by the configuration.
LEMMA UsersAreNoClients ==
  /\ Users \intersect Clients = {} /\ Addr \subseteq Clients
  /\ Ordinary \subseteq Users /\ Clients \subseteq Actors
  /\ \A m \in Masks : Covers[m] \subseteq Chans
  /\ \A c \in Chans : c \in Masks /\ Covers[c] = {c}
BY ConfigAssumption DEF Clients, Botserv, Ordinary, Actors, Masks

\* Kill or AKILL leaves nobody ordinary in the channels cs who is not on the way out, and
\* brings nobody in anywhere; clients are not touched.
LEMMA ApplyKeeps ==
  ASSUME UsersOK, AkilledAreDoomed,
         NEW s, Typed(s.in, s.crew), Counted(s.in, s.crew), SameUsers(s.in, in),
         NEW cs \in SUBSET Chans, NEW action, ApplyToChan(s, cs, action), crew' = s.crew
  PROVE  /\ UsersOK' /\ AkilledAreDoomed'
         /\ Typed(in, crew)' /\ Counted(in, crew)' /\ (Exact(s.in, s.crew) => Exact(in, crew)')
         /\ \A d \in Chans : in'[d] \intersect Clients = s.in[d] \intersect Clients
         /\ \A d \in Chans : HeldIn(d) => HeldIn(d)'
         /\ \A d \in cs : HeldIn(d)'
<1>1. /\ \A d \in Chans : in'[d] \subseteq s.in[d] /\ in'[d] \intersect Clients = s.in[d] \intersect Clients
      /\ in' \in [Chans -> SUBSET Actors]
  <2>1. Caught(s, cs) \subseteq Users
    BY UsersAreNoClients DEF Caught
  <2>2. CASE action = "kill"
    <3>1. in' = [d \in Chans |-> s.in[d] \ Caught(s, cs)]
      BY <2>2 DEF ApplyToChan
    <3> QED BY <2>1, <3>1, UsersAreNoClients DEF Typed
  <2>3. CASE action # "kill"
    BY <2>3 DEF ApplyToChan, Typed
  <2> QED BY <2>2, <2>3
<1>2. /\ Typed(in', s.crew) /\ Counted(in', s.crew) /\ (Exact(s.in, s.crew) => Exact(in', s.crew))
  <2>1. \A d \in Chans : in'[d] \intersect Addr = s.in[d] \intersect Addr
    BY <1>1, UsersAreNoClients
  <2> QED BY <1>1, <2>1, SameClients
<1>3. /\ Typed(in, crew)' /\ Counted(in, crew)' /\ (Exact(s.in, s.crew) => Exact(in, crew)')
  <2>1. Typed(in, crew)' /\ Counted(in, crew)'
    BY <1>2 DEF Typed, Counted, InChans, ChansOf
  <2>2. Exact(in', s.crew) => Exact(in, crew)'
    BY DEF Exact, InChans, ChansOf
  <2> QED BY <1>2, <2>1, <2>2
<1>4. ASSUME NEW d \in Chans PROVE s.in[d] \intersect Users = in[d] \intersect Users
  BY DEF SameUsers
<1>5. CASE action = "kill"
  <2>1. /\ in' = [d \in Chans |-> s.in[d] \ Caught(s, cs)] /\ online' = online \ Caught(s, cs)
        /\ doomed' = doomed \ Caught(s, cs) /\ akills' = akills
    BY <1>5 DEF ApplyToChan
  <2>2. UsersOK'
    BY <1>4, <2>1 DEF UsersOK
  <2>3. AkilledAreDoomed'
    BY <2>1 DEF AkilledAreDoomed
  <2>4. \A d \in Chans : HeldIn(d) => HeldIn(d)'
    BY <1>4, <2>1, UsersAreNoClients DEF HeldIn
  <2>5. \A d \in cs : HeldIn(d)'
    BY <2>1 DEF HeldIn, Caught
  <2> QED BY <1>1, <1>3, <2>2, <2>3, <2>4, <2>5
<1>6. CASE action # "kill"
  <2> DEFINE hs == {HostOf[u] : u \in Caught(s, cs)} \ akills
  <2>1. /\ in' = s.in /\ online' = online
        /\ akills' = akills \union hs /\ doomed' = doomed \union OnHosts(hs)
    BY <1>6 DEF ApplyToChan
  <2>2. UsersOK'
    BY <1>4, <2>1 DEF UsersOK
  <2>3. AkilledAreDoomed'
    <3> HIDE DEF hs
    <3> QED BY <2>1 DEF AkilledAreDoomed, OnHosts
  <2>4. \A d \in Chans : HeldIn(d) => HeldIn(d)'
    <3> HIDE DEF hs
    <3> QED BY <1>4, <2>1, UsersAreNoClients DEF HeldIn
  <2>5. ASSUME NEW d \in cs PROVE HeldIn(d)'
    <3> SUFFICES ASSUME NEW u \in Ordinary, u \in s.in[d] PROVE u \in doomed'
      BY <2>1 DEF HeldIn
    <3>1. u \in Caught(s, cs)
      BY DEF Caught
    <3>2. u \in online
      BY <1>4, UsersAreNoClients DEF UsersOK
    <3>3. CASE HostOf[u] \in akills
      BY <2>1, <3>2, <3>3 DEF AkilledAreDoomed
    <3>4. CASE HostOf[u] \notin akills
      <4>1. HostOf[u] \in hs
        BY <3>1, <3>4
      <4> QED BY <2>1, <3>2, <4>1 DEF OnHosts
    <3> QED BY <3>3, <3>4
  <2> QED BY <1>1, <1>3, <2>2, <2>3, <2>4, <2>5
<1> QED BY <1>5, <1>6

\* Setting a trap with bots on c, after the clients' state r.
LEMMA SpringChanWorks ==
  ASSUME UsersOK, AkilledAreDoomed, odd \in BOOLEAN,
         NEW r, Typed(r.in, r.crew), Counted(r.in, r.crew), ~odd => Exact(r.in, r.crew),
         SameUsers(r.in, in), NEW c \in Chans, NEW t, t.bots \in Nat \ {0}, SpringChan(r, c, t)
  PROVE  /\ UsersOK' /\ AkilledAreDoomed' /\ odd' \in BOOLEAN /\ CountsOK'
         /\ Crowd(in', c) >= t.bots
         /\ \A d \in Chans \ {c} : Crowd(in', d) = Crowd(r.in, d)
         /\ unmanned' = unmanned \ {c}
         /\ \A d \in Chans : HeldIn(d) => HeldIn(d)'
         /\ HeldIn(c)'
<1>1. PICK s \in CreateChan(r, c, t.bots) : ApplyToChan(s, {c}, t.action) /\ crew' = s.crew
  BY DEF SpringChan
<1>2. /\ Typed(s.in, s.crew) /\ Counted(s.in, s.crew)
      /\ Exact(r.in, r.crew) /\ ~Manned(r, c) => Exact(s.in, s.crew)
      /\ SameUsers(s.in, r.in)
      /\ Crowd(s.in, c) >= t.bots
      /\ \A d \in Chans \ {c} : s.in[d] = r.in[d]
  BY CreateChanWorks
<1>3. SameUsers(s.in, in)
  BY <1>2 DEF SameUsers
<1>4. odd' = (odd \/ Manned(r, c)) /\ unmanned' = unmanned \ {c}
  BY DEF SpringChan
<1>5. /\ UsersOK' /\ AkilledAreDoomed'
      /\ Typed(in, crew)' /\ Counted(in, crew)' /\ (Exact(s.in, s.crew) => Exact(in, crew)')
      /\ \A d \in Chans : in'[d] \intersect Clients = s.in[d] \intersect Clients
      /\ \A d \in Chans : HeldIn(d) => HeldIn(d)'
      /\ \A d \in {c} : HeldIn(d)'
  BY <1>1, <1>2, <1>3, ApplyKeeps
<1>6. CountsOK' /\ odd' \in BOOLEAN
  BY <1>2, <1>4, <1>5 DEF CountsOK
<1>7. \A d \in Chans : Crowd(in', d) = Crowd(s.in, d)
  BY <1>5 DEF Crowd
<1>8. \A d \in Chans \ {c} : Crowd(s.in, d) = Crowd(r.in, d)
  BY <1>2 DEF Crowd
<1> QED BY <1>2, <1>4, <1>5, <1>6, <1>7, <1>8

\* Setting a trap without bots.
LEMMA SpringMaskWorks ==
  ASSUME UsersOK, AkilledAreDoomed, odd \in BOOLEAN,
         NEW r, Typed(r.in, r.crew), Counted(r.in, r.crew), ~odd => Exact(r.in, r.crew),
         SameUsers(r.in, in), NEW m \in Masks, NEW action, SpringMask(r, m, action)
  PROVE  /\ UsersOK' /\ AkilledAreDoomed' /\ odd' \in BOOLEAN /\ CountsOK'
         /\ \A d \in Chans : Crowd(in', d) = Crowd(r.in, d)
         /\ unmanned' = unmanned
         /\ \A d \in Chans : HeldIn(d) => HeldIn(d)'
         /\ Held(m)'
<1>1. ApplyToChan(r, Covers[m], action) /\ crew' = r.crew /\ odd' = odd /\ unmanned' = unmanned
  BY DEF SpringMask
<1>2. Covers[m] \in SUBSET Chans
  BY UsersAreNoClients
<1>3. /\ UsersOK' /\ AkilledAreDoomed'
      /\ Typed(in, crew)' /\ Counted(in, crew)' /\ (Exact(r.in, r.crew) => Exact(in, crew)')
      /\ \A d \in Chans : in'[d] \intersect Clients = r.in[d] \intersect Clients
      /\ \A d \in Chans : HeldIn(d) => HeldIn(d)'
      /\ \A d \in Covers[m] : HeldIn(d)'
  BY <1>1, <1>2, ApplyKeeps
<1>4. CountsOK'
  BY <1>1, <1>3 DEF CountsOK
<1>5. \A d \in Chans : Crowd(in', d) = Crowd(r.in, d)
  BY <1>3 DEF Crowd
<1>6. Held(m)'
  BY <1>3 DEF Held
<1> QED BY <1>1, <1>3, <1>4, <1>5, <1>6

-----------------------------------------------------------------------------
(* The steps *)

Now == [in |-> in, crew |-> crew]

\* The clients as they are meet what is asked of those a step works on.
LEMMA NowIsCounted ==
  ASSUME CountsOK
  PROVE  /\ Now.in = in /\ Now.crew = crew
         /\ Typed(Now.in, Now.crew) /\ Counted(Now.in, Now.crew)
         /\ (~odd => Exact(Now.in, Now.crew)) /\ SameUsers(Now.in, in)
<1>1. Now.in = in /\ Now.crew = crew
  BY DEF Now
<1>2. SameUsers(in, in)
  BY DEF SameUsers
<1> QED BY <1>1, <1>2 DEF CountsOK

\* There are no traps and no clients before the list is loaded.
LEMMA InitInvariant == Init => IInv
<1> SUFFICES ASSUME Init PROVE IInv
  OBVIOUS
<1>1. /\ traps = Empty /\ crew = Empty /\ online = Users /\ in \in [Chans -> SUBSET Users]
      /\ akills = {} /\ todo = {} /\ loaded = FALSE /\ odd = FALSE
  BY DEF Init
<1>2. DOMAIN traps = {} /\ DOMAIN crew = {}
  BY <1>1 DEF Empty
<1>3. Typed(in, crew)
  <2>1. crew \in [DOMAIN crew -> Nat]
    BY <1>1 DEF Empty
  <2>2. in \in [Chans -> SUBSET Actors]
    BY <1>1 DEF Actors
  <2> QED BY <1>2, <2>1, <2>2 DEF Typed
<1>4. Counted(in, crew) /\ Exact(in, crew)
  BY <1>1, <1>2, UsersAreNoClients DEF Counted, Exact
<1> QED BY <1>1, <1>2, <1>3, <1>4
        DEF IInv, TrapsOK, UsersOK, CountsOK, MannedWell, AkilledAreDoomed, TrapsInForce

\* A trap read from the database has no bots until the initialisation.
LEMMA UnserializeKeepsIt ==
  ASSUME IInv, NEW m \in Masks, NEW t \in Entry, Unserialize(m, t)
  PROVE  IInv'
<1>1. /\ ~loaded /\ m \notin DOMAIN traps /\ Legal(m, t)
      /\ traps' = Put(traps, m, t) /\ unmanned' = unmanned \union Covers[m]
      /\ UNCHANGED <<loaded, synced, in, crew, online, akills, doomed, registered, todo, odd>>
  BY DEF Unserialize
<1>2. /\ DOMAIN traps' = DOMAIN traps \union {m} /\ traps'[m] = t
      /\ \A d \in DOMAIN traps : d # m => traps'[d] = traps[d]
  BY <1>1 DEF Put
<1>3. TrapsOK'
  BY <1>1, <1>2 DEF IInv, TrapsOK, Active, Legal
<1>4. MannedWell'
  <2>1. m \in Chans => m \in unmanned'
    BY <1>1, UsersAreNoClients
  <2>2. \A d \in Chans : Crowd(in, d)' = Crowd(in, d)
    BY <1>1 DEF Crowd
  <2> QED BY <1>1, <1>2, <2>1, <2>2 DEF IInv, MannedWell, Active
<1>5. UsersOK' /\ AkilledAreDoomed' /\ odd' \in BOOLEAN /\ TrapsInForce'
  BY <1>1 DEF IInv, UsersOK, AkilledAreDoomed, TrapsInForce
<1>6. CountsOK'
  BY <1>1 DEF IInv, CountsOK, Typed, Counted, Exact, InChans, ChansOf
<1> QED BY <1>3, <1>4, <1>5, <1>6 DEF IInv

\* The constructor and the end of the burst start the initialisation over all traps.
LEMMA StartKeepsIt ==
  ASSUME IInv, OSChanTrap \/ OnUplinkSync
  PROVE  IInv'
<1>1. /\ UNCHANGED <<traps, in, crew, online, akills, doomed, registered, odd, unmanned>>
      /\ todo' \subseteq DOMAIN traps
      /\ loaded' /\ synced' => todo' = DOMAIN traps
  BY DEF OSChanTrap, OnUplinkSync
<1>2. TrapsOK' /\ TrapsInForce'
  BY <1>1 DEF IInv, TrapsOK, Active, TrapsInForce
<1>3. UsersOK' /\ AkilledAreDoomed' /\ odd' \in BOOLEAN
  BY <1>1 DEF IInv, UsersOK, AkilledAreDoomed
<1>4. CountsOK'
  BY <1>1 DEF IInv, CountsOK, Typed, Counted, Exact, InChans, ChansOf
<1>5. MannedWell'
  BY <1>1 DEF IInv, MannedWell, Active, Crowd
<1> QED BY <1>2, <1>3, <1>4, <1>5 DEF IInv

\* What was in force stays so, and so does a trap just set.
LEMMA ForceGrows ==
  ASSUME IInv, NEW m, loaded' = loaded, synced' = synced,
         DOMAIN traps' \ todo' \subseteq (DOMAIN traps \ todo) \union {m},
         \A d \in Chans : HeldIn(d) => HeldIn(d)', Held(m)'
  PROVE  TrapsInForce'
<1> SUFFICES ASSUME loaded' /\ synced', NEW k \in DOMAIN traps' \ todo'
             PROVE  Held(k)'
  BY DEF TrapsInForce
<1>1. CASE k = m
  BY <1>1
<1>2. CASE k # m
  <2>1. Held(k) /\ k \in Masks
    BY <1>2 DEF IInv, TrapsInForce, TrapsOK
  <2> QED BY <2>1, UsersAreNoClients DEF Held
<1> QED BY <1>1, <1>2

\* A turn of the initialisation puts one more trap in force.
LEMMA InitTrapKeepsIt ==
  ASSUME IInv, NEW m \in Masks, InitTrap(m)
  PROVE  IInv'
<1>1. m \in todo /\ todo' = todo \ {m} /\ m \in DOMAIN traps
      /\ UNCHANGED <<loaded, synced, traps, registered>>
  BY DEF InitTrap, IInv, TrapsOK
<1>2. TrapsOK'
  BY <1>1 DEF IInv, TrapsOK, Active
<1>3. CASE Active(m)
  <2>1. m \in Chans /\ traps[m] \in Entry
    BY <1>1, <1>3 DEF IInv, TrapsOK
  <2>2. traps[m].bots \in Nat \ {0}
    <3>1. traps[m].bots \in BotCounts
      BY <2>1 DEF Entry
    <3>2. traps[m].bots \in Nat /\ traps[m].bots > 0
      BY <1>3, <3>1, ConfigAssumption DEF Active
    <3> QED BY <3>2
  <2>3. SpringChan(Now, m, traps[m])
    BY <1>3 DEF InitTrap, Now
  <2>4. /\ UsersOK' /\ AkilledAreDoomed' /\ odd' \in BOOLEAN /\ CountsOK'
        /\ Crowd(in', m) >= traps[m].bots
        /\ \A d \in Chans \ {m} : Crowd(in', d) = Crowd(in, d)
        /\ unmanned' = unmanned \ {m}
        /\ \A d \in Chans : HeldIn(d) => HeldIn(d)'
        /\ HeldIn(m)'
    BY <2>1, <2>2, <2>3, NowIsCounted, SpringChanWorks DEF IInv
  <2>5. Held(m)'
    BY <2>1, <2>4, UsersAreNoClients DEF Held
  <2>6. \A d \in Chans : Crowd(in, d)' = Crowd(in', d)
    BY DEF Crowd
  <2>7. MannedWell'
    BY <1>1, <2>4, <2>6 DEF IInv, MannedWell, Active
  <2>8. TrapsInForce'
    BY <1>1, <2>4, <2>5, ForceGrows
  <2> QED BY <1>2, <2>4, <2>7, <2>8 DEF IInv
<1>4. CASE ~Active(m)
  <2>1. SpringMask(Now, m, traps[m].action)
    BY <1>4 DEF InitTrap, Now
  <2>2. /\ UsersOK' /\ AkilledAreDoomed' /\ odd' \in BOOLEAN /\ CountsOK'
        /\ \A d \in Chans : Crowd(in', d) = Crowd(in, d)
        /\ unmanned' = unmanned
        /\ \A d \in Chans : HeldIn(d) => HeldIn(d)'
        /\ Held(m)'
    BY <2>1, NowIsCounted, SpringMaskWorks DEF IInv
  <2>3. \A d \in Chans : Crowd(in, d)' = Crowd(in', d)
    BY DEF Crowd
  <2>4. MannedWell'
    BY <1>1, <2>2, <2>3 DEF IInv, MannedWell, Active
  <2>5. TrapsInForce'
    BY <1>1, <2>2, ForceGrows
  <2> QED BY <1>2, <2>2, <2>4, <2>5 DEF IInv
<1> QED BY <1>3, <1>4

\* What is left of the clients when the traps on cs are deleted.
LEMMA PartedNow ==
  ASSUME CountsOK, NEW cs, NEW r, r = PartClients(Now, cs)
  PROVE  /\ Typed(r.in, r.crew) /\ Counted(r.in, r.crew) /\ (~odd => Exact(r.in, r.crew))
         /\ SameUsers(r.in, in)
         /\ \A d \in Chans \ cs : Crowd(r.in, d) = Crowd(in, d)
<1>1. Now.in = in /\ Now.crew = crew
      /\ Typed(Now.in, Now.crew) /\ Counted(Now.in, Now.crew) /\ (~odd => Exact(Now.in, Now.crew))
  BY NowIsCounted
<1>2. /\ Typed(r.in, r.crew) /\ Counted(r.in, r.crew)
      /\ Exact(Now.in, Now.crew) => Exact(r.in, r.crew)
      /\ SameUsers(r.in, Now.in)
      /\ \A d \in Chans \ cs : r.in[d] = Now.in[d]
  BY <1>1, PartKeepsCounts
<1>3. \A d \in Chans \ cs : Crowd(r.in, d) = Crowd(in, d)
  BY <1>1, <1>2 DEF Crowd
<1> QED BY <1>1, <1>2, <1>3

\* ADD replaces a trap with the same mask: its clients part before the new ones are sent.
LEMMA DoAddKeepsIt ==
  ASSUME IInv, NEW m \in Masks, NEW t \in Entry, DoAdd(m, t)
  PROVE  IInv'
<1> DEFINE cs == IF m \in DOMAIN traps /\ Active(m) THEN {m} ELSE {}
           r == PartClients(Now, cs)
<1>1. /\ loaded' = loaded /\ synced' = synced /\ todo' = todo /\ Idle /\ Legal(m, t)
      /\ traps' = Put(traps, m, t)
      /\ IF t.bots > 0 THEN SpringChan(r, m, t) ELSE SpringMask(r, m, t.action)
  BY DEF DoAdd, Command, Now
<1>2. /\ DOMAIN traps' = DOMAIN traps \union {m} /\ traps'[m] = t
      /\ \A d \in DOMAIN traps : d # m => traps'[d] = traps[d]
  BY <1>1 DEF Put
<1>3. TrapsOK'
  BY <1>1, <1>2 DEF IInv, TrapsOK, Active, Legal
<1>4. /\ Typed(r.in, r.crew) /\ Counted(r.in, r.crew) /\ (~odd => Exact(r.in, r.crew))
      /\ SameUsers(r.in, in)
      /\ \A d \in Chans \ cs : Crowd(r.in, d) = Crowd(in, d)
  BY PartedNow DEF IInv
<1>5. cs \subseteq {m}
  OBVIOUS
<1> HIDE DEF cs, r
<1>6. \A d \in Chans : Crowd(in, d)' = Crowd(in', d)
  BY DEF Crowd
<1>7. t.bots \in Nat
  BY ConfigAssumption DEF Entry
<1>8. CASE t.bots > 0
  <2>1. m \in Chans /\ t.bots \in Nat \ {0} /\ SpringChan(r, m, t)
    BY <1>1, <1>7, <1>8 DEF Legal
  <2>2. /\ UsersOK' /\ AkilledAreDoomed' /\ odd' \in BOOLEAN /\ CountsOK'
        /\ Crowd(in', m) >= t.bots
        /\ \A d \in Chans \ {m} : Crowd(in', d) = Crowd(r.in, d)
        /\ unmanned' = unmanned \ {m}
        /\ \A d \in Chans : HeldIn(d) => HeldIn(d)'
        /\ HeldIn(m)'
    BY <1>4, <2>1, SpringChanWorks DEF IInv
  <2>3. Held(m)'
    BY <2>1, <2>2, UsersAreNoClients DEF Held
  <2>4. \A d \in Chans \ {m} : Crowd(in', d) = Crowd(in, d)
    BY <1>4, <1>5, <2>2
  <2>5. MannedWell'
    BY <1>2, <1>6, <2>2, <2>4 DEF IInv, MannedWell, Active
  <2>6. TrapsInForce'
    BY <1>1, <1>2, <2>2, <2>3, ForceGrows
  <2> QED BY <1>3, <2>2, <2>5, <2>6 DEF IInv
<1>9. CASE ~(t.bots > 0)
  <2>1. SpringMask(r, m, t.action)
    BY <1>1, <1>9
  <2>2. /\ UsersOK' /\ AkilledAreDoomed' /\ odd' \in BOOLEAN /\ CountsOK'
        /\ \A d \in Chans : Crowd(in', d) = Crowd(r.in, d)
        /\ unmanned' = unmanned
        /\ \A d \in Chans : HeldIn(d) => HeldIn(d)'
        /\ Held(m)'
    BY <1>4, <2>1, SpringMaskWorks DEF IInv
  <2>3. \A d \in Chans \ {m} : Crowd(in', d) = Crowd(in, d)
    BY <1>4, <1>5, <2>2
  <2>4. MannedWell'
    BY <1>2, <1>6, <1>9, <2>2, <2>3 DEF IInv, MannedWell, Active
  <2>5. TrapsInForce'
    BY <1>1, <1>2, <2>2, ForceGrows
  <2> QED BY <1>3, <2>2, <2>4, <2>5 DEF IInv
<1> QED BY <1>8, <1>9

\* DEL and CLEAR.
LEMMA DeleteKeepsIt ==
  ASSUME IInv, NEW ms, Command, Delete(ms)
  PROVE  IInv'
<1> DEFINE cs == {m \in ms : Active(m)}
           r == PartClients(Now, cs)
<1>1. /\ in' = r.in /\ crew' = r.crew /\ traps' = Only(traps, DOMAIN traps \ ms)
      /\ unmanned' = unmanned \union cs
      /\ UNCHANGED <<online, akills, doomed, registered, odd>>
      /\ loaded' = loaded /\ synced' = synced /\ todo' = todo /\ todo = {}
  BY DEF Delete, Command, Idle, Now
<1>2. /\ DOMAIN traps' = DOMAIN traps \ ms
      /\ \A d \in DOMAIN traps \ ms : traps'[d] = traps[d]
  BY <1>1 DEF Only
<1>3. /\ Typed(r.in, r.crew) /\ Counted(r.in, r.crew) /\ (~odd => Exact(r.in, r.crew))
      /\ SameUsers(r.in, in)
      /\ \A d \in Chans \ cs : Crowd(r.in, d) = Crowd(in, d)
  BY PartedNow DEF IInv
<1>4. TrapsOK'
  BY <1>1, <1>2 DEF IInv, TrapsOK, Active
<1>5. \A d \in Chans : Crowd(in, d)' = Crowd(in', d)
  BY DEF Crowd
<1>6. cs \subseteq ms
  OBVIOUS
<1> HIDE DEF cs, r
<1>7. CountsOK'
  BY <1>1, <1>3 DEF CountsOK, Typed, Counted, Exact, InChans, ChansOf
<1>8. MannedWell'
  BY <1>1, <1>2, <1>3, <1>5, <1>6 DEF IInv, MannedWell, Active
<1>9. UsersOK' /\ AkilledAreDoomed' /\ odd' \in BOOLEAN
  BY <1>1, <1>3 DEF IInv, UsersOK, AkilledAreDoomed, SameUsers
<1>10. \A d \in Chans : HeldIn(d) => HeldIn(d)'
  BY <1>1, <1>3, UsersAreNoClients DEF HeldIn, SameUsers
<1>11. TrapsInForce'
  BY <1>1, <1>2, <1>10, UsersAreNoClients DEF IInv, TrapsInForce, Held, TrapsOK
<1> QED BY <1>4, <1>7, <1>8, <1>9, <1>11 DEF IInv

\* A user joins: where a trap covers the channel, the AKILL is on its way.
LEMMA OnJoinChannelKeepsIt ==
  ASSUME IInv, NEW u \in Users, NEW c \in Chans, OnJoinChannel(u, c)
  PROVE  IInv'
<1> DEFINE hs == IF loaded /\ u \notin Opers /\ c \in Trapped THEN {HostOf[u]} \ akills ELSE {}
<1>1. /\ ~(loaded /\ todo # {}) /\ u \in online /\ u \notin in[c]
      /\ in' = [in EXCEPT ![c] = @ \union {u}]
      /\ akills' = akills \union hs /\ doomed' = doomed \union OnHosts(hs)
      /\ UNCHANGED <<loaded, synced, traps, crew, online, registered, todo, odd, unmanned>>
  BY DEF OnJoinChannel, Idle
<1>2. /\ in' \in [Chans -> SUBSET Actors] /\ in'[c] = in[c] \union {u}
      /\ \A d \in Chans \ {c} : in'[d] = in[d]
  BY <1>1 DEF IInv, CountsOK, Typed, Actors
<1>3. \A d \in Chans : in'[d] \intersect Clients = in[d] \intersect Clients
  BY <1>2, UsersAreNoClients
<1>4. TrapsOK'
  BY <1>1 DEF IInv, TrapsOK, Active
<1>5. CountsOK'
  <2>1. /\ Typed(in', crew) /\ Counted(in', crew) /\ (Exact(in, crew) => Exact(in', crew))
    <3>1. \A d \in Chans : in'[d] \intersect Addr = in[d] \intersect Addr
      BY <1>3, UsersAreNoClients
    <3> QED BY <1>2, <3>1, SameClients DEF IInv, CountsOK
  <2> QED BY <1>1, <2>1 DEF IInv, CountsOK, Typed, Counted, Exact, InChans, ChansOf
<1>6. MannedWell'
  BY <1>1, <1>3 DEF IInv, MannedWell, Active, Crowd
<1> HIDE DEF hs
<1>7. UsersOK' /\ odd' \in BOOLEAN
  BY <1>1, <1>2 DEF IInv, UsersOK
<1>8. AkilledAreDoomed'
  BY <1>1 DEF IInv, AkilledAreDoomed, OnHosts
<1>9. TrapsInForce'
  <2> SUFFICES ASSUME loaded, synced, NEW m \in DOMAIN traps, NEW d \in Covers[m]
               PROVE  HeldIn(d)'
    BY <1>1 DEF TrapsInForce, Held
  <2>1. d \in Chans /\ HeldIn(d)
    BY <1>1, UsersAreNoClients DEF IInv, TrapsInForce, TrapsOK, Held
  <2>2. CASE d # c
    BY <1>1, <1>2, <2>1, <2>2 DEF HeldIn
  <2>3. CASE u \in Opers
    BY <1>1, <1>2, <2>1, <2>3 DEF HeldIn, Ordinary
  <2>4. CASE d = c /\ u \notin Opers
    <3>1. c \in Trapped
      BY <2>4 DEF Trapped
    <3>2. hs = {HostOf[u]} \ akills
      BY <2>4, <3>1 DEF hs
    <3>3. u \in doomed'
      <4>1. CASE HostOf[u] \in akills
        BY <1>1, <4>1 DEF IInv, AkilledAreDoomed
      <4>2. CASE HostOf[u] \notin akills
        BY <1>1, <3>2, <4>2 DEF OnHosts
      <4> QED BY <4>1, <4>2
    <3> QED BY <1>1, <1>2, <2>1, <2>4, <3>3 DEF HeldIn
  <2> QED BY <2>2, <2>3, <2>4
<1> QED BY <1>4, <1>5, <1>6, <1>7, <1>8, <1>9 DEF IInv

\* Users come and go, AKILLs end: no client moves.
LEMMA NetworkKeepsIt ==
  ASSUME IInv,
         \/ \E u \in Users : Quit(u) \/ Connect(u) \/ (\E c \in Chans : Part(u, c))
         \/ \E h \in Hosts : AkillEnds(h)
  PROVE  IInv'
<1>1. UNCHANGED <<loaded, synced, traps, crew, registered, todo, odd, unmanned>>
  BY DEF Quit, Connect, AkillEnds, Part
<1>2. /\ in' \in [Chans -> SUBSET Actors]
      /\ \A d \in Chans : in'[d] \subseteq in[d] /\ in'[d] \intersect Clients = in[d] \intersect Clients
  <2>1. in \in [Chans -> SUBSET Actors]
    BY DEF IInv, CountsOK, Typed
  <2> QED BY <2>1, UsersAreNoClients DEF Quit, Connect, AkillEnds, Part
<1>3. TrapsOK'
  BY <1>1 DEF IInv, TrapsOK, Active
<1>4. CountsOK'
  <2>1. /\ Typed(in', crew) /\ Counted(in', crew) /\ (Exact(in, crew) => Exact(in', crew))
    <3>1. \A d \in Chans : in'[d] \intersect Addr = in[d] \intersect Addr
      BY <1>2, UsersAreNoClients
    <3> QED BY <1>2, <3>1, SameClients DEF IInv, CountsOK
  <2> QED BY <1>1, <2>1 DEF IInv, CountsOK, Typed, Counted, Exact, InChans, ChansOf
<1>5. MannedWell'
  BY <1>1, <1>2 DEF IInv, MannedWell, Active, Crowd
<1>6. UsersOK' /\ AkilledAreDoomed' /\ (\A d \in Chans : HeldIn(d) => HeldIn(d)')
  <2>1. ASSUME NEW u \in Users, Quit(u)
        PROVE  UsersOK' /\ AkilledAreDoomed' /\ (\A d \in Chans : HeldIn(d) => HeldIn(d)')
    <3>1. /\ online' = online \ {u} /\ doomed' = doomed \ {u} /\ akills' = akills
          /\ in' = [c \in Chans |-> in[c] \ {u}]
      BY <2>1 DEF Quit
    <3> QED BY <3>1 DEF IInv, UsersOK, AkilledAreDoomed, HeldIn
  <2>2. ASSUME NEW u \in Users, Connect(u)
        PROVE  UsersOK' /\ AkilledAreDoomed' /\ (\A d \in Chans : HeldIn(d) => HeldIn(d)')
    BY <2>2 DEF Connect, IInv, UsersOK, AkilledAreDoomed, HeldIn
  <2>3. ASSUME NEW h \in Hosts, AkillEnds(h)
        PROVE  UsersOK' /\ AkilledAreDoomed' /\ (\A d \in Chans : HeldIn(d) => HeldIn(d)')
    BY <2>3 DEF AkillEnds, IInv, UsersOK, AkilledAreDoomed, HeldIn
  <2>4. ASSUME NEW u \in Users, NEW c \in Chans, Part(u, c)
        PROVE  UsersOK' /\ AkilledAreDoomed' /\ (\A d \in Chans : HeldIn(d) => HeldIn(d)')
    <3>1. online' = online /\ doomed' = doomed /\ akills' = akills
      BY <2>4 DEF Part
    <3> QED BY <1>2, <3>1 DEF IInv, UsersOK, AkilledAreDoomed, HeldIn
  <2> QED BY <2>1, <2>2, <2>3, <2>4
<1>7. TrapsInForce'
  BY <1>1, <1>6, UsersAreNoClients DEF IInv, TrapsInForce, TrapsOK, Held
<1> QED BY <1>1, <1>3, <1>4, <1>5, <1>6, <1>7 DEF IInv

\* A kick leaves the count of the client too high, which odd records.
LEMMA KickKeepsIt ==
  ASSUME IInv, NEW b \in Clients, NEW c \in Chans, Kick(b, c)
  PROVE  IInv'
<1>1. /\ in' = [in EXCEPT ![c] = @ \ {b}] /\ odd' = TRUE /\ unmanned' = unmanned \union {c}
      /\ UNCHANGED <<loaded, synced, traps, crew, online, akills, doomed, registered, todo>>
  BY DEF Kick
<1>2. /\ in' \in [Chans -> SUBSET Actors]
      /\ \A d \in Chans : in'[d] \subseteq in[d] /\ in'[d] \intersect Users = in[d] \intersect Users
      /\ \A d \in Chans \ {c} : in'[d] = in[d]
  BY <1>1, UsersAreNoClients DEF IInv, CountsOK, Typed
<1>3. TrapsOK'
  BY <1>1 DEF IInv, TrapsOK, Active
<1>4. CountsOK'
  <2>1. Typed(in', crew)
    BY <1>2 DEF IInv, CountsOK, Typed
  <2>2. ASSUME NEW a \in DOMAIN crew PROVE crew[a] >= InChans(in', a)
    <3>1. ChansOf(in', a) \subseteq ChansOf(in, a)
      BY <1>2 DEF ChansOf
    <3>2. InChans(in', a) <= InChans(in, a)
      BY <3>1, FewerChans
    <3>3. /\ crew[a] \in Nat /\ crew[a] >= InChans(in, a)
          /\ InChans(in, a) \in Nat /\ InChans(in', a) \in Nat
      BY InChansType DEF IInv, CountsOK, Typed, Counted
    <3> QED BY <3>2, <3>3
  <2>3. Counted(in', crew)
    BY <1>2, <2>2 DEF IInv, CountsOK, Counted
  <2> QED BY <1>1, <2>1, <2>3 DEF CountsOK, Typed, Counted, InChans, ChansOf
<1>5. MannedWell'
  BY <1>1, <1>2 DEF IInv, MannedWell, Active, Crowd
<1>6. UsersOK' /\ AkilledAreDoomed'
  BY <1>1, <1>2 DEF IInv, UsersOK, AkilledAreDoomed
<1>7. \A d \in Chans : HeldIn(d) => HeldIn(d)'
  BY <1>1, <1>2, UsersAreNoClients DEF HeldIn
<1>8. TrapsInForce'
  BY <1>1, <1>7, UsersAreNoClients DEF IInv, TrapsInForce, TrapsOK, Held
<1> QED BY <1>1, <1>3, <1>4, <1>5, <1>6, <1>8 DEF IInv

\* Steps that change nothing.
LEMMA StutterKeepsIt == ASSUME IInv, UNCHANGED vars PROVE IInv'
<1>1. UNCHANGED <<loaded, synced, traps, in, crew, online, akills, doomed, todo, odd, unmanned>>
  BY DEF vars
<1>2. TrapsOK' /\ UsersOK' /\ odd' \in BOOLEAN /\ AkilledAreDoomed'
  BY <1>1 DEF IInv, TrapsOK, Active, UsersOK, AkilledAreDoomed
<1>3. CountsOK'
  BY <1>1 DEF IInv, CountsOK, Typed, Counted, Exact, InChans, ChansOf
<1>4. MannedWell' /\ TrapsInForce'
  BY <1>1 DEF IInv, MannedWell, Active, Crowd, TrapsInForce, Held, HeldIn
<1> QED BY <1>2, <1>3, <1>4 DEF IInv

\* Every step of the system.
LEMMA NextKeepsIt == IInv /\ [Next]_vars => IInv'
<1> SUFFICES ASSUME IInv, [Next]_vars PROVE IInv'
  OBVIOUS
<1>1. ASSUME NEW m \in Masks, NEW t \in Entry, Unserialize(m, t) \/ DoAdd(m, t)
      PROVE  IInv'
  BY <1>1, UnserializeKeepsIt, DoAddKeepsIt
<1>2. CASE OSChanTrap \/ OnUplinkSync
  BY <1>2, StartKeepsIt
<1>3. ASSUME NEW m \in Masks, InitTrap(m) PROVE IInv'
  BY <1>3, InitTrapKeepsIt
<1>4. ASSUME NEW ms \in SUBSET Masks, DoDel(ms) PROVE IInv'
  <2>1. Command /\ Delete(ms)
    BY <1>4 DEF DoDel
  <2> QED BY <2>1, DeleteKeepsIt
<1>5. CASE DoClear
  <2>1. Command /\ Delete(DOMAIN traps)
    BY <1>5 DEF DoClear
  <2> QED BY <2>1, DeleteKeepsIt
<1>6. ASSUME NEW u \in Users, Quit(u) \/ Connect(u) \/ (\E c \in Chans : OnJoinChannel(u, c) \/ Part(u, c))
      PROVE  IInv'
  <2>1. CASE \E c \in Chans : OnJoinChannel(u, c)
    BY <2>1, OnJoinChannelKeepsIt
  <2>2. CASE Quit(u) \/ Connect(u) \/ \E c \in Chans : Part(u, c)
    BY <2>2, NetworkKeepsIt
  <2> QED BY <1>6, <2>1, <2>2
<1>7. ASSUME NEW h \in Hosts, AkillEnds(h) PROVE IInv'
  BY <1>7, NetworkKeepsIt
<1>8. ASSUME NEW b \in Clients, NEW c \in Chans, Kick(b, c) PROVE IInv'
  BY <1>8, KickKeepsIt
<1>9. CASE UNCHANGED vars
  BY <1>9, StutterKeepsIt
<1> QED BY <1>1, <1>2, <1>3, <1>4, <1>5, <1>6, <1>7, <1>8, <1>9 DEF Next

\* The strengthened invariant: counts and channels of clients agree, traps that nobody
\* kicked from are full at every turn of the initialisation, and an AKILL is never on a
\* user who stays.
THEOREM Invariance == Spec => []IInv
BY InitInvariant, NextKeepsIt, PTL DEF Spec

\* A created client is counted for every channel it is in, and exactly for these unless a
\* client was kicked or sent twice: it is destroyed with its last trap, not before.
THEOREM CountsAreRight == Spec => []ClientsAreCounted
<1>1. IInv => ClientsAreCounted
  <2> SUFFICES ASSUME IInv PROVE ClientsAreCounted
    OBVIOUS
  <2>1. \A c \in Chans : in[c] \intersect Addr \subseteq DOMAIN crew
    BY DEF IInv, CountsOK, Counted
  <2>2. ASSUME NEW b \in DOMAIN crew
        PROVE  /\ crew[b] >= InChans(in, b)
               /\ ~odd => crew[b] = InChans(in, b) /\ InChans(in, b) > 0
    BY DEF IInv, CountsOK, Counted, Exact
  <2> QED BY <2>1, <2>2 DEF ClientsAreCounted, InChans
<1> QED BY <1>1, Invariance, PTL

\* An active trap has its clients, whatever happens to the traps around it, until one of
\* them is kicked.
THEOREM TrapsKeepTheirBots == Spec => []TrapsAreManned
<1>1. IInv => TrapsAreManned
  BY DEF IInv, MannedWell, TrapsAreManned, Crowd
<1> QED BY <1>1, Invariance, PTL

\* Once the traps are in force, every ordinary user in a trapped channel is on the way out.
THEOREM NobodyIsOverlooked == Spec => []TrapsHoldNobody
<1>1. IInv => TrapsHoldNobody
  <2> SUFFICES ASSUME IInv, loaded, synced, todo = {}, NEW m \in DOMAIN traps, NEW c \in Covers[m]
               PROVE  in[c] \intersect Ordinary \subseteq doomed
    BY DEF TrapsHoldNobody, Trapped, Idle
  <2> QED BY DEF IInv, TrapsInForce, Held, HeldIn
<1> QED BY <1>1, Invariance, PTL

=============================================================================
