--------------------------- MODULE HelpServProofs ---------------------------
(***************************************************************************)
(* Proofs about HelpServ for any accounts, names, expiry times, cooldowns  *)
(* and pruning limits.                                                     *)
(***************************************************************************)
EXTENDS HelpServ, TLAPS

IsTicket(t) ==
  /\ t = [account |-> t.account, priority |-> t.priority, waiting |-> t.waiting, age |-> t.age]
  /\ t.account \in Names /\ t.priority \in 0..2 /\ t.waiting \in BOOLEAN /\ t.age \in Nat

\* What IInv says of a copy of the tickets with its counter.
Sound(ts, n) ==
  /\ DOMAIN ts \subseteq Nat \ {0} /\ n \in Nat \ {0}
  /\ \A id \in DOMAIN ts : IsTicket(ts[id]) /\ id < n
  /\ OnePerAccount(ts)

Scalars ==
  /\ up \in BOOLEAN /\ readonly \in BOOLEAN /\ pending \in BOOLEAN /\ timer \in BOOLEAN
  /\ display \in [Owners -> Names]
  /\ pruned \in {Never} \union Nat
  /\ disk = [tickets |-> disk.tickets, next |-> disk.next, cool |-> disk.cool]

Parts ==
  /\ Scalars
  /\ Sound(tickets, next) /\ Sound(disk.tickets, disk.next)
  /\ CooldownsOK(cool) /\ CooldownsOK(disk.cool)
  /\ NothingLeft

\* The inductive invariant, regrouped by copy (IInv).
LEMMA Regroup == IInv <=> Parts
  BY DEF IInv, Parts, Scalars, Sound, IsTicket, TypeOK, TicketsOK, OneTicketPerAccount, IdsAreFresh

-----------------------------------------------------------------------------
(* Tickets *)

\* Dropping tickets keeps the rest sound (Kept, Without).
LEMMA OnlySound ==
  ASSUME NEW ts, NEW n, Sound(ts, n), NEW S \in SUBSET DOMAIN ts
  PROVE  Sound(Only(ts, S), n)
  <1>1. DOMAIN Only(ts, S) = S /\ \A id \in S : Only(ts, S)[id] = ts[id]
    BY DEF Only
  <1> QED BY <1>1 DEF Sound, OnePerAccount

\* So does changing one without changing its account (Edit, UpdateTicket).
LEMMA ChangedSound ==
  ASSUME NEW ts, NEW n, Sound(ts, n), NEW id \in DOMAIN ts,
         NEW t, IsTicket(t), t.account = ts[id].account
  PROVE  Sound([ts EXCEPT ![id] = t], n)
  <1> DEFINE new == [ts EXCEPT ![id] = t]
  <1>1. /\ DOMAIN new = DOMAIN ts /\ new[id] = t
        /\ \A x \in DOMAIN ts \ {id} : new[x] = ts[x]
    OBVIOUS
  <1>2. \A x \in DOMAIN new : IsTicket(new[x]) /\ x < n /\ new[x].account = ts[x].account
    BY <1>1 DEF Sound
  <1> HIDE DEF new
  <1>3. Sound(new, n)
    BY <1>1, <1>2 DEF Sound, OnePerAccount
  <1> QED BY <1>3 DEF new

\* And so does a new ticket of an account that has none (OpenTicket).
LEMMA NewSound ==
  ASSUME NEW ts, NEW n, Sound(ts, n), NEW a \in Names, \A id \in DOMAIN ts : ts[id].account # a
  PROVE  Sound(Put(ts, n, NewTicket(a)), n + 1)
  <1> DEFINE new == Put(ts, n, NewTicket(a))
  <1>1. /\ DOMAIN new = DOMAIN ts \union {n} /\ new[n] = NewTicket(a)
        /\ \A x \in DOMAIN ts : x # n /\ new[x] = ts[x]
    BY DEF Put, Sound
  <1>2. IsTicket(NewTicket(a)) /\ NewTicket(a).account = a
    BY DEF IsTicket, NewTicket
  <1> HIDE DEF new
  <1>3. \A x \in DOMAIN new : IsTicket(new[x]) /\ x < n + 1
    BY <1>1, <1>2 DEF Sound
  <1>4. OnePerAccount(new)
    BY <1>1, <1>2 DEF Sound, OnePerAccount
  <1>5. Sound(new, n + 1)
    BY <1>1, <1>3, <1>4 DEF Sound
  <1> QED BY <1>5 DEF new

\* An empty queue is sound.
LEMMA EmptySound == Sound(Empty, 1)
  BY DEF Sound, Empty, OnePerAccount

\* A ticket with another state, priority or age is a ticket.
LEMMA TicketEdits ==
  ASSUME NEW t, IsTicket(t)
  PROVE  /\ IsTicket([t EXCEPT !.age = 0])
         /\ \A p \in 0..2 : IsTicket([t EXCEPT !.priority = p])
         /\ \A w \in BOOLEAN : IsTicket([t EXCEPT !.waiting = w])
         /\ \A k \in Nat : IsTicket([t EXCEPT !.age = k])
  BY DEF IsTicket

\* Growing older keeps tickets sound (Tick).
LEMMA OlderSound ==
  ASSUME NEW ts, NEW n, Sound(ts, n)
  PROVE  Sound(OlderTickets(ts), n)
  <1> DEFINE new == OlderTickets(ts)
  <1>1. DOMAIN new = DOMAIN ts
    BY DEF OlderTickets
  <1>2. \A id \in DOMAIN ts : new[id] = [ts[id] EXCEPT !.age = Older(ts[id].age, TicketAge)]
    BY DEF OlderTickets
  <1>3. ASSUME NEW id \in DOMAIN ts
        PROVE  IsTicket(new[id]) /\ new[id].account = ts[id].account
    <2>1. IsTicket(ts[id]) BY DEF Sound
    <2>2. Older(ts[id].age, TicketAge) \in Nat BY <2>1 DEF Older, IsTicket
    <2> DEFINE k == Older(ts[id].age, TicketAge)
    <2>a. \A j \in Nat : IsTicket([ts[id] EXCEPT !.age = j]) BY <2>1, TicketEdits
    <2>b. new[id] = [ts[id] EXCEPT !.age = k] BY <1>2
    <2> HIDE DEF new, k
    <2>c. IsTicket([ts[id] EXCEPT !.age = k]) BY <2>a, <2>2 DEF k
    <2>3. IsTicket(new[id]) BY <2>b, <2>c
    <2>4. new[id].account = ts[id].account BY <2>1, <2>b DEF IsTicket
    <2> QED BY <2>3, <2>4
  <1> HIDE DEF new
  <1>4. Sound(new, n)
    BY <1>1, <1>3 DEF Sound, OnePerAccount
  <1> QED BY <1>4 DEF new

-----------------------------------------------------------------------------
(* Cooldowns *)

\* Cooldowns keep their type when some are pruned, one is set or time passes
\* (PruneCooldownMaps, CommandHelpServHelpMe, CommandHelpServRequest).
LEMMA CooldownsKeep ==
  ASSUME NEW c, CooldownsOK(c)
  PROVE  /\ \A S \in SUBSET DOMAIN c : CooldownsOK(Only(c, S))
         /\ \A k \in Keys : CooldownsOK(Put(c, k, 0))
         /\ CooldownsOK(OlderCooldowns(c))
  <1>1. ASSUME NEW S \in SUBSET DOMAIN c PROVE CooldownsOK(Only(c, S))
    BY DEF CooldownsOK, Only
  <1>2. ASSUME NEW k \in Keys PROVE CooldownsOK(Put(c, k, 0))
    BY DEF CooldownsOK, Put
  <1>3. CooldownsOK(OlderCooldowns(c))
    BY DEF CooldownsOK, OlderCooldowns, Older
  <1> QED BY <1>1, <1>2, <1>3

\* No cooldowns are sound.
LEMMA EmptyCooldowns == CooldownsOK(Empty)
  BY DEF CooldownsOK, Empty

\* Pruned cooldowns are cooldowns, and a new one may be added.
LEMMA PrunedKeep ==
  ASSUME CooldownsOK(cool), NEW a \in Names, NEW kind \in {"helpme", "request"}
  PROVE  CooldownsOK(PrunedCooldowns) /\ CooldownsOK(Put(PrunedCooldowns, <<kind, a>>, 0))
  <1>1. CooldownsOK(PrunedCooldowns)
    BY CooldownsKeep DEF PrunedCooldowns
  <1>2. <<kind, a>> \in Keys
    BY DEF Keys
  <1> QED BY <1>1, <1>2, CooldownsKeep

-----------------------------------------------------------------------------
(* Every step keeps the invariant *)

\* What the handlers leave alone or set to a Boolean.
LEMMA ScheduleTypes ==
  ASSUME Scalars, ScheduleDBSave
  PROVE  pending' \in BOOLEAN /\ timer' \in BOOLEAN
  BY DEF Scalars, ScheduleDBSave

\* A handler that leaves sound tickets, a sound counter and cooldowns keeps the invariant.
LEMMA LeaveKeeps ==
  ASSUME Parts, up, NEW ts, Leave(ts), Sound(ts, next'), CooldownsOK(cool'),
         pruned' \in {Never} \union Nat
  PROVE  Parts'
  <1>1. Scalars'
    BY ScheduleTypes DEF Parts, Scalars, Leave
  <1>2. Sound(tickets', next') /\ Sound(disk'.tickets, disk'.next) /\ CooldownsOK(disk'.cool)
    BY DEF Parts, Leave
  <1>3. NothingLeft'
    BY DEF Leave, NothingLeft
  <1> QED BY <1>1, <1>2, <1>3 DEF Parts

\* What pruning leaves of the queue is sound, less any ticket.
LEMMA KeptSound ==
  ASSUME Parts PROVE Sound(Kept, next) /\ \A id : Sound(Without(Kept, id), next)
  <1>1. Live \subseteq DOMAIN tickets
    BY DEF Live
  <1>2. Sound(tickets, next)
    BY DEF Parts
  <1>3. Sound(Kept, next)
    BY <1>1, <1>2, OnlySound DEF Kept
  <1>4. ASSUME NEW id PROVE Sound(Without(Kept, id), next)
    <2> DEFINE S == DOMAIN Kept \ {id}
    <2>1. S \in SUBSET DOMAIN Kept OBVIOUS
    <2>2. Sound(Only(Kept, S), next) BY <1>3, <2>1, OnlySound
    <2> QED BY <2>2 DEF Without
  <1> QED BY <1>3, <1>4

\* The live tickets are those in memory, unchanged.
LEMMA KeptAre == DOMAIN Kept = Live /\ \A id \in Live : Kept[id] = tickets[id]
  BY DEF Kept, Only

\* The time of the last pruning is known or never was.
LEMMA PruneTypes ==
  ASSUME Scalars, PruneCooldownMaps PROVE pruned' \in {Never} \union Nat
  BY DEF Scalars, PruneCooldownMaps

\* HELPME.
LEMMA HelpMeKeeps == ASSUME Parts, up, NEW a \in Names, HelpMe(a) PROVE Parts'
  <1>1. CooldownsOK(cool) /\ Scalars /\ Sound(tickets, next)
    BY DEF Parts
  <1>2. CooldownsOK(PrunedCooldowns) /\ CooldownsOK(Put(PrunedCooldowns, <<"helpme", a>>, 0))
    BY <1>1, PrunedKeep
  <1>3. CooldownsOK(cool') BY <1>2 DEF HelpMe
  <1>4. pruned' \in {Never} \union Nat BY <1>1, PruneTypes DEF HelpMe
  <1>5. Leave(tickets) /\ Sound(tickets, next') BY <1>1 DEF HelpMe
  <1> QED BY <1>3, <1>4, <1>5, LeaveKeeps

\* What an accepted REQUEST does to the cooldowns.
LEMMA AcceptKeeps ==
  ASSUME Parts, NEW a \in Names, Accept(a)
  PROVE  CooldownsOK(cool') /\ pruned' \in {Never} \union Nat
  <1>1. CooldownsOK(cool) /\ Scalars
    BY DEF Parts
  <1>2. CooldownsOK(Put(PrunedCooldowns, <<"request", a>>, 0))
    BY <1>1, PrunedKeep
  <1> QED BY <1>1, <1>2, PruneTypes DEF Accept

\* REQUEST.
LEMMA RequestKeeps == ASSUME Parts, up, NEW a \in Names, Request(a) PROVE Parts'
  <1>0. CooldownsOK(cool) /\ Scalars /\ Sound(Kept, next)
    BY KeptSound DEF Parts
  <1>1. CASE RefuseRequest(a)
    <2>1. CooldownsOK(cool') BY <1>0, <1>1, PrunedKeep DEF RefuseRequest
    <2>2. pruned' \in {Never} \union Nat BY <1>0, <1>1, PruneTypes DEF RefuseRequest
    <2>3. Leave(Kept) /\ Sound(Kept, next') BY <1>0, <1>1 DEF RefuseRequest
    <2> QED BY <2>1, <2>2, <2>3, LeaveKeeps
  <1>2. CASE UpdateTicket(a)
    <2>1. PICK id \in TicketsOf(a) :
            Accept(a) /\ Leave([Kept EXCEPT ![id].age = 0]) /\ next' = next
      BY <1>2 DEF UpdateTicket
    <2>2. id \in DOMAIN Kept BY KeptAre DEF TicketsOf
    <2> DEFINE t == [Kept[id] EXCEPT !.age = 0]
    <2>3. IsTicket(Kept[id]) BY <1>0, <2>2 DEF Sound
    <2>4. IsTicket(t) /\ t.account = Kept[id].account BY <2>3, TicketEdits DEF IsTicket
    <2> DEFINE ts == [Kept EXCEPT ![id] = t]
    <2>5. Leave(ts) BY <2>1
    <2>6. Sound(ts, next') BY <1>0, <2>1, <2>2, <2>4, ChangedSound
    <2> HIDE DEF ts, t
    <2>7. CooldownsOK(cool') /\ pruned' \in {Never} \union Nat BY <2>1, AcceptKeeps
    <2> QED BY <2>5, <2>6, <2>7, LeaveKeeps
  <1>3. CASE OpenTicket(a)
    <2>1. Accept(a) /\ Leave(Put(Kept, next, NewTicket(a))) /\ next' = next + 1
      BY <1>3 DEF OpenTicket
    <2>2. \A id \in DOMAIN Kept : Kept[id].account # a
      BY <1>3, KeptAre DEF OpenTicket, TicketsOf
    <2> DEFINE ts == Put(Kept, next, NewTicket(a))
    <2>3. Sound(ts, next') BY <1>0, <2>1, <2>2, NewSound
    <2>4. Leave(ts) BY <2>1
    <2> HIDE DEF ts
    <2>5. CooldownsOK(cool') /\ pruned' \in {Never} \union Nat BY <2>1, AcceptKeeps
    <2> QED BY <2>3, <2>4, <2>5, LeaveKeeps
  <1> QED BY <1>1, <1>2, <1>3 DEF Request

\* CANCEL and CLOSE.
LEMMA RemoveKeeps ==
  ASSUME Parts, up, NEW id, Leave(Without(Kept, id)), UNCHANGED <<next, cool, pruned>>
  PROVE  Parts'
  <1>1. Sound(Without(Kept, id), next') BY KeptSound
  <1>2. CooldownsOK(cool') /\ pruned' \in {Never} \union Nat BY DEF Parts, Scalars
  <1> QED BY <1>1, <1>2, LeaveKeeps

\* TAKE, ASSIGN, NOTE, PRIORITY, WAIT and UNWAIT.
LEMMA EditKeeps ==
  ASSUME Parts, up, NEW id \in Live, NEW t, IsTicket(t), t.account = tickets[id].account,
         Edit(id, t)
  PROVE  Parts'
  <1> DEFINE new == [t EXCEPT !.age = 0]
             ts  == [Kept EXCEPT ![id] = new]
  <1>1. IsTicket(new) /\ new.account = t.account BY TicketEdits DEF IsTicket
  <1>2. id \in DOMAIN Kept /\ Kept[id] = tickets[id] BY KeptAre
  <1>3. Leave(ts) /\ UNCHANGED <<next, cool, pruned>> BY DEF Edit
  <1>4. Sound(ts, next')
    <2>1. Sound(Kept, next) BY KeptSound
    <2> HIDE DEF new
    <2>2. Sound(ts, next) BY <2>1, <1>1, <1>2, ChangedSound
    <2> HIDE DEF ts
    <2> QED BY <2>2, <1>3
  <1> HIDE DEF ts
  <1>5. CooldownsOK(cool') /\ pruned' \in {Never} \union Nat BY <1>3 DEF Parts, Scalars
  <1> QED BY <1>3, <1>4, <1>5, LeaveKeeps

\* Staff commands on one ticket.
LEMMA EditsKeep ==
  ASSUME Parts, up, NEW id \in Live,
         \/ Take(id) \/ Assign(id) \/ Note(id) \/ Wait(id) \/ Unwait(id)
         \/ \E p \in 0..2 : Priority(id, p)
  PROVE  Parts'
  <1>1. IsTicket(tickets[id])
    BY DEF Parts, Sound, Live
  <1>2. CASE Take(id) \/ Assign(id) \/ Note(id)
    BY <1>1, <1>2, EditKeeps DEF Take, Assign, Note
  <1>3. ASSUME NEW w \in BOOLEAN, Edit(id, [tickets[id] EXCEPT !.waiting = w]) PROVE Parts'
    <2> DEFINE t == [tickets[id] EXCEPT !.waiting = w]
    <2>1. IsTicket(t) /\ t.account = tickets[id].account BY <1>1, TicketEdits DEF IsTicket
    <2>2. Edit(id, t) BY <1>3
    <2> HIDE DEF t
    <2> QED BY <2>1, <2>2, EditKeeps
  <1>4. ASSUME NEW p \in 0..2, Priority(id, p) PROVE Parts'
    <2> DEFINE t == [tickets[id] EXCEPT !.priority = p]
    <2>1. IsTicket(t) /\ t.account = tickets[id].account BY <1>1, TicketEdits DEF IsTicket
    <2>2. Edit(id, t) BY <1>4 DEF Priority
    <2> HIDE DEF t
    <2> QED BY <2>1, <2>2, EditKeeps
  <1>5. CASE Wait(id) BY <1>3, <1>5 DEF Wait
  <1>6. CASE Unwait(id) BY <1>3, <1>6 DEF Unwait
  <1> QED BY <1>2, <1>4, <1>5, <1>6

\* Every command keeps the parts of the invariant.
LEMMA CommandKeeps == ASSUME Parts, Command PROVE Parts'
  <1>0. /\ up /\ Scalars /\ Sound(tickets, next) /\ Sound(Kept, next)
        /\ CooldownsOK(cool) /\ pruned \in {Never} \union Nat
    BY KeptSound DEF Parts, Command, Scalars
  <1>1. ASSUME NEW o \in Owners, HelpMe(display[o]) \/ Request(display[o]) \/ Cancel(display[o])
        PROVE  Parts'
    <2>1. display[o] \in Names BY <1>0 DEF Scalars
    <2>2. CASE HelpMe(display[o]) BY <1>0, <2>1, <2>2, HelpMeKeeps
    <2>3. CASE Request(display[o]) BY <1>0, <2>1, <2>3, RequestKeeps
    <2>4. CASE Cancel(display[o]) BY <1>0, <2>4, RemoveKeeps DEF Cancel
    <2> QED BY <1>1, <2>2, <2>3, <2>4
  <1>2. ASSUME NEW id \in Live, Close(id) PROVE Parts'
    BY <1>0, <1>2, RemoveKeeps DEF Close
  <1>3. CASE Look
    BY <1>0, <1>3, LeaveKeeps DEF Look
  <1>4. CASE Count
    BY <1>0, <1>4, LeaveKeeps DEF Count
  <1>5. CASE Stats
    <2>1. pending' \in BOOLEAN /\ timer' \in BOOLEAN
      BY <1>0, <1>5, ScheduleTypes DEF Stats, Scalars
    <2>2. Scalars' BY <1>0, <1>5, <2>1 DEF Stats, Scalars
    <2>3. Sound(tickets', next') BY <1>0, <1>5 DEF Stats
    <2>4. NothingLeft' BY <1>0, <1>5 DEF Stats, NothingLeft
    <2>5. Sound(disk'.tickets, disk'.next) /\ CooldownsOK(cool') /\ CooldownsOK(disk'.cool)
      BY <1>5 DEF Stats, Parts
    <2> QED BY <2>2, <2>3, <2>4, <2>5 DEF Parts
  <1> QED BY <1>1, <1>2, <1>3, <1>4, <1>5, EditsKeep, <1>0 DEF Command

\* The clock, saves, crashes and restarts exchange memory and disk.
LEMMA EnvironmentKeeps == ASSUME Parts, Environment \/ SaveTimer PROVE Parts'
  <1>0. /\ Scalars /\ Sound(tickets, next) /\ Sound(disk.tickets, disk.next)
        /\ CooldownsOK(cool) /\ CooldownsOK(disk.cool) /\ NothingLeft
    BY DEF Parts
  <1>1. CASE Crash
    <2>1. Scalars' BY <1>0, <1>1 DEF Crash, Scalars
    <2>2. Sound(tickets', next') /\ CooldownsOK(cool')
      BY <1>1, EmptySound, EmptyCooldowns DEF Crash
    <2>3. NothingLeft' BY <1>1 DEF Crash, NothingLeft
    <2>4. disk' = disk BY <1>1 DEF Crash
    <2> QED BY <1>0, <2>1, <2>2, <2>3, <2>4 DEF Parts
  <1>2. CASE Start
    <2>1. Scalars' BY <1>0, <1>2, ScheduleTypes DEF Start, Scalars
    <2>2. Sound(tickets', next') /\ CooldownsOK(cool') BY <1>0, <1>2 DEF Start
    <2>3. NothingLeft' BY <1>2 DEF Start, NothingLeft
    <2>4. disk' = disk BY <1>2 DEF Start
    <2> QED BY <1>0, <2>1, <2>2, <2>3, <2>4 DEF Parts
  <1>3. CASE CoreSave \/ SaveTimer
    <2>1. disk' = disk \/ disk' = Stored BY <1>3 DEF CoreSave, SaveTimer, SaveDatabases
    <2>2. /\ disk' = [tickets |-> disk'.tickets, next |-> disk'.next, cool |-> disk'.cool]
          /\ Sound(disk'.tickets, disk'.next) /\ CooldownsOK(disk'.cool)
      BY <1>0, <2>1 DEF Scalars, Stored
    <2>3. pending' \in BOOLEAN /\ UNCHANGED <<up, readonly, display, tickets, next, cool, pruned, timer>>
      BY <1>0, <1>3 DEF CoreSave, SaveTimer, memory, Scalars
    <2>4. Scalars' BY <1>0, <2>2, <2>3 DEF Scalars
    <2>5. NothingLeft' BY <1>0, <2>3 DEF NothingLeft
    <2> QED BY <1>0, <2>2, <2>3, <2>4, <2>5 DEF Parts
  <1>4. CASE SetReadOnly
    <2>1. readonly' \in BOOLEAN BY <1>4, ConfigAssumption DEF SetReadOnly
    <2>2. UNCHANGED <<up, display, tickets, next, cool, pruned, pending, timer, disk>>
      BY <1>4 DEF SetReadOnly, memory
    <2> QED BY <1>0, <2>1, <2>2 DEF Parts, Scalars, NothingLeft
  <1>5. CASE SetDisplay
    <2>1. display' \in [Owners -> Names] BY <1>0, <1>5 DEF SetDisplay, Scalars
    <2>2. UNCHANGED <<up, readonly, tickets, next, cool, pruned, pending, timer, disk>>
      BY <1>5 DEF SetDisplay, memory
    <2> QED BY <1>0, <2>1, <2>2 DEF Parts, Scalars, NothingLeft
  <1>6. CASE Tick
    <2>1. /\ tickets' = OlderTickets(tickets) /\ cool' = OlderCooldowns(cool)
          /\ UNCHANGED <<up, readonly, display, next, pending, timer>>
      BY <1>6 DEF Tick
    <2>2. /\ disk' = [tickets |-> disk'.tickets, next |-> disk'.next, cool |-> disk'.cool]
          /\ disk'.tickets = OlderTickets(disk.tickets) /\ disk'.next = disk.next
          /\ disk'.cool = OlderCooldowns(disk.cool)
      BY <1>0, <1>6 DEF Tick, Scalars
    <2>3. Sound(tickets', next') /\ Sound(disk'.tickets, disk'.next)
      BY <1>0, <2>1, <2>2, OlderSound
    <2>4. CooldownsOK(cool') /\ CooldownsOK(disk'.cool)
      BY <1>0, <2>1, <2>2, CooldownsKeep
    <2>5. pruned' \in {Never} \union Nat BY <1>0, <1>6 DEF Tick, Scalars, Older
    <2>6. Scalars' BY <1>0, <2>1, <2>2, <2>5 DEF Scalars
    <2>7. NothingLeft'
      <3>1. OlderTickets(Empty) = Empty /\ OlderCooldowns(Empty) = Empty
        BY DEF OlderTickets, OlderCooldowns, Empty
      <3> QED BY <1>0, <2>1, <3>1 DEF NothingLeft
    <2> QED BY <2>3, <2>4, <2>6, <2>7 DEF Parts
  <1> QED BY <1>1, <1>2, <1>3, <1>4, <1>5, <1>6 DEF Environment

\* IInv is inductive: types, one ticket per account and fresh ids hold in memory and on
\* disk in every reachable state (HelpServCore).
THEOREM Invariance == Spec => []IInv
  <1>1. Init => IInv
    <2> SUFFICES ASSUME Init PROVE Parts BY Regroup
    <2>1. Scalars BY ConfigAssumption DEF Init, Scalars
    <2>2. NothingLeft BY DEF Init, NothingLeft
    <2>3. Sound(tickets, next) /\ CooldownsOK(cool) BY EmptySound, EmptyCooldowns DEF Init
    <2>4. Sound(disk.tickets, disk.next) /\ CooldownsOK(disk.cool)
      BY EmptySound, EmptyCooldowns DEF Init
    <2> QED BY <2>1, <2>2, <2>3, <2>4 DEF Parts
  <1>2. IInv /\ [Next]_vars => IInv'
    <2> SUFFICES ASSUME Parts, [Next]_vars PROVE Parts'
      BY Regroup, PTL
    <2>1. CASE Next BY <2>1, CommandKeeps, EnvironmentKeeps DEF Next
    <2>2. CASE UNCHANGED vars
      BY <2>2 DEF Parts, Scalars, NothingLeft, vars, memory
    <2> QED BY <2>1, <2>2
  <1> QED BY <1>1, <1>2, PTL DEF Spec

-----------------------------------------------------------------------------
(* What a command may do to the tickets *)

\* A ticket afterwards was live before and is unchanged or refreshed, or it is new.
Careful ==
  \A id \in DOMAIN tickets' :
    \/ id \in Live /\ (tickets'[id] = tickets[id] \/ tickets'[id].age = 0)
    \/ id \notin DOMAIN tickets /\ tickets'[id].age = 0

\* A ticket that is refreshed in place is the same ticket.
LEMMA EditIsCareful ==
  ASSUME NEW id \in Live, NEW t, IsTicket(t), tickets' = [Kept EXCEPT ![id] = [t EXCEPT !.age = 0]]
  PROVE  Careful
  <1>1. [t EXCEPT !.age = 0].age = 0
    BY DEF IsTicket
  <1>2. DOMAIN tickets' = Live /\ tickets'[id].age = 0
    BY <1>1, KeptAre
  <1>3. \A x \in Live \ {id} : tickets'[x] = tickets[x]
    BY KeptAre
  <1> QED BY <1>2, <1>3 DEF Careful

\* Commands look at the live tickets only (PruneExpiredTickets in every handler).
LEMMA CommandsAreCareful == ASSUME Parts, Command PROVE tickets' = tickets \/ Careful
  <1>0. /\ \A id \in DOMAIN tickets : IsTicket(tickets[id]) /\ id < next
        /\ next \in Nat /\ DOMAIN tickets \subseteq Nat /\ Live \subseteq DOMAIN tickets
    BY DEF Parts, Sound, Live
  <1>1. ASSUME tickets' = Kept \/ \E id : tickets' = Without(Kept, id) PROVE Careful
    BY <1>1, KeptAre DEF Careful, Without, Only
  <1>2. ASSUME NEW a, HelpMe(a) PROVE tickets' = tickets
    BY <1>2 DEF HelpMe, Leave
  <1>3. ASSUME NEW a, Request(a) PROVE Careful
    <2>1. CASE RefuseRequest(a)
      BY <1>1, <2>1 DEF RefuseRequest, Leave
    <2>2. CASE UpdateTicket(a)
      <3>1. PICK id \in TicketsOf(a) : tickets' = [Kept EXCEPT ![id].age = 0]
        BY <2>2 DEF UpdateTicket, Leave
      <3>2. id \in Live /\ Kept[id] = tickets[id] BY KeptAre DEF TicketsOf
      <3>3. tickets' = [Kept EXCEPT ![id] = [tickets[id] EXCEPT !.age = 0]] BY <3>1, <3>2
      <3> QED BY <1>0, <3>2, <3>3, EditIsCareful
    <2>3. CASE OpenTicket(a)
      <3>1. tickets' = Put(Kept, next, NewTicket(a)) BY <2>3 DEF OpenTicket, Leave
      <3>2. next \notin DOMAIN tickets BY <1>0
      <3>3. /\ DOMAIN tickets' = Live \union {next} /\ tickets'[next].age = 0
            /\ \A id \in Live : tickets'[id] = tickets[id]
        BY <3>1, <3>2, <1>0, KeptAre DEF Put, NewTicket
      <3> QED BY <3>2, <3>3 DEF Careful
    <2> QED BY <1>3, <2>1, <2>2, <2>3 DEF Request
  <1>4. ASSUME NEW a, Cancel(a) PROVE Careful
    BY <1>1, <1>4 DEF Cancel, Leave
  <1>5. ASSUME NEW id \in Live, Close(id) PROVE Careful
    BY <1>1, <1>5 DEF Close, Leave
  <1>6. ASSUME NEW id \in Live, NEW t, IsTicket(t), Edit(id, t) PROVE Careful
    BY <1>6, EditIsCareful DEF Edit, Leave
  <1>7. ASSUME NEW id \in Live, Take(id) \/ Assign(id) \/ Note(id) PROVE Careful
    BY <1>0, <1>6, <1>7 DEF Take, Assign, Note
  <1>8. ASSUME NEW id \in Live, Wait(id) \/ Unwait(id) PROVE Careful
    <2>1. \A w \in BOOLEAN : IsTicket([tickets[id] EXCEPT !.waiting = w])
      BY <1>0, TicketEdits
    <2> QED BY <1>6, <1>8, <2>1 DEF Wait, Unwait
  <1>9. ASSUME NEW id \in Live, NEW p \in 0..2, Priority(id, p) PROVE Careful
    <2>1. \A q \in 0..2 : IsTicket([tickets[id] EXCEPT !.priority = q])
      BY <1>0, TicketEdits
    <2> QED BY <1>6, <1>9, <2>1 DEF Priority
  <1>10. CASE Look BY <1>1, <1>10 DEF Look, Leave
  <1>11. CASE Stats BY <1>1, <1>11 DEF Stats
  <1>12. CASE Count BY <1>12 DEF Count, Leave
  <1> QED BY <1>2, <1>3, <1>4, <1>5, <1>7, <1>8, <1>9, <1>10, <1>11, <1>12 DEF Command

\* The clock changes no ticket that it does not make older.
LEMMA ClockIsVisible ==
  ASSUME Parts, Tick, NEW id \in DOMAIN tickets
  PROVE  /\ id \in DOMAIN tickets'
         /\ Expired(tickets[id]) => tickets'[id] = tickets[id]
         /\ tickets'[id] = tickets[id] => Expired(tickets[id])
  <1>1. IsTicket(tickets[id]) /\ TicketExpire \in Nat /\ MaxAge \in Nat
    BY ConfigAssumption DEF Parts, Sound
  <1> DEFINE age == tickets[id].age
             older == Older(age, TicketAge)
  <1>2. DOMAIN tickets' = DOMAIN tickets /\ tickets'[id] = [tickets[id] EXCEPT !.age = older]
    BY DEF Tick, OlderTickets
  <1>3. age \in Nat /\ tickets'[id].age = older
    BY <1>1, <1>2 DEF IsTicket
  <1>4. ASSUME Expired(tickets[id]) PROVE older = age
    BY <1>1, <1>3, <1>4 DEF Expired, Older, TicketAge
  <1>5. ASSUME older = age PROVE Expired(tickets[id])
    <2>1. ~(age < TicketAge) BY <1>3, <1>5 DEF Older
    <2>2. TicketExpire # 0 BY <1>1, <1>3, <2>1 DEF Tick, TicketAge
    <2> QED BY <1>1, <1>3, <2>1, <2>2 DEF TicketAge, Expired
  <1>6. older = age => tickets'[id] = tickets[id]
    BY <1>1, <1>2 DEF IsTicket
  <1> QED BY <1>2, <1>3, <1>4, <1>5, <1>6

\* The steps, as far as tickets are concerned.
LEMMA TicketSteps ==
  ASSUME Parts, [Next]_vars
  PROVE  \/ tickets' = tickets \/ Careful \/ Tick
         \/ DOMAIN tickets = {} \/ DOMAIN tickets' = {}
  <1>1. CASE Command BY <1>1, CommandsAreCareful
  <1>2. CASE SaveTimer BY <1>2 DEF SaveTimer, memory
  <1>3. CASE Crash BY <1>3 DEF Crash, Empty
  <1>4. CASE Start BY <1>4 DEF Start, Parts, NothingLeft, Empty
  <1>5. CASE CoreSave \/ SetReadOnly \/ SetDisplay
    BY <1>5 DEF CoreSave, SetReadOnly, SetDisplay, memory
  <1>6. CASE UNCHANGED vars BY <1>6 DEF vars, memory
  <1> QED BY <1>1, <1>2, <1>3, <1>4, <1>5, <1>6 DEF Next, Environment

-----------------------------------------------------------------------------
(* Action properties *)

\* No command sees an expired ticket, whatever the expiry time
\* (ExpiredStaysExpired; PruneExpiredTickets).
THEOREM ExpiredAreDead == Spec => ExpiredStaysExpired
  <1>1. ASSUME Parts, [Next]_vars, NEW id \in DOMAIN tickets, Expired(tickets[id])
        PROVE  id \notin DOMAIN tickets' \/ tickets'[id] = tickets[id]
    <2>1. id \notin Live BY <1>1 DEF Live
    <2>2. CASE Careful BY <2>1, <2>2 DEF Careful
    <2>3. CASE Tick BY <1>1, <2>3, ClockIsVisible
    <2> QED BY <1>1, <2>2, <2>3, TicketSteps
  <1>2. IInv /\ [Next]_vars =>
          [\A id \in DOMAIN tickets : Expired(tickets[id]) =>
             id \notin DOMAIN tickets' \/ tickets'[id] = tickets[id]]_vars
    BY <1>1, Regroup
  <1> QED BY <1>2, Invariance, PTL DEF Spec, ExpiredStaysExpired

\* A ticket that has waited is not passed, in a queue of any length
\* (NoOvertaking; GetSortedTickets).
THEOREM QueueOrder == Spec => NoOvertaking
  <1> DEFINE Passed(x, y) ==
        /\ tickets'[y].waiting = tickets[x].waiting
        /\ tickets'[y].priority = tickets[x].priority
        /\ y \in DOMAIN tickets => Before(tickets, x, y)
  <1>1. ASSUME Parts, [Next]_vars, NEW x \in DOMAIN tickets \intersect DOMAIN tickets',
               tickets'[x] = tickets[x], tickets[x].age > 0, ~Expired(tickets[x]),
               NEW y \in DOMAIN tickets' \ {x}, Passed(x, y)
        PROVE  Before(tickets', x, y)
    <2>1. CASE tickets' = tickets BY <1>1, <2>1
    <2>2. CASE Careful
      <3>1. CASE tickets'[y].age = 0 BY <1>1, <3>1 DEF Before
      <3>2. CASE y \in DOMAIN tickets /\ tickets'[y] = tickets[y] BY <1>1, <3>2 DEF Before
      <3> QED BY <2>2, <3>1, <3>2 DEF Careful, Live
    <2>3. CASE Tick BY <1>1, <2>3, ClockIsVisible
    <2> QED BY <1>1, <2>1, <2>2, <2>3, TicketSteps
  <1>2. IInv /\ [Next]_vars =>
          [\A x \in DOMAIN tickets \intersect DOMAIN tickets' :
             tickets'[x] = tickets[x] /\ tickets[x].age > 0 /\ ~Expired(tickets[x]) =>
               \A y \in DOMAIN tickets' \ {x} : Passed(x, y) => Before(tickets', x, y)]_vars
    <2> HIDE DEF Passed
    <2> QED BY <1>1, Regroup
  <1> QED BY <1>2, Invariance, PTL DEF Spec, NoOvertaking

\* Outside of read-only mode no change goes without a save
\* (ChangesAreScheduled; MarkStateChanged, MarkTicketChanged).
THEOREM Scheduled == Spec => ChangesAreScheduled
  <1>1. ASSUME Next, Stored' # Stored, ~readonly, up', ~Tick PROVE pending' /\ timer'
    <2>1. ASSUME NEW ts, Leave(ts) PROVE pending' /\ timer'
      BY <1>1, <2>1 DEF Leave, ScheduleDBSave
    <2>2. ASSUME NEW a, HelpMe(a) \/ Request(a) \/ Cancel(a) PROVE pending' /\ timer'
      BY <2>1, <2>2 DEF HelpMe, Request, RefuseRequest, UpdateTicket, OpenTicket, Cancel
    <2>3. ASSUME NEW id, Close(id) \/ Take(id) \/ Assign(id) \/ Note(id) \/ Wait(id) \/ Unwait(id)
          PROVE  pending' /\ timer'
      BY <2>1, <2>3 DEF Close, Take, Assign, Note, Wait, Unwait, Edit
    <2>4. ASSUME NEW id, NEW p, Priority(id, p) PROVE pending' /\ timer'
      BY <2>1, <2>4 DEF Priority, Edit
    <2>5. CASE Look \/ Count BY <2>1, <2>5 DEF Look, Count
    <2>6. CASE Stats
      <3>1. Kept # tickets BY <1>1, <2>6 DEF Stats, Stored
      <3> QED BY <1>1, <2>6, <3>1 DEF Stats, ScheduleDBSave
    <2>7. CASE Start BY <1>1, <2>7 DEF Start, ScheduleDBSave
    <2>8. CASE Crash BY <1>1, <2>8 DEF Crash
    <2>9. CASE SaveTimer \/ CoreSave \/ SetReadOnly \/ SetDisplay
      BY <1>1, <2>9 DEF SaveTimer, CoreSave, SetReadOnly, SetDisplay, memory, Stored
    <2> QED BY <1>1, <2>2, <2>3, <2>4, <2>5, <2>6, <2>7, <2>8, <2>9 DEF Next, Command, Environment
  <1>2. [Next]_vars =>
          [Stored' # Stored /\ ~readonly /\ up' /\ ~Tick => pending' /\ timer']_vars
    BY <1>1
  <1> QED BY <1>2, PTL DEF Spec, ChangesAreScheduled

\* A cooldown that runs is not cut short, for any cooldowns and pruning limits with a TTL
\* that covers them (CooldownsHold; PruneCooldownMaps).
THEOREM Cooldowns == Spec => CooldownsHold
  <1> DEFINE Running(k) == cool[k] < CooldownOf(k[1]) /\ CooldownOf(k[1]) <= PruneTTL + 1
  <1>1. ASSUME Parts, Next, NEW k \in DOMAIN cool, Running(k), up'
        PROVE  k \in DOMAIN cool' /\ cool'[k] >= cool[k]
    <2>1. /\ cool[k] \in Nat /\ k \in Keys /\ PruneTTL \in Nat
          /\ HelpMeCooldown \in Nat /\ RequestCooldown \in Nat
      BY <1>1, ConfigAssumption DEF Parts, CooldownsOK
    <2>2. CooldownOf(k[1]) \in Nat BY <2>1 DEF CooldownOf
    <2>3. cool[k] <= PruneTTL BY <1>1, <2>1, <2>2
    <2>4. k \in DOMAIN PrunedCooldowns /\ PrunedCooldowns[k] = cool[k]
      BY <1>1, <2>3 DEF PrunedCooldowns, Only
    <2>5. ASSUME NEW kind, NEW a, ~Cooling(kind, a) PROVE k # <<kind, a>>
      <3> SUFFICES ASSUME k = <<kind, a>> PROVE FALSE OBVIOUS
      <3>1. k[1] = kind OBVIOUS
      <3> QED BY <1>1, <2>4, <2>5, <3>1 DEF Cooling
    <2>6. ASSUME NEW kind, NEW a, ~Cooling(kind, a),
                 cool' = Put(PrunedCooldowns, <<kind, a>>, 0)
          PROVE  k \in DOMAIN cool' /\ cool'[k] >= cool[k]
      <3>1. k \in DOMAIN cool' /\ cool'[k] = cool[k] BY <2>4, <2>5, <2>6 DEF Put
      <3> QED BY <2>1, <3>1
    <2>7. CASE cool' = cool BY <1>1, <2>1, <2>7
    <2>8. CASE cool' = PrunedCooldowns BY <2>1, <2>4, <2>8
    <2>9. ASSUME NEW a, HelpMe(a) \/ Request(a) PROVE k \in DOMAIN cool' /\ cool'[k] >= cool[k]
      BY <2>6, <2>8, <2>9
      DEF HelpMe, Request, RefuseRequest, UpdateTicket, OpenTicket, Accept
    <2>10. CASE Tick
      <3>1. k \in DOMAIN cool' /\ cool'[k] = Older(cool[k], CooldownAge)
        BY <1>1, <2>10 DEF Tick, OlderCooldowns
      <3> QED BY <2>1, <3>1 DEF Older
    <2>11. CASE Start \/ Crash
      BY <1>1, <2>11 DEF Start, Crash, Parts, NothingLeft, Empty
    <2>12. ASSUME Command PROVE cool' = cool \/ \E o \in Owners : HelpMe(display[o]) \/ Request(display[o])
      BY <2>12 DEF Command, Cancel, Close, Take, Assign, Note, Wait, Unwait, Priority, Edit,
                   Look, Stats, Count
    <2>13. CASE SaveTimer \/ CoreSave \/ SetReadOnly \/ SetDisplay
      BY <2>7, <2>13 DEF SaveTimer, CoreSave, SetReadOnly, SetDisplay, memory
    <2> QED BY <1>1, <2>7, <2>9, <2>10, <2>11, <2>12, <2>13 DEF Next, Environment
  <1>2. IInv /\ [Next]_vars =>
          [\A k \in DOMAIN cool : Running(k) /\ up' =>
             k \in DOMAIN cool' /\ cool'[k] >= cool[k]]_vars
    <2> HIDE DEF Running
    <2> QED BY <1>1, Regroup
  <1>3. [][\A k \in DOMAIN cool : Running(k) /\ up' =>
             k \in DOMAIN cool' /\ cool'[k] >= cool[k]]_vars => CooldownsHold
    BY PTL DEF CooldownsHold
  <1> QED BY <1>2, <1>3, Invariance, PTL DEF Spec
=============================================================================
